-------------------------- MODULE DealEscrowProofs --------------------------
(****************************************************************************)
(* DealEscrow, proved for any set of deals, any set of callbacks and any     *)
(* bound on the trips.                                                       *)
(*                                                                           *)
(* Its rows: every operator of EscrowLedger takes a sound row to a sound row *)
(* (Sound); a step of the machine rewrites each row with one of them or      *)
(* leaves it alone; so all rows are always sound, and the invariants of      *)
(* DealEscrow are parts of that.                                             *)
(*                                                                           *)
(* Its reports: a decided report stays decided, and of all the reports of    *)
(* one movement, callbacks and polls together, one at most is applied.  An   *)
(* applied report leaves its mark on the payment (Past), no operation of the *)
(* system wipes the mark out (Keeps), and a movement that has left its mark  *)
(* exists no more.                                                           *)
(*                                                                           *)
(* Its promise: DealEscrow implements EscrowPromise.  Every operator takes a *)
(* sound row to one whose account is the same or follows (Honours), by the   *)
(* same case split as the code's own; soundness is needed, for only a sound  *)
(* row has no direct deal paid and received, and no deal that goes on after  *)
(* its money left.                                                           *)
(****************************************************************************)
EXTENDS DealEscrow, TLAPS

\* The buyer's own protection, read off one row: EscrowProtectsBuyer says that a
\* paid-out row is PaidOnDelivery; DeliveredBy is what must hold the step before.
DeliveredBy(r) ==
  LET last == Len(r.log)
  IN  /\ last >= 1
      /\ r.log[last].to = "delivered"
      /\ r.log[last].actor \in {"buyer", "staff"}

PaidOnDelivery(r) ==
  LET last == Len(r.log)
  IN  /\ last >= 2
      /\ r.log[last - 1].to = "delivered"
      /\ r.log[last - 1].actor \in {"buyer", "staff"}

Witnessed(r) ==
  /\ r.status = "delivered" => DeliveredBy(r)
  /\ r.pay = "released" => PaidOnDelivery(r)

\* The seller's: EscrowProtectsSeller, and that a deal in dispute has it logged,
\* without which a restored deal could pass for one that was never disputed.
Protected(r) ==
  r.mode # "direct" /\ NeverDisputed(r)
    => /\ r.status # "disputed"
       /\ r.status \in {"paid_escrow", "shipped", "delivered"} => r.pay = "funded"

\* The inductive invariant, one row at a time: the row is well typed, the money
\* ends with the deal, a deal past its contract has a payment with a rail, and
\* its history bears the two protections out.
Consistent(r) ==
  /\ r \in Row
  /\ r.pay = "released" <=> r.status = "completed"
  /\ r.pay = "refunded" => r.status = "cancelled"
  /\ r.status = "none" => r.pay = "none"
  /\ r.pay = "none" => r.status \in Unbilled
  /\ r.pay = "none" <=> r.mode = "none"
  /\ r.ref => r.mode = "live"
  /\ Protected(r)
  /\ Witnessed(r)

\* Settlement runs last in its transaction, so it is stated apart: between
\* transactions no direct deal rests paid and received.
Settled(r) == r.mode = "direct" /\ r.pay = "funded" => r.status # "delivered"

Sound(r) == Consistent(r) /\ Settled(r)

IInv == TypeOK /\ \A d \in Deals : Sound(rows[d])

-----------------------------------------------------------------------------
(* The tables                                                                *)

\* What a legal move tells about its ends: it stays within the statuses, leaves
\* no closed deal, completes only a delivered deal, and only as the system.
LEMMA MoveFacts ==
  ASSUME NEW r \in Row, NEW to, NEW actor \in Actors, CanMove(r, to, actor)
  PROVE  /\ to \in DealStatuses
         /\ r.status \in DealStatuses
         /\ r.status \notin {"completed", "cancelled"}
         /\ to = "completed" => r.status = "delivered" /\ actor = "system"
         /\ to = "paid_escrow" => r.status \in {"payment_pending", "disputed"}
         /\ to = "payment_pending" => r.status \in {"contract_signed", "disputed"}
         /\ to \in {"shipped", "delivered", "disputed"}
              => r.status \in Restorable \cup {"disputed"}
         /\ r.status \in {"negotiation", "contract_pending", "contract_signed"}
              => to \in Unbilled \cup {"payment_pending"}
         /\ actor \in Parties \/ r.status = "disputed" => to # "completed"
         /\ actor \in Parties => to # "payment_pending"
  BY DEF CanMove, Row, VALID_TRANSITIONS, MayDrive, ACTOR_RULES, DealStatuses,
         Actors, Parties, Restorable, Unbilled

\* A new history row keeps the row well typed.
LEMMA MovedType ==
  ASSUME NEW r \in Row, r.status \in DealStatuses,
         NEW to \in DealStatuses, NEW actor \in Actors
  PROVE  /\ Moved(r, to, actor) \in Row
         /\ Moved(r, to, actor).status = to
         /\ Moved(r, to, actor).pay = r.pay
         /\ Moved(r, to, actor).mode = r.mode
         /\ Moved(r, to, actor).ref = r.ref
<1> DEFINE entry == [from |-> r.status, to |-> to, actor |-> actor]
           q     == [r EXCEPT !.status = to]
           l     == Append(r.log, entry)
<1>1. entry \in LogRow
  BY DEF LogRow
<1>2. r.log \in Seq(LogRow)
  BY DEF Row
<1>3. l \in Seq(LogRow)
  <2> HIDE DEF entry
  <2> QED  BY <1>1, <1>2
<1>4. q \in Row /\ q.status = to /\ q.pay = r.pay /\ q.mode = r.mode /\ q.ref = r.ref
  BY DEF Row
<1>5. Moved(r, to, actor) = [q EXCEPT !.log = l]
  BY DEF Moved
<1> HIDE DEF q, l
<1>6. [q EXCEPT !.log = l] \in Row
  BY <1>3, <1>4 DEF Row
<1>7. /\ [q EXCEPT !.log = l].status = q.status
      /\ [q EXCEPT !.log = l].pay = q.pay
      /\ [q EXCEPT !.log = l].mode = q.mode
      /\ [q EXCEPT !.log = l].ref = q.ref
  BY <1>4 DEF Row
<1>8. QED
  BY <1>4, <1>5, <1>6, <1>7

\* The protections read the history alone, whatever else of the row changed.
LEMMA SameLog ==
  ASSUME NEW r, NEW q, q.log = r.log
  PROVE  /\ NeverDisputed(q) <=> NeverDisputed(r)
         /\ DeliveredBy(q) <=> DeliveredBy(r)
         /\ PaidOnDelivery(q) <=> PaidOnDelivery(r)
  BY DEF NeverDisputed, DeliveredBy, PaidOnDelivery

\* What one more history row does to them.
LEMMA MovedLog ==
  ASSUME NEW r \in Row, r.status \in DealStatuses,
         NEW to \in DealStatuses, NEW actor \in Actors
  PROVE  LET m == Moved(r, to, actor)
         IN  /\ NeverDisputed(m) => NeverDisputed(r) /\ to # "disputed"
             /\ to = "delivered" /\ actor \in {"buyer", "staff"} => DeliveredBy(m)
             /\ DeliveredBy(r) => PaidOnDelivery(m)
<1> DEFINE entry == [from |-> r.status, to |-> to, actor |-> actor]
           q == [r EXCEPT !.status = to]
           m == Moved(r, to, actor)
           n == Len(r.log)
<1>1. entry \in LogRow /\ entry.to = to /\ entry.actor = actor
  BY DEF LogRow
<1>2. r.log \in Seq(LogRow) /\ q.log = r.log /\ q \in Row
  BY DEF Row
<1>3. m = [q EXCEPT !.log = Append(r.log, entry)]
  BY DEF Moved
<1>4. m.log = Append(r.log, entry)
  BY <1>2, <1>3 DEF Row
<1> HIDE DEF entry, q, m
<1>5. /\ n \in Nat /\ Len(m.log) = n + 1
      /\ m.log[n + 1] = entry
      /\ \A i \in 1..n : m.log[i] = r.log[i]
  BY <1>1, <1>2, <1>4
<1> HIDE DEF n
<1>6. NeverDisputed(m) => NeverDisputed(r) /\ to # "disputed"
  BY <1>1, <1>5 DEF NeverDisputed, n
<1>7. to = "delivered" /\ actor \in {"buyer", "staff"} => DeliveredBy(m)
  BY <1>1, <1>5 DEF DeliveredBy
<1>8. DeliveredBy(r) => PaidOnDelivery(m)
  BY <1>5 DEF DeliveredBy, PaidOnDelivery, n
<1>9. QED
  BY <1>6, <1>7, <1>8 DEF m

-----------------------------------------------------------------------------
(* The operators of EscrowLedger keep a row sound                            *)

\* Whatever settle_direct is given, it leaves a settled deal, and it completes
\* one only together with its payment.
LEMMA SettleSound ==
  ASSUME NEW r, Consistent(r)
  PROVE  Sound(SettleDirect(r))
<1> DEFINE p == [r EXCEPT !.pay = "released"]
<1>1. CASE r.mode = "direct" /\ r.pay = "funded" /\ r.status = "delivered"
  <2>1. /\ p \in Row
        /\ p.status = "delivered" /\ p.pay = "released"
        /\ p.mode = r.mode /\ p.ref = r.ref /\ p.log = r.log
    BY <1>1 DEF Consistent, Row, EscrowStatuses
  <2>2. SettleDirect(r) = Moved(p, "completed", "system")
    BY <1>1 DEF SettleDirect
  <2> HIDE DEF p
  <2>3. DeliveredBy(p)
    BY <1>1, <2>1, SameLog DEF Consistent, Witnessed
  <2>4. PaidOnDelivery(SettleDirect(r))
    BY <2>1, <2>2, <2>3, MovedLog DEF DealStatuses, Actors
  <2>5. /\ SettleDirect(r) \in Row
        /\ SettleDirect(r).status = "completed" /\ SettleDirect(r).pay = "released"
        /\ SettleDirect(r).mode = r.mode /\ SettleDirect(r).ref = r.ref
    BY <2>1, <2>2, MovedType DEF DealStatuses, Actors
  <2>6. QED
    BY <1>1, <2>4, <2>5 DEF Sound, Consistent, Settled, Protected, Witnessed
<1>2. CASE ~(r.mode = "direct" /\ r.pay = "funded" /\ r.status = "delivered")
  <2>1. SettleDirect(r) = r
    BY <1>2 DEF SettleDirect
  <2>2. QED
    BY <1>2, <2>1 DEF Sound, Settled
<1>3. QED
  BY <1>1, <1>2

\* `transition`, driven by a party, by staff out of a dispute, or by a contract
\* event.
LEMMA TransitionSound ==
  ASSUME NEW r, Sound(r), NEW to, NEW actor \in Actors,
         CanMove(r, to, actor),
         \/ actor \in Parties
         \/ r.status = "disputed"
         \/ to \in {"negotiation", "contract_pending", "contract_signed"}
  PROVE  Sound(Transitioned(r, to, actor))
<1> DEFINE m == Moved(r, to, actor)
<1>1. r \in Row /\ Consistent(r)
  BY DEF Sound, Consistent
<1>2. /\ to \in DealStatuses
      /\ r.status \in DealStatuses
      /\ r.status \notin {"completed", "cancelled"}
      /\ to # "completed"
      /\ r.status \in Unbilled => to \in Unbilled
  <2>1. /\ to \in DealStatuses
        /\ r.status \in DealStatuses
        /\ r.status \notin {"completed", "cancelled"}
        /\ r.status \in {"negotiation", "contract_pending", "contract_signed"}
             => to \in Unbilled \cup {"payment_pending"}
        /\ actor \in Parties \/ r.status = "disputed" => to # "completed"
        /\ actor \in Parties => to # "payment_pending"
    BY <1>1, MoveFacts
  <2>2. r.status \in Unbilled
          => r.status \in {"negotiation", "contract_pending", "contract_signed"}
    BY <2>1 DEF Unbilled, DealStatuses
  <2>3. to # "completed"
    BY <2>1
  <2>4. r.status \in Unbilled => to \in Unbilled
    BY <2>1, <2>2 DEF Unbilled
  <2>5. QED
    BY <2>1, <2>3, <2>4
<1>3. m \in Row /\ m.status = to /\ m.pay = r.pay /\ m.mode = r.mode /\ m.ref = r.ref
  BY <1>1, <1>2, MovedType
<1> HIDE DEF m
<1>4. /\ NeverDisputed(m) => NeverDisputed(r) /\ to # "disputed"
      /\ to = "delivered" /\ actor \in {"buyer", "staff"} => DeliveredBy(m)
  BY <1>1, <1>2, MovedLog DEF m
<1>5. Protected(m)
  <2>1. SUFFICES ASSUME r.mode # "direct", NeverDisputed(m),
                        to \in {"paid_escrow", "shipped", "delivered"}
                 PROVE  r.pay = "funded"
    BY <1>3, <1>4 DEF Protected
  <2>2. r.status # "disputed" /\ NeverDisputed(r)
    BY <1>1, <1>4, <2>1 DEF Consistent, Protected
  <2>3. r.status \in {"paid_escrow", "shipped"}
    BY <2>1, <2>2 DEF CanMove, VALID_TRANSITIONS, DIRECT_ONLY, MayDrive, ACTOR_RULES,
                      Restorable, Parties
  <2>4. QED
    BY <1>1, <2>1, <2>2, <2>3 DEF Consistent, Protected
<1>6. Witnessed(m)
  <2>1. to = "delivered" => actor \in {"buyer", "staff"}
    BY DEF CanMove, MayDrive, ACTOR_RULES
  <2>2. r.pay # "released"
    BY <1>1, <1>2 DEF Consistent
  <2>3. QED
    BY <1>3, <1>4, <2>1, <2>2 DEF Witnessed
<1>7. Consistent(m)
  BY <1>1, <1>2, <1>3, <1>5, <1>6 DEF Consistent, DealStatuses
<1>8. CASE to = "delivered"
  <2>1. Transitioned(r, to, actor) = SettleDirect(m)
    BY <1>8 DEF Transitioned, m
  <2>2. QED
    BY <1>7, <2>1, SettleSound
<1>9. CASE to # "delivered"
  <2>1. Transitioned(r, to, actor) = m
    BY <1>9 DEF Transitioned, m
  <2>2. QED
    BY <1>3, <1>7, <1>9, <2>1 DEF Sound, Settled
<1>10. QED
  BY <1>8, <1>9

\* `_apply_mark`, through any of its doors.
LEMMA MarkSound ==
  ASSUME NEW r, Sound(r), NEW to \in EscrowStatuses, NEW door,
         CanMark(r, to, door)
  PROVE  Sound(Marked(r, to))
<1> DEFINE paid == [r EXCEPT !.pay = to]
           effect == DEAL_EFFECT[to]
           dragged == IF DealStays(r, to) THEN paid
                      ELSE Moved(paid, effect, DragActor(to))
<1>1. r \in Row /\ Consistent(r) /\ Settled(r)
  BY DEF Sound, Consistent
<1>2. /\ r.pay \in {"pending", "funded"}
      /\ to \in {"funded", "released", "refunded"}
      /\ to = "funded" => r.pay = "pending"
      /\ to = "released" => r.status = "delivered"
  BY DEF CanMark, MovementExists, ReleaseIsDue, ESCROW_TRANSITIONS
<1>3. /\ effect = "paid_escrow" <=> to = "funded"
      /\ effect = "completed" <=> to = "released"
      /\ effect = "cancelled" <=> to = "refunded"
      /\ effect \in DealStatuses
  BY <1>2 DEF DEAL_EFFECT, DealStatuses
<1>4. /\ paid \in Row /\ paid.pay = to
      /\ paid.status = r.status /\ paid.mode = r.mode /\ paid.ref = r.ref
      /\ paid.log = r.log
  BY <1>1 DEF Row
<1>5. r.mode # "none" /\ r.status # "completed"
  BY <1>1, <1>2 DEF Consistent
<1>6. DragActor(to) \in Actors
  BY DEF DragActor, Actors
<1> HIDE DEF paid, effect
<1>7. r.status = "delivered" => DeliveredBy(paid)
  BY <1>1, <1>4, SameLog DEF Consistent, Witnessed
<1>8. CASE DealStays(r, to)
  <2>1. dragged = paid /\ to = "funded" /\ r.mode = "direct"
    BY <1>8 DEF DealStays
  <2>2. Protected(paid) /\ Witnessed(paid)
    BY <1>4, <1>7, <2>1 DEF Protected, Witnessed
  <2>3. Consistent(dragged)
    BY <1>1, <1>2, <1>4, <1>5, <2>1, <2>2 DEF Consistent
  <2>4. Marked(r, to) = SettleDirect(dragged)
    BY <1>8, <2>1 DEF Marked, paid, effect
  <2>5. QED
    BY <2>3, <2>4, SettleSound
<1>9. CASE ~DealStays(r, to)
  <2>1. CanMove(r, effect, DragActor(to))
    BY <1>9 DEF CanMark, DealFollows, effect
  <2>2. r.status \in DealStatuses
    BY <1>1, <1>6, <2>1, MoveFacts
  <2>3. /\ dragged \in Row /\ dragged.status = effect /\ dragged.pay = to
        /\ dragged.mode = r.mode /\ dragged.ref = r.ref
    BY <1>3, <1>4, <1>6, <1>9, <2>2, MovedType
  <2>4. DeliveredBy(paid) => PaidOnDelivery(dragged)
    BY <1>3, <1>4, <1>6, <1>9, <2>2, MovedLog
  <2> HIDE DEF dragged
  <2>5. Protected(dragged) /\ Witnessed(dragged)
    BY <1>2, <1>3, <1>7, <2>3, <2>4 DEF Protected, Witnessed
  <2>6. Consistent(dragged)
    BY <1>1, <1>2, <1>3, <1>5, <2>3, <2>5 DEF Consistent
  <2>7. Sound(dragged)
    BY <1>2, <1>3, <2>3, <2>6 DEF Sound, Settled
  <2>8. Marked(r, to) = IF to = "funded" THEN SettleDirect(dragged) ELSE dragged
    BY DEF Marked, dragged, paid, effect
  <2>9. QED
    BY <2>6, <2>7, <2>8, SettleSound
<1>10. QED
  BY <1>8, <1>9

\* The row before the deal, and the row _open writes.
LEMMA OpenedSound ==
  ASSUME NEW priced \in BOOLEAN
  PROVE  Sound(NoDeal) /\ Sound(Opened(priced))
<1> DEFINE entry == [from |-> "none", to |-> "negotiation", actor |-> "buyer"]
           log == <<entry>>
<1>1. entry \in LogRow
  BY DEF LogRow, DealStatuses, Actors, Parties
<1> HIDE DEF entry
<1>2. log \in Seq(LogRow)
  BY <1>1
<1>3. <<>> \in Seq(LogRow)
  OBVIOUS
<1>4. NoDeal \in Row
  BY <1>3 DEF NoDeal, Row
<1>5. Opened(priced) = [status |-> "negotiation", priced |-> priced, pay |-> "none",
                        mode |-> "none", ref |-> FALSE, log |-> log]
  BY DEF Opened, entry
<1> HIDE DEF log
<1>6. Opened(priced) \in Row
  BY <1>2, <1>5 DEF Row, DealStatuses
<1>7. Sound(NoDeal)
  BY <1>4 DEF Sound, Consistent, Settled, Protected, Witnessed, NoDeal, Unbilled
<1>8. Sound(Opened(priced))
  BY <1>5, <1>6 DEF Sound, Consistent, Settled, Protected, Witnessed, Unbilled
<1>9. QED
  BY <1>7, <1>8

\* open_for_deal: the payment and the deal's move to payment_pending.
LEMMA InvoicedSound ==
  ASSUME NEW r, Sound(r), CanInvoice(r), r.status = "contract_signed",
         NEW mode \in Modes
  PROVE  Sound(Invoiced(r, mode))
<1> DEFINE p == [r EXCEPT !.pay = "pending"]
           q == [p EXCEPT !.mode = mode]
           m == Moved(q, "payment_pending", "system")
<1>1. r \in Row /\ Consistent(r)
  BY DEF Sound, Consistent
<1>2. p \in Row /\ p.status = r.status /\ p.pay = "pending" /\ p.ref = r.ref
  BY <1>1 DEF Row, EscrowStatuses
<1>3. Invoiced(r, mode) = m
  BY DEF Invoiced
<1> HIDE DEF p
<1>4. q \in Row /\ q.status = r.status /\ q.pay = "pending" /\ q.ref = r.ref /\ q.mode = mode
  BY <1>2 DEF Row
<1> HIDE DEF q
<1>5. /\ m \in Row /\ m.status = "payment_pending" /\ m.pay = "pending"
      /\ m.ref = r.ref /\ m.mode = mode
  BY <1>4, MovedType DEF DealStatuses, Actors
<1> HIDE DEF m
<1>6. mode # "none"
  BY DEF Modes
<1>7. ~r.ref
  BY <1>1 DEF Consistent, CanInvoice, Row
<1>8. QED
  BY <1>3, <1>5, <1>6, <1>7 DEF Sound, Consistent, Settled, Protected, Witnessed

\* The live adapter names the bank's reference on a live payment.
LEMMA NamedSound ==
  ASSUME NEW r, Sound(r), r.mode = "live"
  PROVE  Sound([r EXCEPT !.ref = TRUE])
<1> DEFINE p == [r EXCEPT !.ref = TRUE]
<1>1. r \in Row
  BY DEF Sound, Consistent
<1>2. /\ p \in Row /\ p.status = r.status /\ p.pay = r.pay /\ p.mode = r.mode /\ p.ref
      /\ p.log = r.log
  BY <1>1 DEF Row
<1> HIDE DEF p
<1>3. Protected(p) /\ Witnessed(p)
  BY <1>2, SameLog DEF Sound, Consistent, Protected, Witnessed
<1>4. Sound(p)
  BY <1>2, <1>3 DEF Sound, Consistent, Settled
<1>5. QED
  BY <1>4 DEF p

\* apply_provider_event: whatever the bank claims, in whatever order, the row
\* it leaves is sound.
LEMMA AppliedSound ==
  ASSUME NEW r, Sound(r), NEW claim \in Claims, NEW fits
  PROVE  Sound(Applied(r, claim, fits)) /\ Verdict(r, claim, fits) \in Verdicts
<1>1. Verdict(r, claim, fits) \in Verdicts
  BY DEF Verdict, Verdicts, HoldReasons
<1>2. CASE Verdict(r, claim, fits) = "applied"
  <2>1. CanMark(r, claim, "bank") /\ claim \in EscrowStatuses
    BY <1>2 DEF Verdict, CanMark, AUTO_APPLIED, EscrowStatuses
  <2>2. Sound(Marked(r, claim))
    BY <2>1, MarkSound
  <2>3. QED
    BY <1>1, <1>2, <2>2 DEF Applied
<1>3. CASE Verdict(r, claim, fits) # "applied"
  BY <1>1, <1>3 DEF Applied
<1>4. QED
  BY <1>2, <1>3

-----------------------------------------------------------------------------
(* The steps                                                                 *)

\* The invariant speaks of each row apart, so a transaction on one deal keeps
\* it as soon as it leaves that deal's row sound.
LEMMA WriteSound ==
  ASSUME IInv, NEW d \in Deals, NEW r, Sound(r), Write(d, r)
  PROVE  IInv'
<1>1. r \in Row
  BY DEF Sound, Consistent
<1>2. rows' \in [Deals -> Row]
  BY <1>1 DEF IInv, TypeOK, Write
<1>3. UNCHANGED <<inbox, queued, polls>>
  BY DEF Write
<1>4. TypeOK'
  BY <1>2, <1>3 DEF IInv, TypeOK
<1>5. ASSUME NEW e \in Deals PROVE Sound(rows'[e])
  <2>1. rows'[e] = IF e = d THEN r ELSE rows[e]
    BY DEF Write, IInv, TypeOK
  <2>2. Sound(rows[e])
    BY DEF IInv
  <2>3. QED
    BY <2>1, <2>2
<1>6. QED
  BY <1>4, <1>5 DEF IInv

LEMMA DealStepSound ==
  ASSUME IInv, NEW d \in Deals, DealStep(d)
  PROVE  IInv'
<1>1. Sound(rows[d])
  BY DEF IInv
<1>2. CASE OpenDeal(d)
  BY <1>2, OpenedSound, WriteSound DEF OpenDeal
<1>3. ASSUME NEW to \in {"negotiation", "contract_pending", "contract_signed"},
             NEW expect, Advance(d, to, expect)
      PROVE  IInv'
  <2>1. Sound(Transitioned(rows[d], to, "system"))
    BY <1>1, <1>3, TransitionSound DEF Advance, Actors
  <2>2. QED
    BY <1>3, <2>1, WriteSound DEF Advance
<1>4. CASE ContractSent(d)
  BY <1>3, <1>4 DEF ContractSent
<1>5. CASE ContractActivated(d)
  BY <1>3, <1>5 DEF ContractActivated
<1>6. CASE ContractClosed(d)
  BY <1>3, <1>6 DEF ContractClosed
<1>7. CASE OpenEscrow(d)
  BY <1>1, <1>7, InvoicedSound, WriteSound DEF OpenEscrow
<1>8. CASE AdapterNamesRef(d)
  BY <1>1, <1>8, NamedSound, WriteSound DEF AdapterNamesRef
<1>9. ASSUME NEW to \in DealStatuses, NEW party \in Parties, PartyMove(d, party, to)
      PROVE  IInv'
  <2>1. Sound(Transitioned(rows[d], to, party))
    BY <1>1, <1>9, TransitionSound DEF PartyMove, Actors
  <2>2. QED
    BY <1>9, <2>1, WriteSound DEF PartyMove
<1>10. ASSUME NEW to \in DealStatuses, ResolveDispute(d, to)
       PROVE  IInv'
  <2>1. Sound(Transitioned(rows[d], to, "staff"))
    BY <1>1, <1>10, TransitionSound DEF ResolveDispute, Actors
  <2>2. QED
    BY <1>10, <2>1, WriteSound DEF ResolveDispute
<1>11. ASSUME NEW to \in EscrowStatuses, OperatorMark(d, to)
       PROVE  IInv'
  BY <1>1, <1>11, MarkSound, WriteSound DEF OperatorMark
<1>12. CASE SellerConfirms(d)
  BY <1>1, <1>12, MarkSound, WriteSound DEF SellerConfirms, CanConfirm, EscrowStatuses
<1>13. QED
  BY <1>2, <1>4, <1>5, <1>6, <1>7, <1>8, <1>9, <1>10, <1>11, <1>12 DEF DealStep

\* Deciding one callback, whoever does it.
LEMMA ApplySound ==
  ASSUME IInv, NEW c \in Callbacks, ApplyCallback(c)
  PROVE  /\ rows' \in [Deals -> Row]
         /\ inbox' \in [Callbacks -> Callback \cup {NoCallback}]
         /\ \A d \in Deals : Sound(rows'[d])
<1> DEFINE event == inbox[c]
           row == rows[event.deal]
           verdict == Verdict(row, event.claim, event.fits)
           left == Applied(row, event.claim, event.fits)
<1>1. CASE event.verdict = "new"
  <2>1. event \in Callback
    BY <1>1 DEF IInv, TypeOK, NoCallback
  <2>2. event.deal \in Deals /\ event.claim \in Claims /\ event.fits \in BOOLEAN
    BY <2>1 DEF Callback
  <2>3. Sound(row)
    BY <2>2 DEF IInv
  <2>4. Sound(left) /\ verdict \in Verdicts
    BY <2>2, <2>3, AppliedSound
  <2>5. /\ inbox' = [inbox EXCEPT ![c] = Decided(event, verdict)]
        /\ rows' = [rows EXCEPT ![event.deal] = left]
    BY <1>1 DEF ApplyCallback
  <2> HIDE DEF event, row, verdict, left
  <2>6. Decided(event, verdict) \in Callback
    BY <2>1, <2>4 DEF Decided, Callback
  <2>7. inbox' \in [Callbacks -> Callback \cup {NoCallback}]
    BY <2>5, <2>6 DEF IInv, TypeOK
  <2>8. left \in Row
    BY <2>4 DEF Sound, Consistent
  <2>9. rows' \in [Deals -> Row]
    BY <2>5, <2>8 DEF IInv, TypeOK
  <2>10. ASSUME NEW d \in Deals PROVE Sound(rows'[d])
    <3>1. rows'[d] = IF d = event.deal THEN left ELSE rows[d]
      BY <2>5 DEF IInv, TypeOK
    <3>2. Sound(rows[d])
      BY DEF IInv
    <3>3. QED
      BY <2>4, <3>1, <3>2
  <2>11. QED
    BY <2>7, <2>9, <2>10
<1>2. CASE event.verdict # "new"
  <2>1. UNCHANGED <<inbox, rows>>
    BY <1>2 DEF ApplyCallback
  <2>2. QED
    BY <2>1 DEF IInv, TypeOK
<1>3. QED
  BY <1>1, <1>2

LEMMA CallbackStepSound ==
  ASSUME IInv, NEW c \in Callbacks, CallbackStep(c)
  PROVE  IInv'
<1>1. CASE RecordCallback(c)
  <2>1. PICK d \in Deals, claim \in Claims, fits \in BOOLEAN :
          inbox' = [inbox EXCEPT ![c] =
                      [deal |-> d, claim |-> claim, fits |-> fits, verdict |-> "new"]]
    BY <1>1 DEF RecordCallback
  <2>2. [deal |-> d, claim |-> claim, fits |-> fits, verdict |-> "new"] \in Callback
    BY DEF Callback
  <2>3. inbox' \in [Callbacks -> Callback \cup {NoCallback}]
    BY <2>1, <2>2 DEF IInv, TypeOK
  <2>4. queued' \subseteq Callbacks /\ UNCHANGED <<rows, polls>>
    BY <1>1 DEF RecordCallback, IInv, TypeOK
  <2>5. QED
    BY <2>3, <2>4 DEF IInv, TypeOK
<1>2. CASE RedeliverCallback(c)
  BY <1>2 DEF RedeliverCallback, IInv, TypeOK
<1>3. CASE ApplierTask(c)
  <2>1. ApplyCallback(c) /\ queued' = queued \ {c} /\ UNCHANGED polls
    BY <1>3 DEF ApplierTask
  <2>2. QED
    BY <2>1, ApplySound DEF IInv, TypeOK
<1>4. CASE ApplierFails(c)
  BY <1>4 DEF ApplierFails, IInv, TypeOK
<1>5. CASE SweepCallback(c)
  <2>1. ApplyCallback(c) /\ UNCHANGED <<queued, polls>>
    BY <1>5 DEF SweepCallback
  <2>2. QED
    BY <2>1, ApplySound DEF IInv, TypeOK
<1>6. QED
  BY <1>1, <1>2, <1>3, <1>4, <1>5 DEF CallbackStep

\* One pass of the poller decides any number of deals in one commit.
LEMMA ReconcileSound ==
  ASSUME IInv, NEW report \in Reports, Reconcile(report)
  PROVE  IInv'
<1>1. ASSUME NEW d \in Deals
      PROVE  /\ Sound(rows'[d])
             /\ polls'[d] \in [EscrowStatuses -> {"absent"} \cup Verdicts]
  <2>1. Sound(rows[d]) /\ polls[d] \in [EscrowStatuses -> {"absent"} \cup Verdicts]
    BY DEF IInv, TypeOK
  <2>2. CASE Undecided(d, report[d])
    <3>1. report[d] \in EscrowStatuses
      BY <2>2 DEF Undecided, Disagrees, Reports
    <3>2. report[d] \in Claims
      BY <3>1 DEF Claims
    <3>3. /\ Sound(Applied(rows[d], report[d], TRUE))
          /\ Verdict(rows[d], report[d], TRUE) \in Verdicts
      BY <2>1, <3>2, AppliedSound
    <3>4. /\ rows'[d] = Applied(rows[d], report[d], TRUE)
          /\ polls'[d] = [polls[d] EXCEPT ![report[d]] = Verdict(rows[d], report[d], TRUE)]
      BY <2>2 DEF Reconcile
    <3>5. QED
      BY <2>1, <3>1, <3>3, <3>4
  <2>3. CASE ~Undecided(d, report[d])
    BY <2>1, <2>3 DEF Reconcile
  <2>4. QED
    BY <2>2, <2>3
<1>2. ASSUME NEW d \in Deals PROVE rows'[d] \in Row
  BY <1>1 DEF Sound, Consistent
<1>3. rows' \in [Deals -> Row]
  <2>1. rows' = [d \in Deals |-> rows'[d]]
    BY DEF Reconcile
  <2>2. QED
    BY <1>2, <2>1
<1>4. polls' \in [Deals -> [EscrowStatuses -> {"absent"} \cup Verdicts]]
  <2>1. polls' = [d \in Deals |-> polls'[d]]
    BY DEF Reconcile
  <2>2. QED
    BY <1>1, <2>1
<1>5. UNCHANGED <<inbox, queued>>
  BY DEF Reconcile
<1>6. QED
  BY <1>1, <1>3, <1>4, <1>5 DEF IInv, TypeOK

-----------------------------------------------------------------------------
(* What holds of the rows                                                    *)

LEMMA InitSound == Init => IInv
<1> SUFFICES ASSUME Init PROVE IInv
  OBVIOUS
<1>1. Sound(NoDeal)
  BY OpenedSound
<1>2. NoDeal \in Row
  BY <1>1 DEF Sound, Consistent
<1>3. \A d \in Deals : Sound(rows[d])
  BY <1>1 DEF Init
<1>4. TypeOK
  BY <1>2 DEF Init, TypeOK
<1>5. QED
  BY <1>3, <1>4 DEF IInv

LEMMA StepSound == IInv /\ [Next]_vars => IInv'
<1> SUFFICES ASSUME IInv, [Next]_vars PROVE IInv'
  OBVIOUS
<1>1. CASE Next
  BY <1>1, DealStepSound, CallbackStepSound, ReconcileSound DEF Next
<1>2. CASE UNCHANGED vars
  BY <1>2 DEF vars, IInv, TypeOK
<1>3. QED
  BY <1>1, <1>2

\* Every row of every reachable state is sound.
THEOREM RowsAreSound == Spec => []IInv
<1>1. QED
  BY InitSound, StepSound, PTL DEF Spec

\* The tables, the inbox and the poll verdicts hold what their columns allow.
THEOREM TypeCorrect == Spec => []TypeOK
<1>1. IInv => TypeOK
  BY DEF IInv
<1>2. QED
  BY <1>1, RowsAreSound, PTL

\* The payment and the deal end together: no sequence of party moves, disputes,
\* operator marks, callbacks and polls completes a deal without its money being
\* paid out, pays out money without completing the deal, or refunds a live deal.
THEOREM MoneyAndDealEndTogether == Spec => []MoneyEndsWithTheDeal
<1>1. IInv => MoneyEndsWithTheDeal
  BY DEF IInv, Sound, Consistent, MoneyEndsWithTheDeal
<1>2. QED
  BY <1>1, RowsAreSound, PTL

\* No deal goes past its contract without a payment that knows its rail.
THEOREM NoDealWithoutInvoice == Spec => []InvoiceBehindTheDeal
<1>1. IInv => InvoiceBehindTheDeal
  BY DEF IInv, Sound, Consistent, InvoiceBehindTheDeal
<1>2. QED
  BY <1>1, RowsAreSound, PTL

\* Off the direct rail a seller never ships unpaid: however the movements, the
\* polls and the party moves interleave, a deal that was never disputed carries
\* funded money from paid_escrow to the confirmed delivery.
THEOREM SellerShipsPaid == Spec => []EscrowProtectsSeller
<1>1. IInv => EscrowProtectsSeller
  BY DEF IInv, Sound, Consistent, Protected, EscrowProtectsSeller
<1>2. QED
  BY <1>1, RowsAreSound, PTL

\* Money leaves escrow only behind a delivery that the buyer confirmed or staff
\* restored, as the deal's last move before completion.
THEOREM BuyerPaysOnDelivery == Spec => []EscrowProtectsBuyer
<1>1. IInv => EscrowProtectsBuyer
  BY DEF IInv, Sound, Consistent, Witnessed, PaidOnDelivery, EscrowProtectsBuyer
<1>2. QED
  BY <1>1, RowsAreSound, PTL

\* Whichever of payment and delivery comes last completes a direct deal.
THEOREM DirectDealsSettle == Spec => []DirectDealSettles
<1>1. IInv => DirectDealSettles
  BY DEF IInv, Sound, Settled, DirectDealSettles
<1>2. QED
  BY <1>1, RowsAreSound, PTL

-----------------------------------------------------------------------------
(* What an applied report leaves on the payment                              *)

\* The movement has happened on this live payment, and perhaps others after it.
Past(r, movement) ==
  /\ r.mode = "live"
  /\ movement \in AUTO_APPLIED
  /\ \/ r.pay = movement
     \/ movement = "funded" /\ r.pay \in {"released", "refunded"}

Keeps(r, q) == \A movement : Past(r, movement) => Past(q, movement)

\* Every applied report is past.
Marks ==
  /\ \A c \in Callbacks :
       inbox[c].verdict = "applied" => Past(rows[inbox[c].deal], inbox[c].claim)
  /\ \A d \in Deals, s \in EscrowStatuses :
       polls[d][s] = "applied" => Past(rows[d], s)

CInv == IInv /\ Marks /\ CallbackAppliedOnce

-----------------------------------------------------------------------------
(* The operators of EscrowLedger keep the marks                              *)

LEMMA SettleKeeps ==
  ASSUME NEW r, Consistent(r)
  PROVE  Keeps(r, SettleDirect(r))
<1>1. CASE r.mode = "direct"
  BY <1>1 DEF Keeps, Past
<1>2. CASE r.mode # "direct"
  BY <1>2 DEF Keeps, SettleDirect
<1>3. QED
  BY <1>1, <1>2

\* A move of the deal does not touch the payment, but for the settlement.
LEMMA TransitionKeeps ==
  ASSUME NEW r, Sound(r), NEW to, NEW actor \in Actors, CanMove(r, to, actor)
  PROVE  Keeps(r, Transitioned(r, to, actor))
<1> DEFINE m == Moved(r, to, actor)
<1>1. r \in Row
  BY DEF Sound, Consistent
<1>2. m.pay = r.pay /\ m.mode = r.mode
  BY <1>1, MoveFacts, MovedType
<1> HIDE DEF m
<1>3. CASE r.mode = "direct"
  BY <1>3 DEF Keeps, Past
<1>4. CASE r.mode # "direct"
  <2>1. Transitioned(r, to, actor) = m
    BY <1>2, <1>4 DEF Transitioned, SettleDirect, m
  <2>2. QED
    BY <1>2, <2>1 DEF Keeps, Past
<1>5. QED
  BY <1>3, <1>4

\* Off the direct rail a movement leaves the payment exactly where it says.
LEMMA MarkedPay ==
  ASSUME NEW r, Sound(r), NEW to \in EscrowStatuses, NEW door,
         CanMark(r, to, door), r.mode # "direct"
  PROVE  Marked(r, to).pay = to /\ Marked(r, to).mode = r.mode
<1> DEFINE paid == [r EXCEPT !.pay = to]
           dragged == Moved(paid, DEAL_EFFECT[to], DragActor(to))
<1>1. r \in Row
  BY DEF Sound, Consistent
<1>2. ~DealStays(r, to)
  BY DEF DealStays
<1>3. CanMove(r, DEAL_EFFECT[to], DragActor(to))
  BY <1>2 DEF CanMark, DealFollows
<1>4. DragActor(to) \in Actors
  BY DEF DragActor, Actors
<1>5. DEAL_EFFECT[to] \in DealStatuses /\ r.status \in DealStatuses
  BY <1>1, <1>3, <1>4, MoveFacts
<1>6. paid \in Row /\ paid.pay = to /\ paid.mode = r.mode /\ paid.status = r.status
  BY <1>1 DEF Row
<1>7. Marked(r, to) = IF to = "funded" THEN SettleDirect(dragged) ELSE dragged
  BY <1>2 DEF Marked
<1> HIDE DEF paid
<1>8. dragged.pay = to /\ dragged.mode = r.mode
  BY <1>4, <1>5, <1>6, MovedType
<1> HIDE DEF dragged
<1>9. QED
  BY <1>7, <1>8 DEF SettleDirect

LEMMA MarkKeeps ==
  ASSUME NEW r, Sound(r), NEW to \in EscrowStatuses, NEW door, CanMark(r, to, door)
  PROVE  Keeps(r, Marked(r, to))
<1>1. CASE r.mode = "direct"
  BY <1>1 DEF Keeps, Past
<1>2. CASE r.mode # "direct"
  <2>1. Marked(r, to).pay = to /\ Marked(r, to).mode = r.mode
    BY <1>2, MarkedPay
  <2>2. <<r.pay, to>> \in ESCROW_TRANSITIONS
    BY DEF CanMark, MovementExists
  <2>3. QED
    BY <2>1, <2>2 DEF Keeps, Past, ESCROW_TRANSITIONS, AUTO_APPLIED
<1>3. QED
  BY <1>1, <1>2

\* Deciding a report keeps the marks; applying it makes one that was not there.
LEMMA AppliedKeeps ==
  ASSUME NEW r, Sound(r), NEW claim \in Claims, NEW fits
  PROVE  /\ Keeps(r, Applied(r, claim, fits))
         /\ Verdict(r, claim, fits) = "applied"
              => ~Past(r, claim) /\ Past(Applied(r, claim, fits), claim)
<1>1. CASE Verdict(r, claim, fits) = "applied"
  <2>1. /\ CanMark(r, claim, "bank") /\ claim \in EscrowStatuses
        /\ claim \in AUTO_APPLIED /\ r.mode = "live"
    BY <1>1 DEF Verdict, CanMark, AUTO_APPLIED, EscrowStatuses
  <2>2. Applied(r, claim, fits) = Marked(r, claim)
    BY <1>1 DEF Applied
  <2>3. Keeps(r, Marked(r, claim))
    BY <2>1, MarkKeeps
  <2>4. Marked(r, claim).pay = claim /\ Marked(r, claim).mode = "live"
    BY <2>1, MarkedPay
  <2>5. ~Past(r, claim)
    BY <2>1 DEF Past, CanMark, MovementExists, ESCROW_TRANSITIONS, AUTO_APPLIED
  <2>6. QED
    BY <2>1, <2>2, <2>3, <2>4, <2>5 DEF Past
<1>2. CASE Verdict(r, claim, fits) # "applied"
  BY <1>2 DEF Applied, Keeps
<1>3. QED
  BY <1>1, <1>2

-----------------------------------------------------------------------------
(* The steps keep the marks                                                  *)

LEMMA WriteKeeps ==
  ASSUME IInv, NEW d \in Deals, NEW r, Keeps(rows[d], r), Write(d, r)
  PROVE  \A e \in Deals : Keeps(rows[e], rows'[e])
<1> TAKE e \in Deals
<1>1. rows'[e] = IF e = d THEN r ELSE rows[e]
  BY DEF Write, IInv, TypeOK
<1>2. QED
  BY <1>1 DEF Keeps

LEMMA DealStepKeeps ==
  ASSUME IInv, NEW d \in Deals, DealStep(d)
  PROVE  \A e \in Deals : Keeps(rows[e], rows'[e])
<1>1. Sound(rows[d])
  BY DEF IInv
<1>2. CASE OpenDeal(d)
  <2>1. rows[d].pay = "none"
    BY <1>1, <1>2 DEF OpenDeal, Sound, Consistent
  <2>2. ASSUME NEW r PROVE Keeps(rows[d], r)
    BY <2>1 DEF Keeps, Past, AUTO_APPLIED
  <2>3. QED
    BY <1>2, <2>2, WriteKeeps DEF OpenDeal
<1>3. ASSUME NEW to, NEW expect, Advance(d, to, expect)
      PROVE  \A e \in Deals : Keeps(rows[e], rows'[e])
  <2>1. Keeps(rows[d], Transitioned(rows[d], to, "system"))
    BY <1>1, <1>3, TransitionKeeps DEF Advance, Actors
  <2>2. QED
    BY <1>3, <2>1, WriteKeeps DEF Advance
<1>4. CASE ContractSent(d) \/ ContractActivated(d) \/ ContractClosed(d)
  BY <1>3, <1>4 DEF ContractSent, ContractActivated, ContractClosed
<1>5. CASE OpenEscrow(d)
  <2>1. rows[d].pay = "none"
    BY <1>5 DEF OpenEscrow, CanInvoice
  <2>2. ASSUME NEW r PROVE Keeps(rows[d], r)
    BY <2>1 DEF Keeps, Past, AUTO_APPLIED
  <2>3. QED
    BY <1>5, <2>2, WriteKeeps DEF OpenEscrow
<1>6. CASE AdapterNamesRef(d)
  <2>1. rows[d] \in Row
    BY <1>1 DEF Sound, Consistent
  <2>2. Keeps(rows[d], [rows[d] EXCEPT !.ref = TRUE])
    BY <2>1 DEF Keeps, Past, Row
  <2>3. QED
    BY <1>6, <2>2, WriteKeeps DEF AdapterNamesRef
<1>7. ASSUME NEW to \in DealStatuses, NEW party \in Parties, PartyMove(d, party, to)
      PROVE  \A e \in Deals : Keeps(rows[e], rows'[e])
  <2>1. Keeps(rows[d], Transitioned(rows[d], to, party))
    BY <1>1, <1>7, TransitionKeeps DEF PartyMove, Actors
  <2>2. QED
    BY <1>7, <2>1, WriteKeeps DEF PartyMove
<1>8. ASSUME NEW to \in DealStatuses, ResolveDispute(d, to)
      PROVE  \A e \in Deals : Keeps(rows[e], rows'[e])
  <2>1. Keeps(rows[d], Transitioned(rows[d], to, "staff"))
    BY <1>1, <1>8, TransitionKeeps DEF ResolveDispute, Actors
  <2>2. QED
    BY <1>8, <2>1, WriteKeeps DEF ResolveDispute
<1>9. ASSUME NEW to \in EscrowStatuses, OperatorMark(d, to)
      PROVE  \A e \in Deals : Keeps(rows[e], rows'[e])
  BY <1>1, <1>9, MarkKeeps, WriteKeeps DEF OperatorMark
<1>10. CASE SellerConfirms(d)
  BY <1>1, <1>10, MarkKeeps, WriteKeeps DEF SellerConfirms, CanConfirm, EscrowStatuses
<1>11. QED
  BY <1>2, <1>4, <1>5, <1>6, <1>7, <1>8, <1>9, <1>10 DEF DealStep

\* A step that decides nothing and keeps the marks keeps the invariant.
LEMMA UndecidedKeeps ==
  ASSUME CInv, \A d \in Deals : Keeps(rows[d], rows'[d]), UNCHANGED polls,
         \A c \in Callbacks :
           inbox'[c] = inbox[c] \/ inbox'[c].verdict = "new"
  PROVE  Marks' /\ CallbackAppliedOnce'
<1>1. ASSUME NEW c \in Callbacks, inbox'[c].verdict = "applied"
      PROVE  inbox'[c] = inbox[c] /\ inbox[c].deal \in Deals
  <2>1. inbox'[c] = inbox[c]
    BY <1>1
  <2>2. inbox[c] \in Callback
    BY <1>1, <2>1 DEF CInv, IInv, TypeOK, NoCallback
  <2>3. QED
    BY <2>1, <2>2 DEF Callback
<1>2. Marks'
  BY <1>1 DEF CInv, Marks, Keeps
<1>3. CallbackAppliedOnce'
  BY <1>1 DEF CInv, CallbackAppliedOnce
<1>4. QED
  BY <1>2, <1>3

\* One callback decided, by the applier task or by the sweeper.
LEMMA DecisionKeeps ==
  ASSUME CInv, NEW c \in Callbacks, ApplyCallback(c), UNCHANGED polls
  PROVE  Marks' /\ CallbackAppliedOnce'
<1> DEFINE event == inbox[c]
           row == rows[event.deal]
           verdict == Verdict(row, event.claim, event.fits)
           left == Applied(row, event.claim, event.fits)
<1>1. CASE event.verdict # "new"
  <2>1. UNCHANGED <<inbox, rows>>
    BY <1>1 DEF ApplyCallback
  <2>2. QED
    BY <2>1, UndecidedKeeps DEF Keeps
<1>2. CASE event.verdict = "new"
  <2>1. event \in Callback
    BY <1>2 DEF CInv, IInv, TypeOK, NoCallback
  <2>2. event.deal \in Deals /\ event.claim \in Claims /\ event.fits \in BOOLEAN
    BY <2>1 DEF Callback
  <2>3. Sound(row)
    BY <2>2 DEF CInv, IInv
  <2>4. /\ Keeps(row, left)
        /\ verdict = "applied" => ~Past(row, event.claim) /\ Past(left, event.claim)
    BY <2>2, <2>3, AppliedKeeps
  <2>5. /\ inbox' = [inbox EXCEPT ![c] = Decided(event, verdict)]
        /\ rows' = [rows EXCEPT ![event.deal] = left]
    BY <1>2 DEF ApplyCallback
  <2> HIDE DEF row, verdict, left
  <2>6. /\ inbox'[c].verdict = verdict
        /\ inbox'[c].deal = event.deal /\ inbox'[c].claim = event.claim
        /\ \A b \in Callbacks : b # c => inbox'[b] = inbox[b]
    BY <2>1, <2>5 DEF Decided, Callback, CInv, IInv, TypeOK
  <2>7. /\ rows'[event.deal] = left
        /\ \A d \in Deals : Keeps(rows[d], rows'[d])
    BY <2>2, <2>4, <2>5 DEF CInv, IInv, TypeOK, Keeps, row
  <2> HIDE DEF event
  <2>8. ASSUME NEW b \in Callbacks, inbox[b].verdict = "applied"
        PROVE  inbox[b].deal \in Deals
    BY <2>8 DEF CInv, IInv, TypeOK, NoCallback, Callback
  <2>9. Marks'
    <3>1. ASSUME NEW b \in Callbacks, inbox'[b].verdict = "applied"
          PROVE  Past(rows'[inbox'[b].deal], inbox'[b].claim)
      <4>1. CASE b = c
        BY <2>4, <2>6, <2>7, <3>1, <4>1
      <4>2. CASE b # c
        BY <2>6, <2>7, <2>8, <3>1, <4>2 DEF CInv, Marks, Keeps
      <4>3. QED
        BY <4>1, <4>2
    <3>2. \A d \in Deals, s \in EscrowStatuses :
            polls'[d][s] = "applied" => Past(rows'[d], s)
      BY <2>7 DEF CInv, Marks, Keeps
    <3>3. QED
      BY <3>1, <3>2 DEF Marks
  <2>10. CallbackAppliedOnce'
    <3>1. ASSUME verdict = "applied", NEW b \in Callbacks, b # c,
                 inbox[b].verdict = "applied",
                 inbox[b].deal = event.deal, inbox[b].claim = event.claim
          PROVE  FALSE
      BY <2>4, <3>1 DEF CInv, Marks, row
    <3>2. ASSUME verdict = "applied"
          PROVE  polls[event.deal][event.claim] # "applied"
      <4>1. event.claim \in EscrowStatuses
        BY <2>4, <3>2 DEF Past, AUTO_APPLIED, EscrowStatuses
      <4>2. QED
        BY <2>2, <2>4, <3>2, <4>1 DEF CInv, Marks, row
    <3>3. QED
      BY <2>6, <3>1, <3>2 DEF CInv, CallbackAppliedOnce
  <2>11. QED
    BY <2>9, <2>10
<1>3. QED
  BY <1>1, <1>2

LEMMA CallbackStepKeeps ==
  ASSUME CInv, NEW c \in Callbacks, CallbackStep(c)
  PROVE  Marks' /\ CallbackAppliedOnce'
<1>1. ASSUME UNCHANGED <<rows, polls>>,
             \A b \in Callbacks : inbox'[b] = inbox[b] \/ inbox'[b].verdict = "new"
      PROVE  Marks' /\ CallbackAppliedOnce'
  BY <1>1, UndecidedKeeps DEF Keeps
<1>2. CASE RecordCallback(c)
  <2>1. PICK d \in Deals, claim \in Claims, fits \in BOOLEAN :
          inbox' = [inbox EXCEPT ![c] =
                      [deal |-> d, claim |-> claim, fits |-> fits, verdict |-> "new"]]
    BY <1>2 DEF RecordCallback
  <2>2. \A b \in Callbacks : inbox'[b] = inbox[b] \/ inbox'[b].verdict = "new"
    BY <2>1 DEF CInv, IInv, TypeOK
  <2>3. QED
    BY <1>1, <1>2, <2>2 DEF RecordCallback
<1>3. CASE RedeliverCallback(c)
  BY <1>1, <1>3 DEF RedeliverCallback
<1>4. CASE ApplierTask(c)
  BY <1>4, DecisionKeeps DEF ApplierTask
<1>5. CASE ApplierFails(c)
  BY <1>1, <1>5 DEF ApplierFails
<1>6. CASE SweepCallback(c)
  BY <1>6, DecisionKeeps DEF SweepCallback
<1>7. QED
  BY <1>2, <1>3, <1>4, <1>5, <1>6 DEF CallbackStep

\* The poller decides a disagreement only where no mark was left.
LEMMA ReconcileKeeps ==
  ASSUME CInv, NEW report \in Reports, Reconcile(report)
  PROVE  Marks' /\ CallbackAppliedOnce'
<1>1. ASSUME NEW d \in Deals
      PROVE  /\ Keeps(rows[d], rows'[d])
             /\ \A s \in EscrowStatuses :
                  polls'[d][s] = "applied" =>
                    \/ polls[d][s] = "applied"
                    \/ ~Past(rows[d], s) /\ Past(rows'[d], s)
  <2>1. Sound(rows[d]) /\ polls[d] \in [EscrowStatuses -> {"absent"} \cup Verdicts]
    BY DEF CInv, IInv, TypeOK
  <2>2. CASE Undecided(d, report[d])
    <3>1. report[d] \in EscrowStatuses
      BY <2>2 DEF Undecided, Disagrees, Reports
    <3>2. report[d] \in Claims
      BY <3>1 DEF Claims
    <3>3. /\ rows'[d] = Applied(rows[d], report[d], TRUE)
          /\ polls'[d] = [polls[d] EXCEPT ![report[d]] = Verdict(rows[d], report[d], TRUE)]
      BY <2>2 DEF Reconcile
    <3>4. /\ Keeps(rows[d], rows'[d])
          /\ Verdict(rows[d], report[d], TRUE) = "applied"
               => ~Past(rows[d], report[d]) /\ Past(rows'[d], report[d])
      <4>1. LET q == Applied(rows[d], report[d], TRUE)
            IN  /\ Keeps(rows[d], q)
                /\ Verdict(rows[d], report[d], TRUE) = "applied"
                     => ~Past(rows[d], report[d]) /\ Past(q, report[d])
        BY <2>1, <3>2, AppliedKeeps
      <4>2. QED
        BY <3>3, <4>1
    <3>5. ASSUME NEW s \in EscrowStatuses, polls'[d][s] = "applied"
          PROVE  \/ polls[d][s] = "applied"
                 \/ ~Past(rows[d], s) /\ Past(rows'[d], s)
      BY <2>1, <3>1, <3>3, <3>4, <3>5
    <3>6. QED
      BY <3>4, <3>5
  <2>3. CASE ~Undecided(d, report[d])
    BY <2>3 DEF Reconcile, Keeps
  <2>4. QED
    BY <2>2, <2>3
<1>2. UNCHANGED inbox
  BY DEF Reconcile
<1>3. ASSUME NEW c \in Callbacks, inbox[c].verdict = "applied"
      PROVE  inbox[c].deal \in Deals
  BY <1>3 DEF CInv, IInv, TypeOK, NoCallback, Callback
<1>4. Marks'
  BY <1>1, <1>2, <1>3 DEF CInv, Marks, Keeps
<1>5. ASSUME NEW c \in Callbacks, inbox[c].verdict = "applied"
      PROVE  polls'[inbox[c].deal][inbox[c].claim] # "applied"
  <2>1. Past(rows[inbox[c].deal], inbox[c].claim)
    BY <1>5 DEF CInv, Marks
  <2>2. inbox[c].claim \in EscrowStatuses
    BY <2>1 DEF Past, AUTO_APPLIED, EscrowStatuses
  <2>3. polls[inbox[c].deal][inbox[c].claim] # "applied"
    BY <1>5 DEF CInv, CallbackAppliedOnce
  <2>4. QED
    BY <1>1, <1>3, <1>5, <2>1, <2>2, <2>3
<1>6. CallbackAppliedOnce'
  BY <1>2, <1>5 DEF CInv, CallbackAppliedOnce
<1>7. QED
  BY <1>4, <1>6

-----------------------------------------------------------------------------
(* What holds of the reports                                                 *)

LEMMA CInitHolds == Init => CInv
<1> SUFFICES ASSUME Init PROVE CInv
  OBVIOUS
<1>1. \A c \in Callbacks : inbox[c].verdict # "applied"
  BY DEF Init, NoCallback
<1>2. \A d \in Deals, s \in EscrowStatuses : polls[d][s] # "applied"
  BY DEF Init
<1>3. QED
  BY <1>1, <1>2, InitSound DEF CInv, Marks, CallbackAppliedOnce

LEMMA CStepHolds == CInv /\ [Next]_vars => CInv'
<1> SUFFICES ASSUME CInv, [Next]_vars PROVE CInv'
  OBVIOUS
<1>1. IInv'
  BY StepSound DEF CInv
<1>2. CASE UNCHANGED vars
  BY <1>1, <1>2, UndecidedKeeps DEF vars, Keeps, CInv
<1>3. ASSUME NEW d \in Deals, DealStep(d) PROVE Marks' /\ CallbackAppliedOnce'
  <2>1. UNCHANGED <<inbox, polls>>
    BY <1>3 DEF DealStep, OpenDeal, ContractSent, ContractActivated, ContractClosed,
                Advance, OpenEscrow, AdapterNamesRef, PartyMove, ResolveDispute,
                OperatorMark, SellerConfirms, Write
  <2>2. \A e \in Deals : Keeps(rows[e], rows'[e])
    BY <1>3, DealStepKeeps DEF CInv
  <2>3. QED
    BY <2>1, <2>2, UndecidedKeeps
<1>4. CASE Next
  BY <1>1, <1>3, <1>4, CallbackStepKeeps, ReconcileKeeps DEF Next, CInv
<1>5. QED
  BY <1>2, <1>4

\* However the bank repeats, delays or reorders its reports, and whether they
\* come by webhook or by poll, one movement is applied for it once.
THEOREM OneReportApplied == Spec => []CallbackAppliedOnce
<1>1. CInv => CallbackAppliedOnce
  BY DEF CInv
<1>2. QED
  BY <1>1, CInitHolds, CStepHolds, PTL DEF Spec

\* What was applied for the bank stays on the payment's record: nobody takes it
\* back, but for the refund an operator marks on funded money.
THEOREM AppliedStaysRecorded == Spec => []AppliedIsRecorded
<1>1. CInv => AppliedIsRecorded
  BY DEF CInv, Marks, Past, AUTO_APPLIED, AppliedIsRecorded
<1>2. QED
  BY <1>1, CInitHolds, CStepHolds, PTL DEF Spec

\* One step of DecidedStaysDecided.
Final ==
  /\ \A c \in Callbacks :
       inbox[c].verdict \in Verdicts => inbox'[c] = inbox[c]
  /\ \A d \in Deals, s \in EscrowStatuses :
       polls[d][s] \in Verdicts => polls'[d][s] = polls[d][s]

LEMMA CallbackStepFinal ==
  ASSUME IInv, NEW c \in Callbacks, CallbackStep(c)
  PROVE  Final
<1>1. UNCHANGED polls
  BY DEF CallbackStep, RecordCallback, RedeliverCallback, ApplierTask, ApplierFails,
         SweepCallback
<1>2. "new" \notin Verdicts /\ "absent" \notin Verdicts
  BY DEF Verdicts, HoldReasons
<1>3. CASE UNCHANGED inbox
  BY <1>1, <1>3 DEF Final
<1>4. CASE RecordCallback(c)
  <2>1. inbox[c].verdict = "absent"
    BY <1>4 DEF RecordCallback, NoCallback
  <2>2. \A b \in Callbacks : b # c => inbox'[b] = inbox[b]
    BY <1>4 DEF RecordCallback, IInv, TypeOK
  <2>3. QED
    BY <1>1, <1>2, <2>1, <2>2 DEF Final
<1>5. CASE ApplyCallback(c) /\ ~UNCHANGED inbox
  <2>1. inbox[c].verdict = "new"
    BY <1>5 DEF ApplyCallback
  <2>2. \A b \in Callbacks : b # c => inbox'[b] = inbox[b]
    BY <1>5, <2>1 DEF ApplyCallback, IInv, TypeOK
  <2>3. QED
    BY <1>1, <1>2, <2>1, <2>2 DEF Final
<1>6. QED
  BY <1>3, <1>4, <1>5 DEF CallbackStep, RedeliverCallback, ApplierTask, ApplierFails,
                          SweepCallback

LEMMA ReconcileFinal ==
  ASSUME IInv, NEW report \in Reports, Reconcile(report)
  PROVE  Final
<1>1. UNCHANGED inbox /\ "absent" \notin Verdicts
  BY DEF Reconcile, Verdicts, HoldReasons
<1>2. ASSUME NEW d \in Deals, NEW s \in EscrowStatuses, polls[d][s] \in Verdicts
      PROVE  polls'[d][s] = polls[d][s]
  <2>1. polls[d] \in [EscrowStatuses -> {"absent"} \cup Verdicts]
    BY DEF IInv, TypeOK
  <2>2. CASE Undecided(d, report[d])
    <3>1. polls[d][report[d]] = "absent"
      BY <2>2 DEF Undecided
    <3>2. s # report[d]
      BY <1>1, <1>2, <3>1
    <3>3. polls'[d] = [polls[d] EXCEPT ![report[d]] = Verdict(rows[d], report[d], TRUE)]
      BY <2>2 DEF Reconcile
    <3>4. QED
      BY <2>1, <3>2, <3>3
  <2>3. CASE ~Undecided(d, report[d])
    BY <2>3 DEF Reconcile
  <2>4. QED
    BY <2>2, <2>3
<1>3. QED
  BY <1>1, <1>2 DEF Final

\* A decided report keeps its verdict: no retry, sweep or poll decides it again.
THEOREM VerdictsAreFinal == Spec => DecidedStaysDecided
<1>1. IInv /\ [Next]_vars => [Final]_vars
  <2> SUFFICES ASSUME IInv, Next PROVE Final
    BY DEF vars
  <2>1. ASSUME NEW d \in Deals, DealStep(d) PROVE UNCHANGED <<inbox, polls>>
    BY <2>1 DEF DealStep, OpenDeal, ContractSent, ContractActivated, ContractClosed,
                Advance, OpenEscrow, AdapterNamesRef, PartyMove, ResolveDispute,
                OperatorMark, SellerConfirms, Write
  <2>2. QED
    BY <2>1, CallbackStepFinal, ReconcileFinal DEF Next, Final
<1>2. QED
  BY <1>1, RowsAreSound, PTL DEF Spec, DecidedStaysDecided, Final

-----------------------------------------------------------------------------
(* The account of a row, as EscrowPromise keeps it                           *)

\* What a transaction on one row may do to its account.
Honours(r, q) ==
  \/ AccountOf(q) = AccountOf(r)
  \/ Promise!Follows(AccountOf(r), AccountOf(q))

LEMMA AccountType ==
  ASSUME NEW r \in Row
  PROVE  AccountOf(r) \in Promise!Account
<1>1. MoneyOf(r) \in {"none", "awaited", "held", "paid", "returned"}
  BY DEF Row, MoneyOf, EscrowStatuses
<1>2. RailOf(r) \in {"none", "direct", "escrow"}
  BY DEF Row, RailOf, Modes
<1>3. FateOf(r) \in {"open", "received", "completed", "cancelled"}
  BY DEF FateOf
<1>4. QED
  BY <1>1, <1>2, <1>3 DEF AccountOf, Promise!Account, Promise!Rails

\* The account reads three fields.
LEMMA SameAccount ==
  ASSUME NEW r, NEW q, MoneyOf(q) = MoneyOf(r), RailOf(q) = RailOf(r), FateOf(q) = FateOf(r)
  PROVE  Honours(r, q)
BY DEF Honours, AccountOf

LEMMA SameFields ==
  ASSUME NEW r, NEW q, q.pay = r.pay, q.mode = r.mode
  PROVE  MoneyOf(q) = MoneyOf(r) /\ RailOf(q) = RailOf(r)
BY DEF MoneyOf, RailOf

\* settle_direct completes a direct deal that is paid and received, or does
\* nothing.
LEMMA SettleFields ==
  ASSUME NEW r \in Row
  PROVE  LET q == SettleDirect(r)
         IN  IF r.mode = "direct" /\ r.pay = "funded" /\ r.status = "delivered"
             THEN q.status = "completed" /\ q.pay = "released" /\ q.mode = "direct"
             ELSE q = r
<1> DEFINE p == [r EXCEPT !.pay = "released"]
<1>1. p \in Row /\ p.status = r.status /\ p.pay = "released" /\ p.mode = r.mode
  BY DEF Row, EscrowStatuses
<1> HIDE DEF p
<1>2. r.status = "delivered" =>
        /\ Moved(p, "completed", "system").status = "completed"
        /\ Moved(p, "completed", "system").pay = "released"
        /\ Moved(p, "completed", "system").mode = r.mode
  BY <1>1, MovedType DEF DealStatuses, Actors
<1>3. QED
  BY <1>2 DEF SettleDirect, p

-----------------------------------------------------------------------------
(* The operators of EscrowLedger honour the promise                          *)

\* What the accounts of a row with these fields is, field by field.
LEMMA Readings ==
  ASSUME NEW r
  PROVE  /\ r.pay = "none" => MoneyOf(r) = "none"
         /\ r.pay = "pending" => MoneyOf(r) = "awaited"
         /\ r.pay = "funded" => MoneyOf(r) = "held"
         /\ r.pay = "released" => MoneyOf(r) = "paid"
         /\ r.pay = "refunded" => MoneyOf(r) = "returned"
         /\ r.mode \in {"none", "direct"} => RailOf(r) = r.mode
         /\ r.mode \in {"stub", "live"} => RailOf(r) = "escrow"
         /\ r.status = "delivered" => FateOf(r) = "received"
         /\ r.status \in {"completed", "cancelled"} => FateOf(r) = r.status
         /\ r.status \notin {"delivered", "completed", "cancelled"} => FateOf(r) = "open"
BY DEF MoneyOf, RailOf, FateOf

LEMMA TransitionHonours ==
  ASSUME NEW r, Sound(r), NEW to, NEW actor \in Actors,
         CanMove(r, to, actor),
         \/ actor \in Parties
         \/ r.status = "disputed"
         \/ to \in {"negotiation", "contract_pending", "contract_signed"}
  PROVE  Honours(r, Transitioned(r, to, actor))
<1> DEFINE m == Moved(r, to, actor)
<1>1. r \in Row /\ Consistent(r)
  BY DEF Sound, Consistent
<1>2. /\ to \in DealStatuses /\ r.status \in DealStatuses
      /\ r.status \notin {"completed", "cancelled"}
      /\ to # "completed"
  <2>1. /\ to \in DealStatuses /\ r.status \in DealStatuses
        /\ r.status \notin {"completed", "cancelled"}
        /\ actor \in Parties \/ r.status = "disputed" => to # "completed"
    BY <1>1, MoveFacts
  <2>2. QED
    BY <2>1
<1>3. /\ r.status = "delivered" => to = "disputed"
      /\ to = "delivered" => r.status \in {"shipped", "disputed"}
      /\ to = "cancelled" => r.status # "delivered"
  BY <1>2 DEF CanMove, VALID_TRANSITIONS, Restorable
<1>4. m \in Row /\ m.status = to /\ m.pay = r.pay /\ m.mode = r.mode
  BY <1>1, <1>2, MovedType
<1> HIDE DEF m
<1>5. MoneyOf(m) = MoneyOf(r) /\ RailOf(m) = RailOf(r)
  BY <1>4, SameFields
<1>6. CASE to = "delivered"
  <2>1. r.pay \in {"pending", "funded"} /\ r.mode \in Modes
    BY <1>1, <1>3, <1>6 DEF Consistent, Row, Unbilled, EscrowStatuses
  <2>2. FateOf(r) = "open" /\ FateOf(m) = "received"
    BY <1>3, <1>4, <1>6, Readings
  <2>3. Transitioned(r, to, actor) = SettleDirect(m)
    BY <1>6 DEF Transitioned, m
  <2>4. CASE r.mode = "direct" /\ r.pay = "funded"
    <3> DEFINE q == SettleDirect(m)
    <3>1. q.status = "completed" /\ q.pay = "released" /\ q.mode = "direct"
      BY <1>4, <1>6, <2>4, SettleFields
    <3> HIDE DEF q
    <3>2. MoneyOf(q) = "paid" /\ RailOf(q) = "direct" /\ FateOf(q) = "completed"
      BY <3>1, Readings
    <3>3. MoneyOf(r) = "held" /\ RailOf(r) = "direct"
      BY <2>4, Readings
    <3>4. Promise!Settled(AccountOf(r), AccountOf(q))
      BY <2>2, <3>2, <3>3 DEF AccountOf, Promise!Settled
    <3>5. QED
      BY <2>3, <3>4 DEF Honours, Promise!Follows, q
  <2>5. CASE ~(r.mode = "direct" /\ r.pay = "funded")
    <3>1. SettleDirect(m) = m
      BY <1>4, <2>5, SettleFields
    <3>2. MoneyOf(r) \in {"awaited", "held"} /\ ~(RailOf(r) = "direct" /\ MoneyOf(r) = "held")
      BY <2>1, <2>5, Readings DEF Modes
    <3>3. Promise!Received(AccountOf(r), AccountOf(m))
      BY <1>5, <2>2, <3>2 DEF AccountOf, Promise!Received
    <3>4. QED
      BY <2>3, <3>1, <3>3 DEF Honours, Promise!Follows
  <2>6. QED
    BY <2>4, <2>5
<1>7. CASE to # "delivered"
  <2>1. Transitioned(r, to, actor) = m
    BY <1>7 DEF Transitioned, m
  <2>2. CASE to = "cancelled"
    <3>1. FateOf(r) = "open" /\ FateOf(m) = "cancelled"
      BY <1>2, <1>3, <1>4, <2>2, Readings
    <3>2. Promise!Cancelled(AccountOf(r), AccountOf(m))
      BY <1>5, <3>1 DEF AccountOf, Promise!Cancelled
    <3>3. QED
      BY <2>1, <3>2 DEF Honours, Promise!Follows
  <2>3. CASE to # "cancelled" /\ r.status = "delivered"
    <3>1. FateOf(r) = "received" /\ FateOf(m) = "open"
      BY <1>3, <1>4, <2>3, Readings
    <3>2. Promise!Disputed(AccountOf(r), AccountOf(m))
      BY <1>5, <3>1 DEF AccountOf, Promise!Disputed
    <3>3. QED
      BY <2>1, <3>2 DEF Honours, Promise!Follows
  <2>4. CASE to # "cancelled" /\ r.status # "delivered"
    <3>1. FateOf(r) = "open" /\ FateOf(m) = "open"
      BY <1>2, <1>4, <1>7, <2>4, Readings
    <3>2. QED
      BY <1>5, <2>1, <3>1, SameAccount
  <2>5. QED
    BY <2>2, <2>3, <2>4
<1>8. QED
  BY <1>6, <1>7

LEMMA MarkHonours ==
  ASSUME NEW r, Sound(r), NEW to \in EscrowStatuses, NEW door,
         CanMark(r, to, door)
  PROVE  Honours(r, Marked(r, to))
<1> DEFINE paid == [r EXCEPT !.pay = to]
           effect == DEAL_EFFECT[to]
           m == Moved(paid, effect, DragActor(to))
<1>1. r \in Row /\ Consistent(r) /\ Settled(r)
  BY DEF Sound, Consistent
<1>2. /\ to = "funded" /\ r.pay = "pending" /\ effect = "paid_escrow"
      \/ /\ to = "released" /\ r.pay = "funded" /\ effect = "completed"
         /\ r.status = "delivered"
      \/ /\ to = "refunded" /\ r.pay \in {"pending", "funded"} /\ effect = "cancelled"
  BY DEF CanMark, MovementExists, ReleaseIsDue, ESCROW_TRANSITIONS, DEAL_EFFECT
<1>3. /\ paid \in Row /\ paid.pay = to /\ paid.status = r.status /\ paid.mode = r.mode
  BY <1>1 DEF Row
<1>4. r.mode \in Modes /\ r.status # "completed" /\ RailOf(r) = RailOf(paid)
  BY <1>1, <1>2, <1>3 DEF Consistent, Row, RailOf
<1>5. CASE DealStays(r, to)
  <2>1. to = "funded" /\ r.mode = "direct" /\ r.pay = "pending"
    BY <1>2, <1>5 DEF DealStays
  <2>2. Marked(r, to) = SettleDirect(paid)
    BY <1>5, <2>1 DEF Marked
  <2>3. MoneyOf(r) = "awaited" /\ RailOf(r) = "direct"
    BY <2>1, Readings
  <2>4. CASE r.status = "delivered"
    <3> DEFINE q == SettleDirect(paid)
    <3> HIDE DEF paid
    <3>1. q.status = "completed" /\ q.pay = "released" /\ q.mode = "direct"
      BY <1>3, <2>1, <2>4, SettleFields
    <3> HIDE DEF q
    <3>2. MoneyOf(q) = "paid" /\ RailOf(q) = "direct" /\ FateOf(q) = "completed"
      BY <3>1, Readings
    <3>3. FateOf(r) = "received"
      BY <2>4, Readings
    <3>4. Promise!Settled(AccountOf(r), AccountOf(q))
      BY <2>3, <3>2, <3>3 DEF AccountOf, Promise!Settled
    <3>5. QED
      BY <2>2, <3>4 DEF Honours, Promise!Follows, q
  <2>5. CASE r.status # "delivered"
    <3> HIDE DEF paid
    <3>1. SettleDirect(paid) = paid
      BY <1>3, <2>5, SettleFields
    <3>2. MoneyOf(paid) = "held" /\ FateOf(paid) = FateOf(r)
      BY <1>3, <2>1, Readings DEF FateOf
    <3>3. FateOf(r) \in {"open", "cancelled"}
      BY <1>4, <2>5 DEF FateOf
    <3>4. Promise!Funded(AccountOf(r), AccountOf(paid))
      BY <1>4, <2>3, <3>2, <3>3 DEF AccountOf, Promise!Funded
    <3>5. QED
      BY <2>2, <3>1, <3>4 DEF Honours, Promise!Follows
  <2>6. QED
    BY <2>4, <2>5
<1>6. CASE ~DealStays(r, to)
  <2>1. CanMove(r, effect, DragActor(to))
    BY <1>6 DEF CanMark, DealFollows
  <2>2. DragActor(to) \in Actors /\ effect \in DealStatuses
    BY <1>2 DEF DragActor, Actors, DealStatuses
  <2>3. r.status \in DealStatuses /\ r.status \notin {"completed", "cancelled"}
    BY <1>1, <2>1, <2>2, MoveFacts
  <2>4. to = "funded" \/ to = "refunded" => r.status # "delivered"
    BY <1>2, <2>1 DEF CanMove, VALID_TRANSITIONS, Restorable
  <2> HIDE DEF effect, paid
  <2>5. m \in Row /\ m.status = effect /\ m.pay = to /\ m.mode = r.mode
    BY <1>3, <2>2, <2>3, MovedType
  <2>6. Marked(r, to) = IF to = "funded" THEN SettleDirect(m) ELSE m
    BY <1>6 DEF Marked, paid, effect
  <2> HIDE DEF m
  <2>7. Marked(r, to) = m
    BY <1>2, <2>5, <2>6, SettleFields
  <2>8. RailOf(m) = RailOf(r)
    BY <2>5 DEF RailOf
  <2>9. CASE to = "funded"
    <3>1. MoneyOf(r) = "awaited" /\ MoneyOf(m) = "held" /\ FateOf(r) = "open" /\ FateOf(m) = "open"
      BY <1>2, <2>3, <2>4, <2>5, <2>9, Readings
    <3>2. Promise!Funded(AccountOf(r), AccountOf(m))
      BY <2>8, <3>1 DEF AccountOf, Promise!Funded
    <3>3. QED
      BY <2>7, <3>2 DEF Honours, Promise!Follows
  <2>10. CASE to = "released"
    <3>1. r.mode \in {"stub", "live"}
      BY <1>1, <1>2, <1>4, <2>10 DEF Settled, Modes
    <3>2. /\ MoneyOf(r) = "held" /\ MoneyOf(m) = "paid" /\ RailOf(r) = "escrow"
          /\ FateOf(r) = "received" /\ FateOf(m) = "completed"
      BY <1>2, <2>5, <2>10, <3>1, Readings
    <3>3. Promise!PaidOut(AccountOf(r), AccountOf(m))
      BY <2>8, <3>2 DEF AccountOf, Promise!PaidOut
    <3>4. QED
      BY <2>7, <3>3 DEF Honours, Promise!Follows
  <2>11. CASE to = "refunded"
    <3>1. /\ MoneyOf(r) \in {"awaited", "held"} /\ MoneyOf(m) = "returned"
          /\ FateOf(r) = "open" /\ FateOf(m) = "cancelled"
      BY <1>2, <2>3, <2>4, <2>5, <2>11, Readings
    <3>2. Promise!Returned(AccountOf(r), AccountOf(m))
      BY <2>8, <3>1 DEF AccountOf, Promise!Returned
    <3>3. QED
      BY <2>7, <3>2 DEF Honours, Promise!Follows
  <2>12. QED
    BY <1>2, <2>9, <2>10, <2>11
<1>7. QED
  BY <1>5, <1>6

LEMMA InvoiceHonours ==
  ASSUME NEW r, Sound(r), CanInvoice(r), r.status = "contract_signed", NEW mode \in Modes
  PROVE  Honours(r, Invoiced(r, mode))
<1> DEFINE q == [r EXCEPT !.pay = "pending", !.mode = mode]
           m == Moved(q, "payment_pending", "system")
<1>1. q \in Row /\ q.status = r.status /\ q.pay = "pending" /\ q.mode = mode
  BY DEF Sound, Consistent, Row, EscrowStatuses
<1>2. Invoiced(r, mode) = m
  BY DEF Invoiced
<1> HIDE DEF q
<1>3. m.status = "payment_pending" /\ m.pay = "pending" /\ m.mode = mode
  BY <1>1, MovedType DEF DealStatuses, Actors
<1> HIDE DEF m
<1>4. /\ MoneyOf(m) = "awaited" /\ FateOf(m) = "open" /\ RailOf(m) \in {"direct", "escrow"}
  BY <1>3, Readings DEF Modes
<1>5. MoneyOf(r) = "none" /\ FateOf(r) = "open" /\ RailOf(r) = "none"
  BY Readings DEF CanInvoice, Sound, Consistent
<1>6. Promise!Billed(AccountOf(r), AccountOf(m))
  BY <1>4, <1>5 DEF AccountOf, Promise!Billed, Promise!Rails
<1>7. QED
  BY <1>2, <1>6 DEF Honours, Promise!Follows

LEMMA ApplyHonours ==
  ASSUME NEW r, Sound(r), NEW claim, NEW fits
  PROVE  Honours(r, Applied(r, claim, fits))
<1>1. CASE Verdict(r, claim, fits) = "applied"
  <2>1. CanMark(r, claim, "bank") /\ claim \in EscrowStatuses
    BY <1>1 DEF Verdict, CanMark, AUTO_APPLIED, EscrowStatuses
  <2>2. QED
    BY <1>1, <2>1, MarkHonours DEF Applied
<1>2. CASE Verdict(r, claim, fits) # "applied"
  BY <1>2 DEF Applied, Honours
<1>3. QED
  BY <1>1, <1>2

-----------------------------------------------------------------------------
(* The steps honour the promise                                              *)

LEMMA WriteHonours ==
  ASSUME IInv, NEW d \in Deals, NEW r, Honours(rows[d], r), Write(d, r), NEW e \in Deals
  PROVE  Honours(rows[e], rows'[e])
BY DEF IInv, TypeOK, Write, Honours

LEMMA DealStepHonours ==
  ASSUME IInv, NEW d \in Deals, DealStep(d), NEW e \in Deals
  PROVE  Honours(rows[e], rows'[e])
<1>1. Sound(rows[d]) /\ rows[d] \in Row
  BY DEF IInv, TypeOK
<1>2. CASE OpenDeal(d)
  <2>1. PICK priced \in BOOLEAN : Write(d, Opened(priced))
    BY <1>2 DEF OpenDeal
  <2>2. rows[d].status = "none" /\ rows[d].pay = "none" /\ rows[d].mode = "none"
    BY <1>1, <1>2 DEF OpenDeal, Sound, Consistent
  <2>3. /\ Opened(priced).status = "negotiation" /\ Opened(priced).pay = "none"
        /\ Opened(priced).mode = "none"
    BY DEF Opened
  <2>4. Honours(rows[d], Opened(priced))
    BY <2>2, <2>3, Readings, SameAccount
  <2>5. QED
    BY <2>1, <2>4, WriteHonours
<1>3. ASSUME NEW to \in {"negotiation", "contract_pending", "contract_signed"},
             NEW expect, Advance(d, to, expect)
      PROVE  Honours(rows[e], rows'[e])
  <2>1. Honours(rows[d], Transitioned(rows[d], to, "system"))
    BY <1>1, <1>3, TransitionHonours DEF Advance, Actors
  <2>2. QED
    BY <1>3, <2>1, WriteHonours DEF Advance
<1>4. CASE ContractSent(d) \/ ContractActivated(d) \/ ContractClosed(d)
  BY <1>3, <1>4 DEF ContractSent, ContractActivated, ContractClosed
<1>5. CASE OpenEscrow(d)
  BY <1>1, <1>5, InvoiceHonours, WriteHonours DEF OpenEscrow
<1>6. CASE AdapterNamesRef(d)
  <2> DEFINE q == [rows[d] EXCEPT !.ref = TRUE]
  <2>1. q.status = rows[d].status /\ q.pay = rows[d].pay /\ q.mode = rows[d].mode
    BY <1>1 DEF Row
  <2> HIDE DEF q
  <2>2. Honours(rows[d], q)
    BY <2>1, SameFields, SameAccount DEF FateOf
  <2>3. QED
    BY <1>6, <2>2, WriteHonours DEF AdapterNamesRef, q
<1>7. ASSUME NEW to \in DealStatuses, NEW party \in Parties, PartyMove(d, party, to)
      PROVE  Honours(rows[e], rows'[e])
  <2>1. Honours(rows[d], Transitioned(rows[d], to, party))
    BY <1>1, <1>7, TransitionHonours DEF PartyMove, Actors
  <2>2. QED
    BY <1>7, <2>1, WriteHonours DEF PartyMove
<1>8. ASSUME NEW to \in DealStatuses, ResolveDispute(d, to)
      PROVE  Honours(rows[e], rows'[e])
  <2>1. Honours(rows[d], Transitioned(rows[d], to, "staff"))
    BY <1>1, <1>8, TransitionHonours DEF ResolveDispute, Actors
  <2>2. QED
    BY <1>8, <2>1, WriteHonours DEF ResolveDispute
<1>9. ASSUME NEW to \in EscrowStatuses, OperatorMark(d, to)
      PROVE  Honours(rows[e], rows'[e])
  BY <1>1, <1>9, MarkHonours, WriteHonours DEF OperatorMark
<1>10. CASE SellerConfirms(d)
  BY <1>1, <1>10, MarkHonours, WriteHonours DEF SellerConfirms, CanConfirm, EscrowStatuses
<1>11. QED
  BY <1>2, <1>4, <1>5, <1>6, <1>7, <1>8, <1>9, <1>10 DEF DealStep

LEMMA ApplyCallbackHonours ==
  ASSUME IInv, NEW c \in Callbacks, ApplyCallback(c), NEW e \in Deals
  PROVE  Honours(rows[e], rows'[e])
<1> DEFINE event == inbox[c]
           left == Applied(rows[event.deal], event.claim, event.fits)
<1>1. CASE event.verdict = "new"
  <2>1. event \in Callback
    BY <1>1 DEF IInv, TypeOK, NoCallback
  <2>2. event.deal \in Deals
    BY <2>1 DEF Callback
  <2>3. Honours(rows[event.deal], left)
    BY <2>2, ApplyHonours DEF IInv
  <2>4. rows' = [rows EXCEPT ![event.deal] = left]
    BY <1>1 DEF ApplyCallback
  <2> HIDE DEF left, event
  <2>5. QED
    BY <2>2, <2>3, <2>4 DEF IInv, TypeOK, Honours
<1>2. CASE event.verdict # "new"
  BY <1>2 DEF ApplyCallback, Honours
<1>3. QED
  BY <1>1, <1>2

LEMMA CallbackStepHonours ==
  ASSUME IInv, NEW c \in Callbacks, CallbackStep(c), NEW e \in Deals
  PROVE  Honours(rows[e], rows'[e])
<1>1. CASE RecordCallback(c) \/ RedeliverCallback(c) \/ ApplierFails(c)
  BY <1>1 DEF RecordCallback, RedeliverCallback, ApplierFails, Honours
<1>2. CASE ApplierTask(c) \/ SweepCallback(c)
  BY <1>2, ApplyCallbackHonours DEF ApplierTask, SweepCallback
<1>3. QED
  BY <1>1, <1>2 DEF CallbackStep

LEMMA ReconcileHonours ==
  ASSUME IInv, NEW report \in Reports, Reconcile(report), NEW e \in Deals
  PROVE  Honours(rows[e], rows'[e])
<1>1. rows'[e] \in {Applied(rows[e], report[e], TRUE), rows[e]}
  BY DEF Reconcile
<1>2. QED
  BY <1>1, ApplyHonours DEF IInv, Honours

LEMMA StepHonours == IInv /\ [Next]_vars => [Promise!Next]_(Promise!vars)
<1> SUFFICES ASSUME IInv, [Next]_vars PROVE [Promise!Next]_(Promise!vars)
  OBVIOUS
<1>1. CASE Next
  <2>1. ASSUME NEW e \in Deals PROVE Honours(rows[e], rows'[e])
    BY <1>1, DealStepHonours, CallbackStepHonours, ReconcileHonours DEF Next
  <2>2. \A e \in Deals : rows'[e] \in Row
    BY StepSound DEF IInv, TypeOK
  <2>3. [d \in Deals |-> AccountOf(rows'[d])] \in [Deals -> Promise!Account]
    BY <2>2, AccountType
  <2>4. Promise!Next
    BY <2>1, <2>3 DEF Promise!Next, Honours
  <2>5. QED
    BY <2>4
<1>2. CASE UNCHANGED vars
  BY <1>2 DEF vars, Promise!vars
<1>3. QED
  BY <1>1, <1>2

LEMMA InitHonours == Init => Promise!Init
<1> SUFFICES ASSUME Init PROVE Promise!Init
  OBVIOUS
<1>1. AccountOf(NoDeal) = Promise!Opening
  <2>1. NoDeal.status = "none" /\ NoDeal.pay = "none" /\ NoDeal.mode = "none"
    BY DEF NoDeal
  <2>2. MoneyOf(NoDeal) = "none" /\ RailOf(NoDeal) = "none" /\ FateOf(NoDeal) = "open"
    BY <2>1, Readings
  <2>3. QED
    BY <2>2 DEF AccountOf, Promise!Opening
<1>2. QED
  BY <1>1 DEF Init, Promise!Init

\* Whoever moves the money and in whatever order, with any number of deals and
\* callbacks, the core does what the escrow promises: money is held once, and
\* leaves once, for received goods or back with the deal.
THEOREM PromiseIsKept == Spec => KeepsThePromise
<1>1. QED
  BY InitHonours, StepHonours, RowsAreSound, PTL DEF Spec, KeepsThePromise, Promise!Spec

=============================================================================
