---------------------------- MODULE EscrowPromise ----------------------------
(****************************************************************************)
(* What the escrow promises, without saying how: one account per deal, whose *)
(* money is held for the goods and leaves once, to the seller when they are  *)
(* received or back to the buyer with the deal.  DealEscrow implements it.   *)
(*                                                                           *)
(* There is no bank here, no callback, poll or operator, no history and no   *)
(* status but whether the goods were received and whether the deal is over.  *)
(****************************************************************************)

CONSTANT Deals

VARIABLE account   \* [Deals -> Account]

vars == account

\* On the `direct` rail the money goes to the seller and is only recorded; on
\* `escrow` a third party holds it.
Rails == {"direct", "escrow"}

Account ==
  [ money : {"none", "awaited", "held", "paid", "returned"},
    rail  : Rails \cup {"none"},
    fate  : {"open", "received", "completed", "cancelled"} ]

Opening == [money |-> "none", rail |-> "none", fate |-> "open"]

-----------------------------------------------------------------------------
(* What may become of an account `a`                                         *)

\* The invoice names the rail for good.
Billed(a, b) ==
  /\ a.money = "none" /\ a.fate = "open"
  /\ \E rail \in Rails : b = [money |-> "awaited", rail |-> rail, fate |-> "open"]

\* Money arrives while the deal is open; on the direct rail it may arrive for a
\* deal that was cancelled.
Funded(a, b) ==
  /\ a.money = "awaited"
  /\ \/ a.fate = "open"
     \/ a.fate = "cancelled" /\ a.rail = "direct"
  /\ b = [a EXCEPT !.money = "held"]

\* The goods are received, or staff say so; the receipt can be disputed.
Received(a, b) ==
  /\ a.fate = "open" /\ a.money \in {"awaited", "held"}
  /\ ~(a.rail = "direct" /\ a.money = "held")
  /\ b = [a EXCEPT !.fate = "received"]

Disputed(a, b) ==
  /\ a.fate = "received"
  /\ b = [a EXCEPT !.fate = "open"]

\* Money leaves the escrow for received goods, and the deal is complete.
PaidOut(a, b) ==
  /\ a.rail = "escrow" /\ a.money = "held" /\ a.fate = "received"
  /\ b = [money |-> "paid", rail |-> a.rail, fate |-> "completed"]

\* On the direct rail payment and receipt settle the deal, whichever is later.
Settled(a, b) ==
  /\ a.rail = "direct"
  /\ \/ a.money = "awaited" /\ a.fate = "received"
     \/ a.money = "held" /\ a.fate = "open"
  /\ b = [money |-> "paid", rail |-> a.rail, fate |-> "completed"]

\* Money, or the claim to it, is given up together with the deal.
Returned(a, b) ==
  /\ a.money \in {"awaited", "held"} /\ a.fate = "open"
  /\ b = [money |-> "returned", rail |-> a.rail, fate |-> "cancelled"]

\* A deal may be cancelled with its money where it is.
Cancelled(a, b) ==
  /\ a.fate = "open"
  /\ b = [a EXCEPT !.fate = "cancelled"]

Follows(a, b) ==
  \/ Billed(a, b)
  \/ Funded(a, b)
  \/ Received(a, b)
  \/ Disputed(a, b)
  \/ PaidOut(a, b)
  \/ Settled(a, b)
  \/ Returned(a, b)
  \/ Cancelled(a, b)

-----------------------------------------------------------------------------

Init == account = [d \in Deals |-> Opening]

\* Accounts are independent, and one step may move several: a pass of the
\* poller commits once.
Next ==
  /\ account' \in [Deals -> Account]
  /\ \A d \in Deals : account'[d] = account[d] \/ Follows(account[d], account'[d])

Spec == Init /\ [][Next]_vars

=============================================================================
