------------------------------ MODULE DealRules ------------------------------
(****************************************************************************)
(* The tables of the deal machine and of the escrow machine, as data.        *)
(*                                                                           *)
(* app/domains/deals/service.py keeps two separate concerns in two tables:   *)
(* WHICH transitions exist (VALID_TRANSITIONS) and WHO may drive one         *)
(* (_ACTOR_RULES, through allowed_actors).  app/domains/deals/escrow.py has  *)
(* a third, shorter one for the money, and the deal status each movement of  *)
(* money asserts (_DEAL_EFFECT).  Nothing here has state: the modules that   *)
(* do are EscrowLedger, DealEscrow and DealSessions.                         *)
(****************************************************************************)

\* DealStatus, in its declaration order (the happy path, then the exits).
DealStatuses ==
  {"negotiation", "contract_pending", "contract_signed", "payment_pending",
   "paid_escrow", "shipped", "delivered", "completed", "disputed", "cancelled"}

\* DealActorKind: `system` is reserved for moves that follow from an event.
Parties == {"buyer", "seller"}
Actors  == Parties \cup {"staff", "system"}

\* EscrowStatus: where the money is.
EscrowStatuses == {"pending", "funded", "released", "refunded"}

\* The rail a payment was opened on, frozen on the row.
Modes == {"direct", "stub", "live"}

\* Statuses a dispute can be entered from, hence restored to by staff.
Restorable == {"payment_pending", "paid_escrow", "shipped", "delivered"}

\* Which transitions exist, as pairs <<from, to>>; `completed` and `cancelled`
\* are the statuses no pair leaves.
VALID_TRANSITIONS ==
  {<<"negotiation", "contract_pending">>,
   <<"contract_pending", "contract_signed">>, <<"contract_pending", "negotiation">>,
   <<"contract_signed", "payment_pending">>,
   <<"payment_pending", "paid_escrow">>, <<"payment_pending", "shipped">>,
   <<"paid_escrow", "shipped">>,
   <<"shipped", "delivered">>,
   <<"delivered", "completed">>}
  \cup ({"negotiation", "contract_pending", "contract_signed", "payment_pending", "disputed"}
          \X {"cancelled"})
  \cup (Restorable \X {"disputed"})
  \cup ({"disputed"} \X Restorable)

\* Who may drive a deal INTO a status, outside dispute resolution.
ACTOR_RULES ==
  ({"negotiation", "contract_pending", "contract_signed", "payment_pending",
    "paid_escrow", "completed"} \X {"system"})
  \cup {<<"shipped", "seller">>, <<"delivered", "buyer">>}
  \cup ({"cancelled", "disputed"} \X {"buyer", "seller", "staff"})

\* Moves that exist on the direct rail only: goods may leave before the money.
DIRECT_ONLY == {<<"payment_pending", "shipped">>}

\* allowed_actors: leaving a dispute is staff-only whatever the destination.
MayDrive(actor, frm, to) ==
  IF frm = "disputed" THEN actor = "staff" ELSE <<to, actor>> \in ACTOR_RULES

-----------------------------------------------------------------------------

\* The money's own machine; `released` and `refunded` are finished operations.
ESCROW_TRANSITIONS ==
  {<<"pending", "funded">>, <<"pending", "refunded">>,
   <<"funded", "released">>, <<"funded", "refunded">>}

\* The deal status each movement of money asserts.
DEAL_EFFECT ==
  [funded |-> "paid_escrow", released |-> "completed", refunded |-> "cancelled"]

\* Movements a bank callback may apply with nobody watching.
AUTO_APPLIED == {"funded", "released"}

\* Deal statuses in which the seller may say that the money arrived.
DIRECT_PAYABLE == {"payment_pending", "shipped", "delivered"}

=============================================================================
