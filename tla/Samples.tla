-------------------------------- MODULE Samples --------------------------------
(****************************************************************************)
(* A buyer asks the seller of an offer for a sample, signs the commitment    *)
(* letter the offer may demand, and may open a deal when the sample has      *)
(* arrived: app/domains/lab_orders (samples.py, letters.py) and the doors    *)
(* open_deal_from_sample and open_deal_from_inquiry of                       *)
(* app/domains/deals/service.py, for one buyer and one offer.                *)
(*                                                                           *)
(* No handler locks a row: each loads the request, checks the copy and       *)
(* commits later.                                                            *)
(****************************************************************************)
EXTENDS Naturals, FiniteSets

CONSTANTS
  Requests,   \* ids of sample_requests rows
  Sessions,   \* concurrent database sessions
  Worlds,     \* the circumstances to consider, see World
  MaxRenders  \* bound: renders of one letter

\* _ACTOR_RULES: the moves of the two parties.
SellerMoves == {"accepted", "declined", "sent"}
BuyerMoves == {"received", "rejected_by_buyer"}

Doors ==
  SellerMoves \cup BuyerMoves
  \cup {"request", "render", "sign", "deal_from_sample", "deal_from_inquiry"}

\* letter   the offer demands a commitment letter (sample_letter_required)
\* overlap  the pairs of doors whose sessions may overlap
World == [letter : BOOLEAN, overlap : SUBSET {{a, b} : a, b \in Doors}]

VARIABLES
  world,      \* the circumstances of this behaviour
  sample,     \* [Requests -> sample request]
  challenge,  \* [Requests -> the render the Redis challenge is bound to, or 0]
  live,       \* live deals of this buyer on this offer
  sess        \* [Sessions -> session]

vars == <<world, sample, challenge, live, sess>>

Statuses ==
  {"none", "pending_letter", "requested", "accepted", "declined", "sent", "received",
   "rejected_by_buyer"}

\* _TRANSITIONS, but for the one a signature makes.
Transitions ==
  {<<"requested", "accepted">>, <<"requested", "declined">>, <<"accepted", "sent">>,
   <<"sent", "received">>, <<"sent", "rejected_by_buyer">>}

\* letter  the render letter_sha256 is the hash of, 0 before the first
\* signed  the render the signature covers, 0 while letter_signed_at is null
\* deal    deal_id is set
Sample ==
  [status : Statuses, letter : 0..MaxRenders, signed : 0..MaxRenders, deal : BOOLEAN]

NoSample == [status |-> "none", letter |-> 0, signed |-> 0, deal |-> FALSE]

\* seen   the request as the session loaded it
\* bound  the render its signature covers: what the challenge it consumed is about
Session ==
  [door : Doors, r : Requests, seen : Sample, bound : 0..MaxRenders]

Idle == [door |-> "none"]

TypeOK ==
  /\ world \in Worlds
  /\ sample \in [Requests -> Sample]
  /\ challenge \in [Requests -> 0..MaxRenders]
  /\ live \in Nat
  /\ sess \in [Sessions -> Session \cup {Idle}]

Init ==
  /\ world \in Worlds
  /\ sample = [r \in Requests |-> NoSample]
  /\ challenge = [r \in Requests |-> 0]
  /\ live = 0
  /\ sess = [s \in Sessions |-> Idle]

-----------------------------------------------------------------------------
(* A session begins                                                          *)

MayOverlap(door) ==
  \A s \in Sessions : sess[s] # Idle => {door, sess[s].door} \in world.overlap

Begin(s, door, r) ==
  /\ sess[s] = Idle
  /\ MayOverlap(door)
  /\ sess' = [sess EXCEPT ![s] = [door |-> door, r |-> r, seen |-> sample[r], bound |-> 0]]
  /\ UNCHANGED <<world, sample, challenge, live>>

BeginRequest(s, r) ==
  /\ sample[r] = NoSample
  /\ \A t \in Sessions : sess[t] # Idle => sess[t].r # r
  /\ Begin(s, "request", r)

\* render_letter: LetterNotRequired, LetterAlreadySigned
BeginRender(s, r) ==
  /\ world.letter
  /\ sample[r] # NoSample
  /\ sample[r].signed = 0
  /\ sample[r].letter < MaxRenders
  /\ Begin(s, "render", r)

\* letters.sign: LetterAlreadySigned
BeginSign(s, r) ==
  /\ sample[r].letter # 0
  /\ sample[r].signed = 0
  /\ Begin(s, "sign", r)

\* samples.transition, as the party whose move it is
BeginMove(s, r, to) ==
  /\ <<sample[r].status, to>> \in Transitions
  /\ Begin(s, to, r)

\* DealAlreadyOpen: asked of the table, without a lock or an index behind it.
NoLiveDeal == live = 0

BeginDealFromSample(s, r) ==
  /\ sample[r].status = "received"
  /\ NoLiveDeal
  /\ Begin(s, "deal_from_sample", r)

BeginDealFromInquiry(s, r) ==
  /\ NoLiveDeal
  /\ Begin(s, "deal_from_inquiry", r)

-----------------------------------------------------------------------------
(* The letter's challenge                                                    *)

\* issue_challenge
IssueChallenge(r) ==
  /\ sample[r].signed = 0
  /\ sample[r].letter # 0
  /\ challenge' = [challenge EXCEPT ![r] = sample[r].letter]
  /\ UNCHANGED <<world, sample, live, sess>>

\* Fault: any challenge of this request will do.
Fits_Any(bound, seen) == bound # 0

\* letters.sign compares the challenge with the hash on the copy.
Fits(bound, seen) == bound # 0 /\ bound = seen.letter

\* GETDEL and the comparison; then the signer's identity, which may not match.
TakeChallenge(s) ==
  LET z == sess[s]
  IN  /\ z.door = "sign" /\ z.bound = 0
      /\ challenge' = [challenge EXCEPT ![z.r] = 0]
      /\ \/ /\ Fits(challenge[z.r], z.seen)
            /\ sess' = [sess EXCEPT ![s].bound = challenge[z.r]]
         \/ sess' = [sess EXCEPT ![s] = Idle]
      /\ UNCHANGED <<world, sample, live>>

-----------------------------------------------------------------------------
(* A session commits                                                         *)

Done(s) == sess' = [sess EXCEPT ![s] = Idle]

Rollback(s) ==
  /\ sess[s] # Idle
  /\ Done(s)
  /\ UNCHANGED <<world, sample, challenge, live>>

Live(status) == status \in {"pending_letter", "requested", "accepted", "sent"}

\* Fault: a request that waits for its letter does not hold the slot.
IndexAllows_Lettered(rows) ==
  Cardinality({r \in Requests : rows[r].status \in {"requested", "accepted", "sent"}}) <= 1

\* uq_sample_request_active is asked of every row a commit leaves.
IndexAllows(rows) == Cardinality({r \in Requests : Live(rows[r].status)}) <= 1

Commit(s, rows) ==
  /\ IndexAllows(rows)
  /\ sample' = rows
  /\ Done(s)

\* samples.request
FinishRequest(s) ==
  /\ sess[s].door = "request"
  /\ Commit(s, [sample EXCEPT ![sess[s].r] =
       [NoSample EXCEPT !.status = IF world.letter THEN "pending_letter" ELSE "requested"]])
  /\ UNCHANGED <<world, challenge, live>>

\* Every render has a new hash: the letter carries the time it was made.
FinishRender(s) ==
  /\ sess[s].door = "render"
  /\ sample[sess[s].r].letter < MaxRenders
  /\ Commit(s, [sample EXCEPT ![sess[s].r].letter = @ + 1])
  /\ UNCHANGED <<world, challenge, live>>

\* The evidence covers the challenge; the request is released to the seller.
FinishSign(s) ==
  LET z == sess[s]
  IN  /\ z.door = "sign" /\ z.bound # 0
      /\ Commit(s, [sample EXCEPT
           ![z.r].signed = z.bound,
           ![z.r].status = IF z.seen.status = "pending_letter" THEN "requested" ELSE @])
      /\ UNCHANGED <<world, challenge, live>>

FinishMove(s) ==
  LET z == sess[s]
  IN  /\ z.door \in SellerMoves \cup BuyerMoves
      /\ Commit(s, [sample EXCEPT ![z.r].status = z.door])
      /\ UNCHANGED <<world, challenge, live>>

FinishDeal(s) ==
  LET z == sess[s]
  IN  /\ z.door \in {"deal_from_sample", "deal_from_inquiry"}
      /\ live' = live + 1
      /\ Commit(s, [sample EXCEPT ![z.r].deal = @ \/ z.door = "deal_from_sample"])
      /\ UNCHANGED <<world, challenge>>

\* A deal is completed or cancelled.
DealEnds ==
  /\ live > 0
  /\ live' = live - 1
  /\ UNCHANGED <<world, sample, challenge, sess>>

-----------------------------------------------------------------------------

SomeRequest == CHOOSE r \in Requests : TRUE

Begins(s) ==
  \/ \E r \in Requests :
       \/ BeginRequest(s, r)
       \/ BeginRender(s, r)
       \/ BeginSign(s, r)
       \/ \E to \in Statuses : BeginMove(s, r, to)
       \/ BeginDealFromSample(s, r)
  \/ BeginDealFromInquiry(s, SomeRequest)

Goes(s) ==
  \/ Rollback(s)
  \/ TakeChallenge(s)
  \/ FinishRequest(s)
  \/ FinishRender(s)
  \/ FinishSign(s)
  \/ FinishMove(s)
  \/ FinishDeal(s)

Next ==
  \/ \E s \in Sessions : Begins(s) \/ Goes(s)
  \/ \E r \in Requests : IssueChallenge(r)
  \/ DealEnds

Spec == Init /\ [][Next]_vars

-----------------------------------------------------------------------------
(* Properties                                                                *)

\* "One LIVE request per (offer, buyer)": the slot is held from the unsigned
\* letter to the receipt, also against a move decided on a stale copy, which
\* would bring a request back to life beside the one that took its slot.
OneLiveRequest == Cardinality({r \in Requests : Live(sample[r].status)}) <= 1

\* The letter on record is the one that was signed: render_letter refuses once it
\* is, and the challenge is bound to its hash (as long as no render overlaps).
SignatureCoversTheLetter ==
  (\A pair \in world.overlap : "render" \notin pair) =>
    \A r \in Requests : sample[r].signed \in {0, sample[r].letter}

=============================================================================
