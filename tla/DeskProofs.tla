------------------------------ MODULE DeskProofs ------------------------------
(****************************************************************************)
(* The four desks around the deal core: Tender, proved here, and the desks   *)
(* of MCDesks at the settings it gives them, proved from the proofs of each. *)
(*                                                                           *)
(* Tender yields one deal and retires the quotes that lost, for any          *)
(* suppliers, quotes and sessions: whoever holds the request lock found no   *)
(* winner and has noted every standing quote, and nobody can add a winner or *)
(* a quote until the lock is gone; a winner stays one.                       *)
(*                                                                           *)
(* A step of the desks is a step of one of them and none of the others, so   *)
(* each keeps the inductive invariant it has by itself.                      *)
(****************************************************************************)
EXTENDS MCDesks, SequenceTheorems, TLAPS

-----------------------------------------------------------------------------
(* Tender                                                                    *)

Alone(s) == \A t \in Sessions : Busy(t) => t = s

Locked(s) == sess[s].door = "accept" /\ sess[s].step = "locked"

(* What a session in progress may rely on, by its door. *)

\* Under the lock there is no winner, and every standing quote is noted.
LockKnows(s) ==
  Locked(s) => NoWinnerYet /\ Losers(sess[s].q) \subseteq sess[s].losers

AcceptKnows(s) ==
  sess[s].door = "accept" =>
    /\ sess[s].q \in Quotes
    /\ \A q \in sess[s].losers \cup {sess[s].q} : quote[q] # NoQuote

SubmitKnows(s) ==
  sess[s].door = "submit" =>
    /\ sess[s].q \in Quotes
    /\ sess[s].by \in Suppliers
    /\ quote[sess[s].q] = NoQuote
    /\ \A t \in Sessions : sess[t].door = "submit" /\ sess[t].q = sess[s].q => t = s
    /\ "submit" \notin world => Alone(s) /\ request \in Open

WithdrawKnows(s) ==
  sess[s].door = "withdraw" =>
    /\ sess[s].q \in Quotes
    /\ quote[sess[s].q] # NoQuote
    /\ "withdraw" \notin world => Alone(s) /\ quote[sess[s].q].status = "submitted"

MoveKnows(s) ==
  /\ sess[s].door = "cancel" => sess[s].to = "cancelled"
  /\ sess[s].door = "staff" /\ "staff" \notin world =>
       Alone(s) /\ <<request, sess[s].to>> \in Transitions

Knows(s) ==
  LockKnows(s) /\ AcceptKnows(s) /\ SubmitKnows(s) /\ WithdrawKnows(s) /\ MoveKnows(s)

Orderly ==
  /\ \A s, t \in Sessions : Locked(s) /\ Locked(t) => s = t
  /\ \A s \in Sessions : Knows(s)

\* What the deals on record say of the tender.
Decided ==
  /\ OneWinner
  /\ "withdraw" \notin world /\ deals # <<>> =>
       \E q \in Quotes : quote[q].status = "accepted"
  /\ LosersAreRetired
  /\ world \cap {"submit", "staff"} = {} /\ deals # <<>> => request \notin Open

TenderInv == TypeOK /\ Orderly /\ Decided

-----------------------------------------------------------------------------
(* Types                                                                     *)

LEMMA BusySession ==
  ASSUME TypeOK, NEW s \in Sessions
  PROVE  /\ Busy(s) => sess[s] \in Session
         /\ sess[s].door # "none" => Busy(s)
<1>1. sess[s] \in Session \cup {Idle}
  BY DEF TypeOK
<1>2. Idle.door = "none"
  BY DEF Idle
<1>3. QED
  BY <1>1, <1>2 DEF Busy

LEMMA QuoteIs ==
  ASSUME TypeOK, NEW q \in Quotes
  PROVE  /\ quote[q] # NoQuote <=> quote[q] \in Quote
         /\ quote[q] = NoQuote <=> quote[q].status = "none"
         /\ quote[q] \in Quote \cup {NoQuote}
<1>1. quote[q] \in Quote \cup {NoQuote} /\ NoQuote.status = "none"
  BY DEF TypeOK, NoQuote
<1>2. \A k \in Quote : k.status # "none"
  BY DEF Quote
<1>3. QED
  BY <1>1, <1>2

\* Whatever the door, a session that begins has passed its guard.
LEMMA BeginsPass ==
  ASSUME TypeOK, NEW s \in Sessions, Begins(s)
  PROVE  \E door \in Doors, q \in Quotes \cup {Nothing}, by \in Suppliers \cup {Nothing},
            to \in RequestStatuses :
           /\ Begin(s, door, q, by, to)
           /\ door \in {"submit", "withdraw", "accept"} => q \in Quotes
           /\ door = "submit" =>
                /\ by \in Suppliers
                /\ quote[q] = NoQuote
                /\ \A t \in Sessions : Busy(t) => sess[t].q # q
                /\ request \in Open
           /\ door = "withdraw" => quote[q].status = "submitted"
           /\ door = "accept" => quote[q].status = "submitted"
           /\ door = "cancel" => to = "cancelled"
           /\ door = "staff" => <<request, to>> \in Transitions
<1>1. /\ {"offer_sent", "matched", "cancelled", request} \subseteq RequestStatuses
      /\ Doors = {"submit", "withdraw", "accept", "cancel", "staff"}
  BY DEF TypeOK, RequestStatuses, Doors
<1>2. ASSUME NEW q \in Quotes, NEW by \in Suppliers, BeginSubmit(s, q, by)
      PROVE  /\ Begin(s, "submit", q, by, "offer_sent") /\ quote[q] = NoQuote
             /\ \A t \in Sessions : Busy(t) => sess[t].q # q
             /\ request \in Open
  BY <1>2 DEF BeginSubmit
<1>3. ASSUME NEW q \in Quotes, BeginWithdraw(s, q)
      PROVE  /\ Begin(s, "withdraw", q, quote[q].by, request) /\ quote[q].status = "submitted"
             /\ quote[q].by \in Suppliers
  BY <1>3, QuoteIs DEF BeginWithdraw, Quote
<1>4. ASSUME NEW q \in Quotes, BeginAccept(s, q)
      PROVE  Begin(s, "accept", q, quote[q].by, "matched") /\ quote[q].by \in Suppliers
             /\ quote[q].status = "submitted"
  BY <1>4, QuoteIs DEF BeginAccept, Quote
<1>5. BeginCancel(s) => Begin(s, "cancel", Nothing, Nothing, "cancelled")
  BY DEF BeginCancel
<1>6. ASSUME NEW to \in RequestStatuses, BeginStaff(s, to)
      PROVE  Begin(s, "staff", Nothing, Nothing, to) /\ <<request, to>> \in Transitions
  BY <1>6 DEF BeginStaff
<1>7. QED
  BY <1>1, <1>2, <1>3, <1>4, <1>5, <1>6 DEF Begins

LEMMA InitTyped == Init => TypeOK
  BY DEF Init, TypeOK, RequestStatuses

LEMMA BeginTyped ==
  ASSUME TypeOK, NEW s \in Sessions, NEW door \in Doors, NEW q \in Quotes \cup {Nothing},
         NEW by \in Suppliers \cup {Nothing}, NEW to \in RequestStatuses,
         Begin(s, door, q, by, to)
  PROVE  TypeOK'
<1>1. [door |-> door, q |-> q, by |-> by, request |-> request, to |-> to,
       step |-> "loaded", losers |-> {}] \in Session
  BY DEF Session, TypeOK
<1>2. QED
  BY <1>1 DEF Begin, TypeOK

LEMMA GoesTyped ==
  ASSUME TypeOK, Orderly, NEW s \in Sessions, Goes(s)
  PROVE  TypeOK' /\ Busy(s) /\ world' = world
<1> DEFINE z == sess[s]
<1>1. Busy(s) /\ z \in Session
  BY BusySession DEF Goes, Rollback, FinishSubmit, FinishWithdraw, LockTender, FinishAccept, FinishMove
<1>2. Done(s) => sess' \in [Sessions -> Session \cup {Idle}]
  BY DEF Done, TypeOK
<1>3. CASE Rollback(s)
  BY <1>1, <1>2, <1>3 DEF Rollback, TypeOK
<1>4. CASE FinishSubmit(s)
  <2>1. z.q \in Quotes /\ z.by \in Suppliers
    BY <1>4 DEF FinishSubmit, Orderly, Knows, SubmitKnows
  <2>2. [by |-> z.by, status |-> "submitted"] \in Quote
    BY <2>1 DEF Quote, QuoteStatuses
  <2>3. request' \in RequestStatuses /\ quote' \in [Quotes -> Quote \cup {NoQuote}]
    BY <1>4, <2>1, <2>2 DEF FinishSubmit, TypeOK, RequestStatuses
  <2>4. QED
    BY <1>1, <1>2, <1>4, <2>3 DEF FinishSubmit, TypeOK
<1>5. CASE FinishWithdraw(s)
  <2>1. z.q \in Quotes /\ quote[z.q] \in Quote
    BY <1>5, QuoteIs DEF FinishWithdraw, Orderly, Knows, WithdrawKnows
  <2>2. [quote[z.q] EXCEPT !.status = "withdrawn"] \in Quote
    BY <2>1 DEF Quote, QuoteStatuses
  <2>3. quote' \in [Quotes -> Quote \cup {NoQuote}]
    BY <1>5, <2>1, <2>2 DEF FinishWithdraw, TypeOK
  <2>4. QED
    BY <1>1, <1>2, <1>5, <2>3 DEF FinishWithdraw, TypeOK
<1>6. CASE LockTender(s)
  <2>1. [z EXCEPT !.step = "locked", !.losers = Losers(z.q)] \in Session
    BY <1>1 DEF Session, Losers
  <2>2. sess' \in [Sessions -> Session \cup {Idle}]
    BY <1>6, <2>1 DEF LockTender, TypeOK
  <2>3. QED
    BY <1>1, <1>6, <2>2 DEF LockTender, TypeOK
<1>7. CASE FinishAccept(s)
  <2>1. z.q \in Quotes /\ quote[z.q] \in Quote /\ \A q \in z.losers : quote[q] \in Quote
    BY <1>1, <1>7, QuoteIs DEF FinishAccept, Orderly, Knows, AcceptKnows, Session
  <2>2. \A q \in Quotes : quote[q] \in Quote =>
          /\ [quote[q] EXCEPT !.status = "accepted"] \in Quote
          /\ [quote[q] EXCEPT !.status = "not_selected"] \in Quote
    BY DEF Quote, QuoteStatuses
  <2>3. quote' \in [Quotes -> Quote \cup {NoQuote}]
    BY <1>7, <2>1, <2>2 DEF FinishAccept, TypeOK
  <2>4. deals' \in Seq([q : Quotes, tender : RequestStatuses])
    BY <1>7, <2>1, AppendProperties DEF FinishAccept, TypeOK
  <2>5. request' \in RequestStatuses
    BY <1>7 DEF FinishAccept, RequestStatuses
  <2>6. QED
    BY <1>1, <1>2, <1>7, <2>3, <2>4, <2>5 DEF FinishAccept, TypeOK
<1>8. CASE FinishMove(s)
  BY <1>1, <1>2, <1>8 DEF FinishMove, TypeOK, Session
<1>9. QED
  BY <1>3, <1>4, <1>5, <1>6, <1>7, <1>8 DEF Goes

-----------------------------------------------------------------------------
(* Sessions in progress                                                      *)

LEMMA BeginOrderly ==
  ASSUME TypeOK, Orderly, NEW s \in Sessions, Begins(s)
  PROVE  Orderly'
<1>1. PICK door \in Doors, q \in Quotes \cup {Nothing}, by \in Suppliers \cup {Nothing},
           to \in RequestStatuses :
         /\ Begin(s, door, q, by, to)
         /\ door \in {"submit", "withdraw", "accept"} => q \in Quotes
         /\ door = "submit" =>
              /\ by \in Suppliers
              /\ quote[q] = NoQuote
              /\ \A t \in Sessions : Busy(t) => sess[t].q # q
              /\ request \in Open
         /\ door = "withdraw" => quote[q].status = "submitted"
         /\ door = "accept" => quote[q].status = "submitted"
         /\ door = "cancel" => to = "cancelled"
         /\ door = "staff" => <<request, to>> \in Transitions
  BY BeginsPass
<1>2. /\ world' = world /\ request' = request /\ quote' = quote
      /\ sess'[s] = [ door |-> door, q |-> q, by |-> by, request |-> request, to |-> to,
                      step |-> "loaded", losers |-> {} ]
      /\ \A t \in Sessions \ {s} : sess'[t] = sess[t]
  BY <1>1 DEF Begin, TypeOK
<1>3. ~Locked(s)' /\ \A t \in Sessions \ {s} : Locked(t)' <=> Locked(t)
  BY <1>2 DEF Locked
<1>4. ~Busy(s) /\ \A t \in Sessions : Busy(t) => {door, sess[t].door} \subseteq world
  BY <1>1 DEF Begin, MayOverlap
<1>5. ASSUME NEW t \in Sessions \ {s}
      PROVE  Knows(t)'
  <2>1. Knows(t) /\ sess'[t] = sess[t]
    BY <1>2 DEF Orderly
  <2>2. LockKnows(t)' /\ AcceptKnows(t)'
    BY <1>2, <1>3, <2>1 DEF Knows, LockKnows, AcceptKnows, NoWinnerYet, Losers
  <2>4. SubmitKnows(t)'
    <3>1. SUFFICES ASSUME sess[t].door = "submit"
                   PROVE  SubmitKnows(t)'
      BY <2>1 DEF SubmitKnows
    <3>2. Busy(t) /\ "submit" \in world
      BY <1>4, <3>1, BusySession
    <3>3. \A u \in Sessions : sess'[u].door = "submit" /\ sess'[u].q = sess[t].q => u = t
      BY <1>1, <1>2, <2>1, <3>1, <3>2 DEF Knows, SubmitKnows
    <3>4. QED
      BY <1>2, <2>1, <3>1, <3>2, <3>3 DEF Knows, SubmitKnows
  <2>5. WithdrawKnows(t)'
    BY <1>2, <1>4, <2>1, BusySession DEF Knows, WithdrawKnows
  <2>6. MoveKnows(t)'
    BY <1>2, <1>4, <2>1, BusySession DEF Knows, MoveKnows
  <2>7. QED
    BY <2>2, <2>4, <2>5, <2>6 DEF Knows
<1>6. Knows(s)'
  <2>1. door \notin world => \A t \in Sessions : Busy(t)' => t = s
    BY <1>2, <1>4 DEF Busy
  <2>2. LockKnows(s)'
    BY <1>3 DEF LockKnows
  <2>3. AcceptKnows(s)'
    BY <1>1, <1>2, QuoteIs DEF AcceptKnows
  <2>4. SubmitKnows(s)'
    <3>1. SUFFICES ASSUME door = "submit"
                   PROVE  SubmitKnows(s)'
      BY <1>2 DEF SubmitKnows
    <3>2. \A t \in Sessions : sess'[t].door = "submit" /\ sess'[t].q = q => t = s
      BY <1>1, <1>2, <3>1, BusySession
    <3>3. QED
      BY <1>1, <1>2, <2>1, <3>1, <3>2 DEF SubmitKnows, Alone
  <2>5. WithdrawKnows(s)'
    BY <1>1, <1>2, <2>1, QuoteIs DEF WithdrawKnows, Alone
  <2>6. MoveKnows(s)'
    BY <1>1, <1>2, <2>1 DEF MoveKnows, Alone
  <2>7. QED
    BY <2>2, <2>3, <2>4, <2>5, <2>6 DEF Knows
<1>7. QED
  BY <1>3, <1>5, <1>6 DEF Orderly

\* What a session that goes on does to the others: it frees or locks its own
\* place, and no quote is forgotten.
LEMMA GoesAlone ==
  ASSUME TypeOK, Orderly, NEW s \in Sessions, Goes(s)
  PROVE  /\ \A t \in Sessions \ {s} : sess'[t] = sess[t]
         /\ sess'[s] = Idle \/ LockTender(s)
         /\ \A q \in Quotes : quote[q] # NoQuote => quote'[q] # NoQuote
         /\ \A t \in Sessions \ {s} : Alone(t) => FALSE
<1> DEFINE z == sess[s]
<1>1. Busy(s) /\ TypeOK'
  BY GoesTyped
<1>2. Done(s) => /\ \A t \in Sessions \ {s} : sess'[t] = sess[t]
                 /\ sess'[s] = Idle
  BY DEF Done, TypeOK
<1>3. LockTender(s) => \A t \in Sessions \ {s} : sess'[t] = sess[t]
  BY DEF LockTender, TypeOK
<1>4. Done(s) \/ LockTender(s)
  BY DEF Goes, Rollback, FinishSubmit, FinishWithdraw, FinishAccept, FinishMove
<1>5. ASSUME NEW q \in Quotes, quote[q] # NoQuote
      PROVE  quote'[q] # NoQuote
  <2>1. quote[q] \in Quote
    BY <1>5, QuoteIs
  <2>2. CASE quote' = quote
    BY <1>5, <2>2
  <2>3. CASE FinishSubmit(s)
    BY <1>5, <2>3, QuoteIs DEF FinishSubmit, Orderly, Knows, SubmitKnows, TypeOK, NoQuote
  <2>4. CASE FinishWithdraw(s)
    BY <1>5, <2>1, <2>4 DEF FinishWithdraw, TypeOK, Quote, NoQuote
  <2>5. CASE FinishAccept(s)
    BY <1>5, <2>1, <2>5 DEF FinishAccept, Quote, NoQuote
  <2>6. QED
    BY <2>2, <2>3, <2>4, <2>5 DEF Goes, Rollback, LockTender, FinishMove
<1>6. QED
  BY <1>1, <1>2, <1>3, <1>4, <1>5 DEF Alone

LEMMA GoesOrderly ==
  ASSUME TypeOK, Orderly, NEW s \in Sessions, Goes(s)
  PROVE  Orderly'
<1> DEFINE z == sess[s]
<1>1. /\ \A t \in Sessions \ {s} : sess'[t] = sess[t] /\ Knows(t) /\ ~Alone(t)
      /\ sess'[s] = Idle \/ LockTender(s)
      /\ \A q \in Quotes : quote[q] # NoQuote => quote'[q] # NoQuote
  BY GoesAlone DEF Orderly
<1>2. TypeOK' /\ Busy(s) /\ world' = world
  BY GoesTyped
<1>3. \A t \in Sessions : Locked(t) => Busy(t)
  BY BusySession DEF Locked
<1>4. \A t \in Sessions \ {s} : Locked(t)' <=> Locked(t)
  BY <1>1 DEF Locked
<1>5. Locked(s)' => LockTender(s)
  BY <1>1 DEF Locked, Idle
<1>6. \A t, u \in Sessions : Locked(t)' /\ Locked(u)' => t = u
  BY <1>3, <1>4, <1>5 DEF Orderly, LockTender, RequestLocked, Locked
<1>7. ASSUME NEW t \in Sessions \ {s}
      PROVE  Knows(t)'
  <2>1. LockKnows(t)'
    <3>1. SUFFICES ASSUME Locked(t)
                   PROVE  (NoWinnerYet /\ Losers(sess[t].q) \subseteq sess[t].losers)'
      BY <1>4 DEF LockKnows
    <3>2. NoWinnerYet /\ Losers(sess[t].q) \subseteq sess[t].losers
      BY <1>1, <3>1 DEF Knows, LockKnows
    <3>3. RequestLocked /\ ~Locked(s)
      BY <1>3, <3>1 DEF RequestLocked, Locked, Orderly
    <3>4. CASE quote' = quote
      BY <1>1, <3>2, <3>4 DEF NoWinnerYet, Losers
    <3>5. CASE FinishWithdraw(s)
      <4>1. \A q \in Quotes : quote'[q].status \in {quote[q].status, "withdrawn"}
        BY <3>5 DEF FinishWithdraw, TypeOK, Orderly, Knows, WithdrawKnows, Quote, NoQuote
      <4>2. QED
        BY <1>1, <3>2, <4>1 DEF NoWinnerYet, Losers
    <3>6. QED
      BY <3>3, <3>4, <3>5 DEF Goes, Rollback, LockTender, FinishMove, FinishSubmit, FinishAccept, Locked
  <2>2. AcceptKnows(t)'
    BY <1>1, <1>2 DEF Knows, AcceptKnows, TypeOK, Session, Idle
  <2>3. SubmitKnows(t)'
    <3>1. SUFFICES ASSUME sess[t].door = "submit"
                   PROVE  SubmitKnows(t)'
      BY <1>1 DEF SubmitKnows
    <3>2. /\ sess[t].q \in Quotes /\ sess[t].by \in Suppliers
          /\ quote[sess[t].q] = NoQuote
          /\ \A u \in Sessions : sess[u].door = "submit" /\ sess[u].q = sess[t].q => u = t
          /\ "submit" \in world
      BY <1>1, <3>1 DEF Knows, SubmitKnows
    <3>3. quote'[sess[t].q] = NoQuote
      <4>1. CASE quote' = quote
        BY <3>2, <4>1
      <4>2. CASE FinishSubmit(s)
        BY <3>2, <4>2 DEF FinishSubmit, TypeOK
      <4>3. CASE FinishWithdraw(s)
        BY <3>2, <4>3 DEF FinishWithdraw, TypeOK, Orderly, Knows, WithdrawKnows
      <4>4. CASE FinishAccept(s)
        BY <3>2, <4>4 DEF FinishAccept, Orderly, Knows, AcceptKnows
      <4>5. QED
        BY <4>1, <4>2, <4>3, <4>4 DEF Goes, Rollback, LockTender, FinishMove
    <3>4. sess'[s].door # "submit"
      <4>1. LockTender(s) => z.door = "accept" /\ sess'[s] = [z EXCEPT !.step = "locked", !.losers = Losers(z.q)]
        BY DEF LockTender, TypeOK
      <4>2. LockTender(s) => sess'[s].door = "accept"
        BY <1>2, <4>1, BusySession DEF Session
      <4>3. QED
        BY <1>1, <4>2 DEF Idle
    <3>5. \A u \in Sessions : sess'[u].door = "submit" /\ sess'[u].q = sess[t].q => u = t
      BY <1>1, <3>2, <3>4
    <3>6. QED
      BY <1>1, <1>2, <3>2, <3>3, <3>5 DEF SubmitKnows
  <2>4. WithdrawKnows(t)'
    BY <1>1, <1>2 DEF Knows, WithdrawKnows
  <2>5. MoveKnows(t)'
    BY <1>1, <1>2 DEF Knows, MoveKnows
  <2>6. QED
    BY <2>1, <2>2, <2>3, <2>4, <2>5 DEF Knows
<1>8. Knows(s)'
  <2>1. CASE sess'[s] = Idle
    BY <2>1 DEF Knows, LockKnows, AcceptKnows, SubmitKnows, WithdrawKnows, MoveKnows, Locked, Idle
  <2>2. CASE LockTender(s)
    <3>1. /\ sess'[s] = [z EXCEPT !.step = "locked", !.losers = Losers(z.q)]
          /\ quote' = quote /\ NoWinnerYet /\ z.door = "accept"
      BY <2>2 DEF LockTender, TypeOK
    <3>2. z \in Session
      BY <1>2, BusySession
    <3>3. /\ sess'[s].door = "accept" /\ sess'[s].q = z.q
          /\ sess'[s].losers = Losers(z.q)
      BY <3>1, <3>2 DEF Session
    <3>4. LockKnows(s)'
      BY <3>1, <3>3 DEF LockKnows, NoWinnerYet, Losers
    <3>5. \A q \in Losers(z.q) : quote[q] # NoQuote
      BY DEF Losers, NoQuote
    <3>6. AcceptKnows(s)'
      BY <3>1, <3>3, <3>5 DEF AcceptKnows, Orderly, Knows
    <3>7. QED
      BY <3>3, <3>4, <3>6 DEF Knows, SubmitKnows, WithdrawKnows, MoveKnows
  <2>3. QED
    BY <1>1, <2>1, <2>2
<1>9. QED
  BY <1>6, <1>7, <1>8 DEF Orderly

-----------------------------------------------------------------------------
(* What the deals say of the tender                                          *)

LEMMA GoesDecided ==
  ASSUME TypeOK, Orderly, Decided, NEW s \in Sessions, Goes(s)
  PROVE  Decided'
<1> DEFINE z == sess[s]
<1>1. Busy(s) /\ world' = world
  BY GoesTyped
<1>2. Knows(s)
  BY DEF Orderly
<1>3. CASE quote' = quote /\ deals' = deals /\ request' = request
  BY <1>1, <1>3 DEF Decided, OneWinner, LosersAreRetired
<1>4. CASE FinishSubmit(s)
  <2>1. /\ z.q \in Quotes /\ quote[z.q] = NoQuote
        /\ "submit" \notin world => request \in Open
        /\ deals' = deals /\ world' = world
        /\ \A q \in Quotes \ {z.q} : quote'[q] = quote[q]
    BY <1>1, <1>2, <1>4 DEF FinishSubmit, Knows, SubmitKnows, TypeOK
  <2>2. "submit" \notin world /\ "staff" \notin world => deals = <<>>
    BY <2>1 DEF Decided
  <2>3. "withdraw" \notin world /\ deals # <<>> => \E q \in Quotes : quote'[q].status = "accepted"
    BY <2>1 DEF Decided, NoQuote
  <2>4. QED
    BY <2>1, <2>2, <2>3 DEF Decided, OneWinner, LosersAreRetired
<1>5. CASE FinishWithdraw(s)
  <2>1. /\ z.q \in Quotes /\ quote[z.q] # NoQuote
        /\ "withdraw" \notin world => quote[z.q].status = "submitted"
        /\ deals' = deals /\ world' = world /\ request' = request
        /\ \A q \in Quotes \ {z.q} : quote'[q] = quote[q]
        /\ quote'[z.q] = [quote[z.q] EXCEPT !.status = "withdrawn"]
    BY <1>1, <1>2, <1>5 DEF FinishWithdraw, Knows, WithdrawKnows, TypeOK
  <2>2. quote'[z.q].status = "withdrawn"
    BY <2>1, QuoteIs DEF Quote
  <2>3. QED
    BY <2>1, <2>2 DEF Decided, OneWinner, LosersAreRetired
<1>6. CASE FinishAccept(s)
  <2>1. /\ z.q \in Quotes /\ NoWinnerYet /\ Losers(z.q) \subseteq z.losers
        /\ \A q \in z.losers \cup {z.q} : quote[q] # NoQuote
    BY <1>2, <1>6 DEF FinishAccept, Knows, LockKnows, AcceptKnows, Locked
  <2>2. /\ quote' = [q \in Quotes |->
               IF q = z.q THEN [quote[q] EXCEPT !.status = "accepted"]
               ELSE IF q \in z.losers THEN [quote[q] EXCEPT !.status = "not_selected"]
               ELSE quote[q]]
        /\ request' = "matched"
        /\ deals' = Append(deals, [q |-> z.q, tender |-> request])
    BY <1>6 DEF FinishAccept
  <2>3. \A q \in Quotes : quote[q] # NoQuote =>
          /\ [quote[q] EXCEPT !.status = "accepted"].status = "accepted"
          /\ [quote[q] EXCEPT !.status = "not_selected"].status = "not_selected"
    BY QuoteIs DEF Quote
  <2>4. quote'[z.q].status = "accepted"
    BY <2>1, <2>2, <2>3
  <2>5. \A q \in Quotes : quote'[q].status # "submitted"
    BY <2>1, <2>2, <2>3 DEF Losers
  <2>6. "withdraw" \notin world => deals = <<>>
    BY <2>1 DEF Decided, NoWinnerYet
  <2>7. deals = <<>> => Len(deals') <= 1
    <3>1. deals \in Seq([q : Quotes, tender : RequestStatuses])
          /\ [q |-> z.q, tender |-> request] \in [q : Quotes, tender : RequestStatuses]
      BY <2>1 DEF TypeOK
    <3>2. Len(deals') = Len(deals) + 1
      BY <2>2, <3>1, AppendProperties
    <3>3. QED
      BY <3>1, <3>2, EmptySeq
  <2>8. request' \notin Open
    BY <2>2 DEF Open
  <2>9. QED
    BY <1>1, <2>1, <2>4, <2>5, <2>6, <2>7, <2>8 DEF Decided, OneWinner, LosersAreRetired
<1>7. CASE FinishMove(s)
  <2>1. quote' = quote /\ deals' = deals /\ request' = z.to /\ z.door \in {"cancel", "staff"}
    BY <1>7 DEF FinishMove
  <2>2. "staff" \notin world /\ request \notin Open => z.to \notin Open
    BY <1>2, <2>1 DEF Knows, MoveKnows, Transitions, Open
  <2>3. QED
    BY <1>1, <2>1, <2>2 DEF Decided, OneWinner, LosersAreRetired
<1>8. QED
  BY <1>3, <1>4, <1>5, <1>6, <1>7 DEF Goes, Rollback, LockTender

-----------------------------------------------------------------------------
(* The theorems                                                              *)

LEMMA InitHolds == Init => TenderInv
<1> SUFFICES ASSUME Init PROVE TenderInv
  OBVIOUS
<1>1. TypeOK
  BY InitTyped
<1>2. /\ deals = <<>> /\ Len(deals) = 0
      /\ \A s \in Sessions : sess[s].door = "none"
  BY DEF Init, Idle
<1>3. Orderly
  BY <1>2 DEF Orderly, Knows, LockKnows, AcceptKnows, SubmitKnows, WithdrawKnows, MoveKnows, Locked
<1>4. Decided
  BY <1>2 DEF Decided, OneWinner, LosersAreRetired
<1>5. QED
  BY <1>1, <1>3, <1>4 DEF TenderInv

LEMMA StepHolds == TenderInv /\ [Next]_vars => TenderInv'
<1> SUFFICES ASSUME TenderInv, [Next]_vars PROVE TenderInv'
  OBVIOUS
<1>1. ASSUME NEW s \in Sessions, Begins(s)
      PROVE  TenderInv'
  <2>1. PICK door \in Doors, q \in Quotes \cup {Nothing}, by \in Suppliers \cup {Nothing},
             to \in RequestStatuses : Begin(s, door, q, by, to)
    BY <1>1, BeginsPass DEF TenderInv
  <2>2. TypeOK'
    BY <2>1, BeginTyped DEF TenderInv
  <2>3. Orderly'
    BY <1>1, BeginOrderly DEF TenderInv
  <2>4. Decided'
    BY <2>1 DEF TenderInv, Begin, Decided, OneWinner, LosersAreRetired
  <2>5. QED
    BY <2>2, <2>3, <2>4 DEF TenderInv
<1>2. ASSUME NEW s \in Sessions, Goes(s)
      PROVE  TenderInv'
  BY <1>2, GoesTyped, GoesOrderly, GoesDecided DEF TenderInv
<1>3. CASE UNCHANGED vars
  BY <1>3 DEF TenderInv, vars, TypeOK, Busy, Alone, Locked, Orderly, Knows, LockKnows, AcceptKnows,
    SubmitKnows, WithdrawKnows, MoveKnows, NoWinnerYet, Losers, Decided, OneWinner, LosersAreRetired
<1>4. QED
  BY <1>1, <1>2, <1>3 DEF Next

LEMMA Inductive == Spec => []TenderInv
<1>1. TenderInv /\ [Next]_vars => TenderInv'
  BY StepHolds
<1>2. QED
  BY <1>1, InitHolds, PTL DEF Spec

\* The request, the quotes, the deals and the sessions hold what their columns allow.
THEOREM TypeCorrect == Spec => []TypeOK
<1>1. TenderInv => TypeOK
  BY DEF TenderInv
<1>2. QED
  BY <1>1, Inductive, PTL

\* open_deal_from_response: one tender yields one deal, whatever overlaps but a
\* withdrawal, for any number of suppliers, quotes and sessions.
THEOREM OneTenderOneDeal == Spec => []OneWinner
<1>1. TenderInv => OneWinner
  BY DEF TenderInv, Decided
<1>2. QED
  BY <1>1, Inductive, PTL

\* open_deal_from_response: once a winner is chosen no competing quote stands, as
\* long as no new one is on its way in and staff does not reopen the tender.
THEOREM LosersRetire == Spec => []LosersAreRetired
<1>1. TenderInv => LosersAreRetired
  BY DEF TenderInv, Decided
<1>2. QED
  BY <1>1, Inductive, PTL

-----------------------------------------------------------------------------
(* The other desks, at the settings of MCDesks                               *)

VP == INSTANCE VerificationProofs WITH
        Worlds <- Settings, MaxSubmits <- 2, MaxFaults <- 2, world <- setting

MP == INSTANCE ModerationProofs WITH
        Worlds <- Markets, MaxVersions <- 3, world <- market, sess <- itemSess

SP == INSTANCE SamplesProofs WITH
        Worlds <- Labs, MaxRenders <- 2, world <- lab, sess <- sampleSess

\* What the constants are.
Parameters == MaxTries \in Nat /\ Requests # {}

LEMMA SettingsAreWorlds ==
  ASSUME Parameters
  PROVE  VP!Parameters /\ MP!Parameters /\ SP!Parameters
<1>1. VP!Parameters
  <2>1. \A h, s, f : s \in 0..2 /\ f \in 0..2 => Setting(h, f, s) \in VP!World
    BY DEF Setting, VP!World
  <2>2. \A x \in Settings : x \in VP!World
    BY <2>1 DEF Settings, Undisturbed
  <2>3. QED
    BY <2>2 DEF Parameters, VP!Parameters
<1>2. MP!Parameters
  BY DEF MP!Parameters, Markets, Market, MP!World, MP!Doors
<1>3. SP!Parameters
  BY DEF Parameters, SP!Parameters, Labs, Pairs, SP!World, SP!Doors, SP!SellerMoves, SP!BuyerMoves
<1>4. QED
  BY <1>1, <1>2, <1>3

\* The desk V is the Verification that VerificationProofs is about.
LEMMA SameVerification ==
  /\ V!Init => VP!Init
  /\ [V!Next]_verification => [VP!Next]_(VP!vars)
  /\ VP!TypeOK => V!TypeOK
  /\ VP!SettledCaseIsEvaluated => V!SettledCaseIsEvaluated
  /\ VP!DocumentsAwaitTheRegistry => V!DocumentsAwaitTheRegistry
  /\ VP!DecisionStands => V!DecisionStands
<1>1. V!Init => VP!Init
  BY DEF V!Init, VP!Init, V!Checks, VP!Checks, V!Idle, VP!Idle
<1>2. [V!Next]_verification => [VP!Next]_(VP!vars)
  BY DEF verification, VP!vars, V!Next, VP!Next, V!BeginSubmit, VP!BeginSubmit, V!Checks,
         VP!Checks, V!RowLocked, VP!RowLocked, V!Idle, VP!Idle, V!FaultHappens,
         VP!FaultHappens, V!CommitSubmit, VP!CommitSubmit, V!SubmitFails,
         VP!SubmitFails, V!FanOut, VP!FanOut, V!Fresh, VP!Fresh, V!Held, VP!Held,
         V!DropTask, VP!DropTask, V!Works, VP!Works, V!StartCheck, VP!StartCheck,
         V!Answer, VP!Answer, V!After, VP!After, V!Evaluate, VP!Evaluate, V!Judged,
         VP!Judged, V!StillRunning, VP!StillRunning, V!OneMore, VP!OneMore, V!Released,
         VP!Released, V!Stop, VP!Stop, V!NoAnswer, VP!NoAnswer, V!Exhausted,
         VP!Exhausted, V!Record, VP!Record, V!Again, VP!Again, V!Aborted, VP!Aborted,
         V!Waive, VP!Waive, V!BeginRecording, VP!BeginRecording, V!FinishRecording,
         VP!FinishRecording, V!CaseStatuses, VP!CaseStatuses, V!Decide, VP!Decide,
         V!MayDecide, VP!MayDecide, V!Decided, VP!Decided
<1>3. VP!TypeOK => V!TypeOK
  BY DEF V!TypeOK, VP!TypeOK, V!CaseStatuses, VP!CaseStatuses, V!Checks, VP!Checks, V!Check,
         VP!Check, V!Task, VP!Task, V!Idle, VP!Idle
<1>4. VP!SettledCaseIsEvaluated => V!SettledCaseIsEvaluated
  BY DEF V!SettledCaseIsEvaluated, VP!SettledCaseIsEvaluated, V!Checks, VP!Checks,
         V!StillRunning, VP!StillRunning
<1>5. VP!DocumentsAwaitTheRegistry => V!DocumentsAwaitTheRegistry
  BY DEF V!DocumentsAwaitTheRegistry, VP!DocumentsAwaitTheRegistry, V!StillRunning,
         VP!StillRunning
<1>6. VP!DecisionStands => V!DecisionStands
  BY DEF V!DecisionStands, VP!DecisionStands
<1>7. QED
  BY <1>1, <1>2, <1>3, <1>4, <1>5, <1>6

\* The desk M is the Moderation that ModerationProofs is about.
LEMMA SameModeration ==
  /\ M!Init => MP!Init
  /\ [M!Next]_moderation => [MP!Next]_(MP!vars)
  /\ MP!TypeOK => M!TypeOK
  /\ MP!AttendedPublicWasReviewed => M!AttendedPublicWasReviewed
<1>1. M!Init => MP!Init
  BY DEF M!Init, MP!Init, M!NoItem, MP!NoItem, M!Idle, MP!Idle
<1>2. [M!Next]_moderation => [MP!Next]_(MP!vars)
  BY DEF moderation, MP!vars, M!Next, MP!Next, M!Create, MP!Create, M!NoItem, MP!NoItem,
         M!Offer, MP!Offer, M!Gate, MP!Gate, M!Compliant, MP!Compliant, M!Begins,
         MP!Begins, M!Doors, MP!Doors, M!BeginChange, MP!BeginChange, M!Begin, MP!Begin,
         M!Idle, MP!Idle, M!MayOverlap, MP!MayOverlap, M!BeginDecision,
         MP!BeginDecision, M!Goes, MP!Goes, M!Rollback, MP!Rollback, M!Done, MP!Done,
         M!FinishEdit, MP!FinishEdit, M!Saved, MP!Saved, M!Column, MP!Column,
         M!Requeued, MP!Requeued, M!FinishPhoto, MP!FinishPhoto, M!FinishFiles,
         MP!FinishFiles, M!FinishArchive, MP!FinishArchive, M!FinishApprove,
         MP!FinishApprove, M!Publishable, MP!Publishable, M!Claims, MP!Claims,
         M!RefuseApprove, MP!RefuseApprove, M!FinishReject, MP!FinishReject, M!Look,
         MP!Look, M!LicenceChanges, MP!LicenceChanges, M!Suspend, MP!Suspend,
         M!Reinstate, MP!Reinstate, M!ArchiveOffers, MP!ArchiveOffers
<1>3. MP!TypeOK => M!TypeOK
  BY DEF M!TypeOK, MP!TypeOK, M!Item, MP!Item, M!Statuses, MP!Statuses, M!Session,
         MP!Session, M!Doors, MP!Doors, M!Idle, MP!Idle
<1>4. MP!AttendedPublicWasReviewed => M!AttendedPublicWasReviewed
  BY DEF M!AttendedPublicWasReviewed, MP!AttendedPublicWasReviewed, M!PublicWasReviewed,
         MP!PublicWasReviewed
<1>5. QED
  BY <1>1, <1>2, <1>3, <1>4

\* The desk S is the Samples that SamplesProofs is about.
LEMMA SameSamples ==
  /\ S!Init => SP!Init
  /\ [S!Next]_samples => [SP!Next]_(SP!vars)
  /\ SP!TypeOK => S!TypeOK
  /\ SP!OneLiveRequest => S!OneLiveRequest
  /\ SP!SignatureCoversTheLetter => S!SignatureCoversTheLetter
<1>1. S!Init => SP!Init
  BY DEF S!Init, SP!Init, S!NoSample, SP!NoSample, S!Idle, SP!Idle
<1>2. [S!Next]_samples => [SP!Next]_(SP!vars)
  BY DEF samples, SP!vars, S!Cardinality, SP!Cardinality, S!Next, SP!Next, S!Begins,
         SP!Begins, S!BeginRequest, SP!BeginRequest, S!NoSample, SP!NoSample, S!Idle,
         SP!Idle, S!Begin, SP!Begin, S!MayOverlap, SP!MayOverlap, S!BeginRender,
         SP!BeginRender, S!BeginSign, SP!BeginSign, S!Statuses, SP!Statuses,
         S!BeginMove, SP!BeginMove, S!Transitions, SP!Transitions,
         S!BeginDealFromSample, SP!BeginDealFromSample, S!NoLiveDeal, SP!NoLiveDeal,
         S!BeginDealFromInquiry, SP!BeginDealFromInquiry, S!SomeRequest, SP!SomeRequest,
         S!Goes, SP!Goes, S!Rollback, SP!Rollback, S!Done, SP!Done, S!TakeChallenge,
         SP!TakeChallenge, S!Fits, SP!Fits, S!FinishRequest, SP!FinishRequest, S!Commit,
         SP!Commit, S!IndexAllows, SP!IndexAllows, S!Live, SP!Live, S!FinishRender,
         SP!FinishRender, S!FinishSign, SP!FinishSign, S!FinishMove, SP!FinishMove,
         S!SellerMoves, SP!SellerMoves, S!BuyerMoves, SP!BuyerMoves, S!FinishDeal,
         SP!FinishDeal, S!IssueChallenge, SP!IssueChallenge, S!DealEnds, SP!DealEnds
<1>3. SP!TypeOK => S!TypeOK
  BY DEF S!TypeOK, SP!TypeOK, S!Sample, SP!Sample, S!Statuses, SP!Statuses, S!Session,
         SP!Session, S!Doors, SP!Doors, S!SellerMoves, SP!SellerMoves, S!BuyerMoves,
         SP!BuyerMoves, S!Idle, SP!Idle
<1>4. SP!OneLiveRequest => S!OneLiveRequest
  BY DEF S!Cardinality, SP!Cardinality, S!OneLiveRequest, SP!OneLiveRequest, S!Live, SP!Live
<1>5. SP!SignatureCoversTheLetter => S!SignatureCoversTheLetter
  BY DEF S!SignatureCoversTheLetter, SP!SignatureCoversTheLetter
<1>6. QED
  BY <1>1, <1>2, <1>3, <1>4, <1>5

-----------------------------------------------------------------------------
(* The four of them                                                          *)

\* Each desk keeps its own invariant: they share no variable but the desk.
IInv == TenderInv /\ VP!IInv /\ MP!IInv /\ SP!IInv

LEMMA DesksBegin == Parameters /\ DesksInit => IInv
<1>1. Parameters /\ V!Init => VP!IInv
  BY SettingsAreWorlds, SameVerification, VP!InitKeeps
<1>2. Parameters /\ M!Init => MP!IInv
  BY SettingsAreWorlds, SameModeration, MP!InitHolds
<1>3. Parameters /\ S!Init => SP!IInv
  BY SettingsAreWorlds, SameSamples, SP!InitHolds
<1>4. QED
  BY <1>1, <1>2, <1>3, InitHolds DEF DesksInit, IInv

LEMMA DesksStep == Parameters /\ IInv /\ [DesksNext]_desks => IInv'
<1>1. [DesksNext]_desks =>
        [Next]_vars /\ [V!Next]_verification /\ [M!Next]_moderation /\ [S!Next]_samples
  BY DEF DesksNext, AtVerification, desks
<1>2. Parameters /\ VP!IInv /\ [V!Next]_verification => VP!IInv'
  BY SettingsAreWorlds, SameVerification, VP!StepKeeps
<1>3. Parameters /\ MP!IInv /\ [M!Next]_moderation => MP!IInv'
  BY SettingsAreWorlds, SameModeration, MP!StepHolds
<1>4. Parameters /\ SP!IInv /\ [S!Next]_samples => SP!IInv'
  BY SettingsAreWorlds, SameSamples, SP!StepHolds
<1>5. QED
  BY <1>1, <1>2, <1>3, <1>4, StepHolds DEF IInv

LEMMA DesksInvariant == ASSUME Parameters PROVE DesksSpec => []IInv
<1>1. DesksInit => IInv
  BY DesksBegin
<1>2. IInv /\ [DesksNext]_desks => IInv'
  BY DesksStep
<1>3. QED
  BY <1>1, <1>2, PTL DEF DesksSpec

\* The rows, sessions and workers of the four desks stay of their types.
THEOREM DesksTypeCorrect == ASSUME Parameters PROVE DesksSpec => []DesksTypeOK
<1>1. IInv => DesksTypeOK
  BY SameVerification, SameModeration, SameSamples
     DEF IInv, TenderInv, VP!IInv, MP!IInv, SP!IInv, DesksTypeOK
<1>2. QED
  BY <1>1, DesksInvariant, PTL

\* on_check_completed: at the settings of MCDesks no case is left running with
\* every check settled, with faults, waivers, a provider that raises or an early
\* broker.
THEOREM CasesAreEvaluated == ASSUME Parameters PROVE DesksSpec => []SettledCaseIsEvaluated
<1>1. IInv => SettledCaseIsEvaluated
  BY SameVerification DEF IInv, VP!IInv, VP!Orderly, SettledCaseIsEvaluated
<1>2. QED
  BY <1>1, DesksInvariant, PTL

\* _release_deferred_documents: the documents are judged with the registry's
\* verdict at hand.
THEOREM DocumentsComeAfterTheRegistry ==
  ASSUME Parameters PROVE DesksSpec => []DocumentsAwaitTheRegistry
<1>1. IInv => DocumentsAwaitTheRegistry
  BY SameVerification
     DEF IInv, VP!IInv, VP!Calm, VP!Single, VP!DocumentsAwaitTheRegistry,
         DocumentsAwaitTheRegistry
<1>2. QED
  BY <1>1, DesksInvariant, PTL

\* _claim_pending_review, on_check_completed: a case is approved once, and the
\* approval stands whatever is waived, repeated or evaluated after it.
THEOREM CasesAreDecidedOnce == ASSUME Parameters PROVE DesksSpec => []DecisionStands
<1>1. IInv => DecisionStands
  BY SameVerification
     DEF IInv, VP!IInv, DecisionStands
<1>2. QED
  BY <1>1, DesksInvariant, PTL

\* update_company_offer, requeue_for_photo_change: what is public is what an
\* attentive moderator approved.
THEOREM WhatIsPublicWasSeen == ASSUME Parameters PROVE DesksSpec => []AttendedPublicWasReviewed
<1>1. IInv => AttendedPublicWasReviewed
  BY SameModeration
     DEF IInv, MP!IInv, MP!Attended, MP!Watched, MP!AttendedPublicWasReviewed,
         AttendedPublicWasReviewed
<1>2. QED
  BY <1>1, DesksInvariant, PTL

\* uq_sample_request_active: one live sample request at most, whatever the
\* moves saw.
THEOREM OneRequestHoldsTheSlot == ASSUME Parameters PROVE DesksSpec => []OneLiveRequest
<1>1. IInv => OneLiveRequest
  BY SameSamples DEF IInv, SP!IInv, OneLiveRequest
<1>2. QED
  BY <1>1, DesksInvariant, PTL

\* letters.sign: the signature covers the letter on record where no render
\* overlaps.
THEOREM SignatureIsOfTheLetter == ASSUME Parameters PROVE DesksSpec => []SignatureCoversTheLetter
<1>1. IInv => SignatureCoversTheLetter
  BY SameSamples
     DEF IInv, SP!IInv, SP!RendersAlone, SP!Lettered, SP!SignatureCoversTheLetter,
         SignatureCoversTheLetter
<1>2. QED
  BY <1>1, DesksInvariant, PTL

\* apply_publish_gate, assert_publishable: at the settings of MCDesks what is
\* published complies, and so does what is changed while it is public.
THEOREM WhatIsPublishedComplies == ASSUME Parameters PROVE DesksSpec => PublishedIsCompliant
<1>1. IInv /\ [DesksNext]_desks => MP!Published
  BY SettingsAreWorlds, SameModeration, MP!StepPublishes
     DEF IInv, DesksNext, AtVerification, desks, moderation
<1>2. MP!Published =>
        [/\ market.enforced
         /\ \A door \in {"edit", "photo", "files"} : {"edit", door} \notin market.overlap
         /\ market.lapses => market.overlap = {}
         /\ item'.status = "approved"
         /\ item.status # "approved" \/ item'.version # item.version
         => M!Compliant(item'.risky)]_(M!vars)
  BY DEF MP!Published, MP!Guarded, MP!Savings, MP!Compliant, M!Compliant
<1>3. QED
  BY <1>1, <1>2, DesksInvariant, PTL DEF DesksSpec, PublishedIsCompliant, M!PublishedIsCompliant

=============================================================================
