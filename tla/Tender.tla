-------------------------------- MODULE Tender --------------------------------
(****************************************************************************)
(* A buyer's tender and the suppliers' quotes: app/domains/requests,         *)
(* app/domains/deals/rfq.py and deals/service.open_deal_from_response.       *)
(*                                                                           *)
(* Every handler loads its rows, checks the copies it loaded and commits     *)
(* later.  Accepting a quote locks the request row, but the lock does not    *)
(* refresh the copy loaded before it: under the lock only the other quotes   *)
(* are read afresh.                                                          *)
(****************************************************************************)
EXTENDS Sequences, Naturals

CONSTANTS
  Suppliers,  \* supplier companies
  Quotes,     \* ids of rfq_responses rows
  Sessions,   \* concurrent database sessions
  Worlds      \* the sets of doors whose sessions may overlap: subsets of Doors

Doors == {"submit", "withdraw", "accept", "cancel", "staff"}

VARIABLES
  world,    \* the doors that may overlap in this behaviour
  request,  \* requests.status
  quote,    \* [Quotes -> quote]: rfq_responses
  deals,    \* the deals opened from this tender, in order
  sess      \* [Sessions -> session]

vars == <<world, request, quote, deals, sess>>

RequestStatuses ==
  {"new", "viewed", "in_progress", "offer_sent", "matched", "closed", "cancelled"}

\* VALID_TRANSITIONS
Transitions ==
  ({"new"} \X {"viewed", "offer_sent", "matched"})
  \cup ({"viewed"} \X {"in_progress", "offer_sent", "matched"})
  \cup ({"in_progress"} \X {"offer_sent", "matched", "closed", "cancelled"})
  \cup ({"offer_sent"} \X {"matched", "closed", "cancelled"})
  \cup {<<"matched", "closed">>}

\* OPEN_STATUSES, and _CLIENT_CANCELLABLE: the same four.
Open == {"new", "viewed", "in_progress", "offer_sent"}

QuoteStatuses == {"none", "submitted", "withdrawn", "accepted", "not_selected"}

Quote == [by : Suppliers, status : QuoteStatuses \ {"none"}]

NoQuote == [status |-> "none"]

\* What stands for the quote and the supplier where a session is about neither.
Nothing == "nothing"

\* request, quote   the rows as the session loaded them
\* to      the status a member of staff asked for
\* losers  the quotes an accept found standing, once it holds the request lock
Session ==
  [ door : Doors, q : Quotes \cup {Nothing}, by : Suppliers \cup {Nothing},
    request : RequestStatuses, to : RequestStatuses, step : {"loaded", "locked"}, losers : SUBSET Quotes ]

Idle == [door |-> "none"]

TypeOK ==
  /\ world \in Worlds
  /\ request \in RequestStatuses
  /\ quote \in [Quotes -> Quote \cup {NoQuote}]
  /\ deals \in Seq([q : Quotes, tender : RequestStatuses])
  /\ sess \in [Sessions -> Session \cup {Idle}]

Init ==
  /\ world \in Worlds
  /\ request = "new"
  /\ quote = [q \in Quotes |-> NoQuote]
  /\ deals = <<>>
  /\ sess = [s \in Sessions |-> Idle]

Busy(s) == sess[s] # Idle

MayOverlap(door) == \A s \in Sessions : Busy(s) => {door, sess[s].door} \subseteq world

\* SELECT ... FOR UPDATE on the request: its other writers wait, and so does the
\* insert of a quote, whose foreign key takes a share lock of it.
RequestLocked == \E s \in Sessions : Busy(s) /\ sess[s].step = "locked"

-----------------------------------------------------------------------------
(* A session begins: the rows are loaded and the copies checked.             *)

Begin(s, door, q, by, to) ==
  /\ ~Busy(s)
  /\ MayOverlap(door)
  /\ sess' = [sess EXCEPT ![s] =
       [ door |-> door, q |-> q, by |-> by, request |-> request, to |-> to,
         step |-> "loaded", losers |-> {} ]]
  /\ UNCHANGED <<world, request, quote, deals>>

\* rfq.submit: RequestNotOpen
BeginSubmit(s, q, by) ==
  /\ quote[q] = NoQuote
  /\ \A t \in Sessions : Busy(t) => sess[t].q # q
  /\ request \in Open
  /\ Begin(s, "submit", q, by, "offer_sent")

\* rfq.withdraw: ResponseNotOpen
BeginWithdraw(s, q) ==
  /\ quote[q].status = "submitted"
  /\ Begin(s, "withdraw", q, quote[q].by, request)

\* open_deal_from_response judges the quote and the tender by the copies the
\* route loaded, before its FOR UPDATE.
BeginAccept(s, q) ==
  /\ quote[q].status = "submitted"
  /\ <<request, "matched">> \in Transitions
  /\ Begin(s, "accept", q, quote[q].by, "matched")

\* cancel_request, beside the staff's machine
BeginCancel(s) ==
  /\ request \in Open
  /\ Begin(s, "cancel", Nothing, Nothing, "cancelled")

\* transition_status for staff; opening a new request marks it viewed.
BeginStaff(s, to) ==
  /\ <<request, to>> \in Transitions
  /\ Begin(s, "staff", Nothing, Nothing, to)

-----------------------------------------------------------------------------
(* A session commits.                                                        *)

Done(s) == sess' = [sess EXCEPT ![s] = Idle]

\* An error or a refusal after the load: nothing is written.
Rollback(s) ==
  /\ Busy(s)
  /\ Done(s)
  /\ UNCHANGED <<world, request, quote, deals>>

\* uq_rfq_response_active: a quote that was not withdrawn holds its supplier's slot.
SlotFree(by) == \A q \in Quotes : quote[q] # NoQuote /\ quote[q].by = by => quote[q].status = "withdrawn"

\* The quote, and the tender that has one now, judged by the copy.
FinishSubmit(s) ==
  LET z == sess[s]
  IN  /\ z.door = "submit"
      /\ ~RequestLocked
      /\ SlotFree(z.by)
      /\ quote' = [quote EXCEPT ![z.q] = [by |-> z.by, status |-> "submitted"]]
      /\ request' = IF z.request = "offer_sent" THEN request ELSE "offer_sent"
      /\ Done(s)
      /\ UNCHANGED <<world, deals>>

FinishWithdraw(s) ==
  LET z == sess[s]
  IN  /\ z.door = "withdraw"
      /\ quote' = [quote EXCEPT ![z.q].status = "withdrawn"]
      /\ Done(s)
      /\ UNCHANGED <<world, request, deals>>

\* Fault: the accept does not look for a winner under its lock.
NoWinnerYet_Unasked == TRUE

\* ResponseAlreadyAccepted
NoWinnerYet == \A q \in Quotes : quote[q].status # "accepted"

\* Fault: the quotes that lose are left standing.
Losers_None(q) == {}

Losers(q) == { o \in Quotes \ {q} : quote[o].status = "submitted" }

LockTender(s) ==
  LET z == sess[s]
  IN  /\ z.door = "accept" /\ z.step = "loaded"
      /\ ~RequestLocked
      /\ NoWinnerYet
      /\ sess' = [sess EXCEPT ![s].step = "locked", ![s].losers = Losers(z.q)]
      /\ UNCHANGED <<world, request, quote, deals>>

FinishAccept(s) ==
  LET z == sess[s]
  IN  /\ z.door = "accept" /\ z.step = "locked"
      /\ deals' = Append(deals, [q |-> z.q, tender |-> request])
      /\ quote' = [q \in Quotes |->
           IF q = z.q THEN [quote[q] EXCEPT !.status = "accepted"]
           ELSE IF q \in z.losers THEN [quote[q] EXCEPT !.status = "not_selected"]
           ELSE quote[q]]
      /\ request' = "matched"
      /\ Done(s)
      /\ UNCHANGED world

\* The buyer's cancel and the staff's move.
FinishMove(s) ==
  LET z == sess[s]
  IN  /\ z.door \in {"cancel", "staff"}
      /\ ~RequestLocked
      /\ request' = z.to
      /\ Done(s)
      /\ UNCHANGED <<world, quote, deals>>

-----------------------------------------------------------------------------

Begins(s) ==
  \/ \E q \in Quotes, by \in Suppliers : BeginSubmit(s, q, by)
  \/ \E q \in Quotes : BeginWithdraw(s, q) \/ BeginAccept(s, q)
  \/ BeginCancel(s)
  \/ \E to \in RequestStatuses : BeginStaff(s, to)

Goes(s) ==
  \/ Rollback(s)
  \/ FinishSubmit(s)
  \/ FinishWithdraw(s)
  \/ LockTender(s)
  \/ FinishAccept(s)
  \/ FinishMove(s)

Next == \E s \in Sessions : Begins(s) \/ Goes(s)

Spec == Init /\ [][Next]_vars

-----------------------------------------------------------------------------
(* Properties                                                                *)

\* open_deal_from_response: "One RFQ yields one deal": the request lock makes a
\* second accept see the first one's winner, whoever else quotes, cancels or
\* triages meanwhile.  (A withdrawal that overlaps can take the winner away.)
OneWinner == "withdraw" \notin world => Len(deals) <= 1

\* Choosing a winner retires every competing quote, also those the buyer never
\* saw, as long as no new quote is on its way in.
LosersAreRetired ==
  world \cap {"submit", "staff"} = {} /\ deals # <<>> =>
    \A q \in Quotes : quote[q].status # "submitted"

\* No deal is opened on a tender that was over when it was opened.
DealsOnOpenTenders ==
  \A i \in DOMAIN deals : <<deals[i].tender, "matched">> \in Transitions

=============================================================================
