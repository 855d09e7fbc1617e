--------------------------- MODULE ContractSigning ---------------------------
(****************************************************************************)
(* A contract between two companies, the outbox, and the deal that follows.  *)
(*                                                                           *)
(* app/domains/contracts never writes to a deals table: a contract handler   *)
(* commits its change together with a domain_events row, the dispatcher      *)
(* (app/tasks/events.py) hands the row to Celery consumers, and those        *)
(* (app/tasks/deals.py) move the deal, but only from the status they expect. *)
(*                                                                           *)
(* A handler loads the contract, checks the copy it loaded and commits       *)
(* later.  Only `sign` and `activate_from_provider` lock the row, and the    *)
(* lock does not refresh the copy (no populate_existing), so what they       *)
(* decide about the STATUS is as old as the load; what they query afresh     *)
(* under the lock is the SIGNATURES.                                         *)
(****************************************************************************)
EXTENDS DealRules, Sequences, Naturals

CONSTANTS
  Contracts,   \* contract ids
  Sessions,    \* concurrent database sessions
  Worlds,      \* the schedules to consider, see World
  MaxRenders   \* bound: renders of one contract's document

\* A schedule: the doors whose sessions may overlap, and whether the consumers
\* are calm, that is run in the order of the events and never fail.
Doors == {"create", "edit", "send", "decline", "cancel", "expire", "sign", "provider"}

\* The doors that move the status without a lock on the row.
Unlocked == {"send", "decline", "cancel", "expire"}

World == [overlap : SUBSET Doors, calm : BOOLEAN]

ASSUME WorldsAssumption == Worlds \subseteq World

ASSUME MaxRendersAssumption == MaxRenders \in Nat \ {0}

VARIABLES
  world,       \* the schedule of this behaviour, fixed at the start
  contract,    \* [Contracts -> contract]: contracts and contract_signatures
  challenge,   \* sign challenges in Redis, as the render they are bound to
  sess,        \* [Sessions -> session]
  outbox,      \* domain_events of these contracts, in id order
  tasks,       \* indices of the outbox with a consumer task in the broker
  deal         \* the deal: status, and the contract it points at

vars == <<world, contract, challenge, sess, outbox, tasks, deal>>

Sides == {"initiator", "counterparty"}

Other(p) == IF p = "initiator" THEN "counterparty" ELSE "initiator"

Rails == {"eimzo", "didox"}

Statuses ==
  {"none", "draft", "pending_signatures", "active", "declined", "cancelled", "expired"}

\* _TRANSITIONS: the four statuses no pair leaves are final.
Transitions ==
  {<<"draft", "pending_signatures">>, <<"draft", "cancelled">>}
  \cup ({"pending_signatures"} \X {"active", "declined", "cancelled", "expired"})

Final == {"active", "declined", "cancelled", "expired"}

\* doc       the render document_sha256 is the hash of
\* signed    by each side, the render its signature covers, 0 if it has none
\* evidence  a provider's archive was recorded (audit contract.activated_from_provider)
\* stamped   activated_at IS NOT NULL
Contract ==
  [ status : Statuses, rail : Rails, doc : 0..MaxRenders,
    signed : [Sides -> 0..MaxRenders], evidence : BOOLEAN, stamped : BOOLEAN ]

Drafted(rail) ==
  [ status |-> "draft", rail |-> rail, doc |-> 1,
    signed |-> [p \in Sides |-> 0], evidence |-> FALSE, stamped |-> FALSE ]

NoContract == [Drafted("eimzo") EXCEPT !.status = "none", !.doc = 0]

Events == [kind : {"sent", "activated", "closed"}, c : Contracts, new : BOOLEAN]

\* by    the side, or "system" for a task
\* seen  the contract as it was when the session loaded it
\* step  "loaded", then "verified" once a sign has consumed its challenge
Session ==
  [ door : Doors, c : Contracts, by : Sides \cup {"system"}, seen : Contract,
    step : {"loaded", "verified"} ]

Idle == [door |-> "none"]

TypeOK ==
  /\ world \in Worlds
  /\ contract \in [Contracts -> Contract]
  /\ challenge \in [Contracts -> [Sides -> 0..MaxRenders]]
  /\ sess \in [Sessions -> Session \cup {Idle}]
  /\ outbox \in Seq(Events)
  /\ tasks \subseteq DOMAIN outbox
  /\ deal \in [status : DealStatuses, contract : SUBSET Contracts]

Init ==
  /\ world \in Worlds
  /\ contract = [c \in Contracts |-> NoContract]
  /\ challenge = [c \in Contracts |-> [p \in Sides |-> 0]]
  /\ sess = [s \in Sessions |-> Idle]
  /\ outbox = <<>>
  /\ tasks = {}
  /\ deal = [status |-> "negotiation", contract |-> {}]

Busy(s) == sess[s] # Idle

MayOverlap(door) ==
  \A s \in Sessions : Busy(s) => {door, sess[s].door} \subseteq world.overlap

Emit(kind, c) == outbox' = Append(outbox, [kind |-> kind, c |-> c, new |-> TRUE])

-----------------------------------------------------------------------------
(* A session begins: the handler loads the contract and checks the copy.     *)

Signatures(k) == { p \in Sides : k.signed[p] # 0 }

Loaded(door, c, by) ==
  [door |-> door, c |-> c, by |-> by, seen |-> contract[c], step |-> "loaded"]

Begin(s, door, c, by) ==
  /\ ~Busy(s)
  /\ MayOverlap(door)
  /\ sess' = [sess EXCEPT ![s] = Loaded(door, c, by)]
  /\ UNCHANGED <<world, contract, challenge, outbox, tasks, deal>>

\* create_contract -> _link_to_deal -> attach_contract, one transaction: a deal
\* that already points at a contract refuses a second one.
BeginCreate(s, c) ==
  /\ contract[c].status = "none"
  /\ \A t \in Sessions : Busy(t) => sess[t].c # c
  /\ deal.contract = {}
  /\ Begin(s, "create", c, "initiator")

\* Fault: terms can be edited until the contract is active.
BeginEdit_UntilActive(s, c) ==
  /\ contract[c].status \in {"draft", "pending_signatures"}
  /\ contract[c].doc < MaxRenders
  /\ Begin(s, "edit", c, "initiator")

\* update_variables: terms are edited in a draft only.
BeginEdit(s, c) ==
  /\ contract[c].status = "draft"
  /\ contract[c].doc < MaxRenders
  /\ Begin(s, "edit", c, "initiator")

BeginSend(s, c) ==
  /\ <<contract[c].status, "pending_signatures">> \in Transitions
  /\ Begin(s, "send", c, "initiator")

BeginDecline(s, c) ==
  /\ <<contract[c].status, "declined">> \in Transitions
  /\ Begin(s, "decline", c, "counterparty")

\* cancel counts the signatures when it is called, and takes no lock.
BeginCancel(s, c) ==
  /\ Signatures(contract[c]) = {}
  /\ <<contract[c].status, "cancelled">> \in Transitions
  /\ Begin(s, "cancel", c, "initiator")

\* expire_stale_contracts: any pending contract grows stale with time.
BeginExpire(s, c) ==
  /\ <<contract[c].status, "expired">> \in Transitions
  /\ Begin(s, "expire", c, "system")

\* Fault: a signature is accepted whatever the contract's status.
BeginSign_AnyStatus(s, c, p) ==
  /\ contract[c].status # "none"
  /\ Begin(s, "sign", c, p)

BeginSign(s, c, p) ==
  /\ contract[c].status = "pending_signatures"
  /\ Begin(s, "sign", c, p)

\* activate_from_provider refuses the other rail; a contract that is active
\* already has nothing to add, and any other status is refused.
BeginProvider(s, c) ==
  /\ contract[c].rail = "didox"
  /\ contract[c].status = "pending_signatures"
  /\ Begin(s, "provider", c, "system")

-----------------------------------------------------------------------------
(* Sign challenges                                                           *)

\* issue_sign_challenge replaces the side's challenge (SETEX).
IssueChallenge(c, p) ==
  /\ contract[c].status = "pending_signatures"
  /\ challenge' = [challenge EXCEPT ![c][p] = contract[c].doc]
  /\ UNCHANGED <<world, contract, sess, outbox, tasks, deal>>

ChallengeLapses(c, p) ==
  /\ challenge[c][p] # 0
  /\ challenge' = [challenge EXCEPT ![c][p] = 0]
  /\ UNCHANGED <<world, contract, sess, outbox, tasks, deal>>

\* sign consumes the challenge before it looks at it (GETDEL), so a signature
\* that is then refused has spent it.
TakeChallenge(s) ==
  LET z == sess[s]
  IN  /\ z.door = "sign" /\ z.step = "loaded"
      /\ challenge' = [challenge EXCEPT ![z.c][z.by] = 0]
      /\ \/ /\ challenge[z.c][z.by] # 0
            /\ challenge[z.c][z.by] = z.seen.doc
            /\ sess' = [sess EXCEPT ![s].step = "verified"]
         \/ sess' = [sess EXCEPT ![s] = Idle]   \* no challenge, or a bad PKCS#7
      /\ UNCHANGED <<world, contract, outbox, tasks, deal>>

-----------------------------------------------------------------------------
(* A session commits what it changed; the rest of the row is whatever is     *)
(* committed by then.                                                        *)

Done(s) == sess' = [sess EXCEPT ![s] = Idle]

\* A crash, a database error, a refusal after the load: nothing is written.
Rollback(s) ==
  /\ Busy(s)
  /\ Done(s)
  /\ UNCHANGED <<world, contract, challenge, outbox, tasks, deal>>

FinishCreate(s) ==
  LET c == sess[s].c
  IN  /\ sess[s].door = "create"
      /\ \E rail \in Rails : contract' = [contract EXCEPT ![c] = Drafted(rail)]
      /\ deal' = [deal EXCEPT !.contract = {c}]
      /\ Done(s)
      /\ UNCHANGED <<world, challenge, outbox, tasks>>

\* Every render has a new hash: the document carries the time it was made.
FinishEdit(s) ==
  LET c == sess[s].c
  IN  /\ sess[s].door = "edit"
      /\ contract[c].doc < MaxRenders
      /\ contract' = [contract EXCEPT ![c].doc = @ + 1]
      /\ Done(s)
      /\ UNCHANGED <<world, challenge, outbox, tasks, deal>>

\* Fault: an expired contract gets a status of its own.
Target_Lapsed ==
  [send |-> "pending_signatures", decline |-> "declined", cancel |-> "cancelled",
   expire |-> "lapsed"]

\* What each of the plain moves writes, and the event that goes with it.
Target ==
  [send |-> "pending_signatures", decline |-> "declined", cancel |-> "cancelled",
   expire |-> "expired"]

Move(s) ==
  LET z == sess[s]
  IN  /\ z.door \in DOMAIN Target
      /\ contract' = [contract EXCEPT ![z.c].status = Target[z.door]]
      /\ Emit(IF z.door = "send" THEN "sent" ELSE "closed", z.c)
      /\ Done(s)
      /\ UNCHANGED <<world, challenge, tasks, deal>>

Activated(k) == [k EXCEPT !.status = "active", !.stamped = TRUE]

\* Fault: one signature is enough.
Completes_OneSigner(z, k) == Signatures(k) # {}

\* Fault: the signers are those of the copy loaded before the lock, so each of
\* two overlapping signers misses the other.
Completes_Blind(z, k) == Signatures(z.seen) \cup {z.by} = Sides

\* _maybe_activate queries the signatures afresh: whoever completes the pair
\* activates.
Completes(z, k) == Signatures(k) = Sides

\* The signature covers the challenge, so the render the session saw.
AddSignature(z) == [contract[z.c] EXCEPT !.signed[z.by] = z.seen.doc]

\* Fault: nothing, neither the check nor the unique row, stops a company that
\* has signed from signing again.
MaySign_Again(z) == TRUE

\* Asked under the row lock, of the table: AlreadySigned.
MaySign(z) == z.by \notin Signatures(contract[z.c])

FinishSign(s) ==
  LET z == sess[s]
      k == AddSignature(z)
  IN  /\ z.door = "sign" /\ z.step = "verified"
      /\ MaySign(z)
      /\ contract' = [contract EXCEPT ![z.c] = IF Completes(z, k) THEN Activated(k) ELSE k]
      /\ IF Completes(z, k) THEN Emit("activated", z.c) ELSE UNCHANGED outbox
      /\ Done(s)
      /\ UNCHANGED <<world, challenge, tasks, deal>>

FinishProvider(s) ==
  LET c == sess[s].c
  IN  /\ sess[s].door = "provider"
      /\ contract' = [contract EXCEPT ![c] = [Activated(@) EXCEPT !.evidence = TRUE]]
      /\ Emit("activated", c)
      /\ Done(s)
      /\ UNCHANGED <<world, challenge, tasks, deal>>

-----------------------------------------------------------------------------
(* The outbox                                                                *)

Due == { i \in DOMAIN outbox : outbox[i].new }

\* dispatch_domain_events: a tick dispatches what is due and then stamps it.  A
\* consumer that cannot be enqueued, of this or of another subscriber of the
\* event, or a crash before the commit, leaves the event due: its consumers
\* will all be dispatched once more.
Dispatch(enqueued, stamped) ==
  /\ Due # {}
  /\ stamped \subseteq enqueued
  /\ tasks' = tasks \cup enqueued
  /\ outbox' = [i \in DOMAIN outbox |-> [outbox[i] EXCEPT !.new = @ /\ i \notin stamped]]
  /\ UNCHANGED <<world, contract, challenge, sess, deal>>

\* A tick in which nothing fails.
CleanTick == Dispatch(Due, Due)

Tick ==
  \/ CleanTick
  \/ ~world.calm /\ \E enqueued \in SUBSET Due, stamped \in SUBSET Due : Dispatch(enqueued, stamped)

\* Fault: CONTRACT_SENT looks for a deal that waits for a contract already.
Leads_SentIgnored ==
  [sent |-> [to |-> "contract_pending", expect |-> "contract_pending"],
   activated |-> [to |-> "contract_signed", expect |-> "contract_pending"],
   closed |-> [to |-> "negotiation", expect |-> "contract_pending"]]

\* Fault: the consumers of the activation and of the rejection are exchanged.
Leads_Exchanged ==
  [sent |-> [to |-> "contract_pending", expect |-> "negotiation"],
   activated |-> [to |-> "negotiation", expect |-> "contract_pending"],
   closed |-> [to |-> "contract_signed", expect |-> "contract_pending"]]

\* Where each event takes the deal, and from where.
Leads ==
  [sent |-> [to |-> "contract_pending", expect |-> "negotiation"],
   activated |-> [to |-> "contract_signed", expect |-> "contract_pending"],
   closed |-> [to |-> "negotiation", expect |-> "contract_pending"]]

\* _advance: the deal of the contract, moved only from the expected status.
Advanced(e) ==
  IF /\ e.c \in deal.contract
     /\ deal.status = Leads[e.kind].expect
     /\ <<deal.status, Leads[e.kind].to>> \in VALID_TRANSITIONS
     /\ MayDrive("system", deal.status, Leads[e.kind].to)
  THEN [deal EXCEPT !.status = Leads[e.kind].to] ELSE deal

\* The two workers take tasks in any order, unless the world is calm.
MayRun(i) ==
  /\ i \in tasks
  /\ world.calm => \A j \in tasks \cup Due : i <= j

\* The consumer commits and acknowledges the task.
Consume(i) ==
  /\ MayRun(i)
  /\ deal' = Advanced(outbox[i])
  /\ tasks' = tasks \ {i}
  /\ UNCHANGED <<world, contract, challenge, sess, outbox>>

\* Acknowledged late: a worker that dies after its commit leaves the task.
ConsumeUnacked(i) ==
  /\ ~world.calm
  /\ MayRun(i)
  /\ deal' = Advanced(outbox[i])
  /\ UNCHANGED <<world, contract, challenge, sess, outbox, tasks>>

\* _advance swallows every exception: the task is gone and the event published.
ConsumerFails(i) ==
  /\ ~world.calm
  /\ MayRun(i)
  /\ tasks' = tasks \ {i}
  /\ UNCHANGED <<world, contract, challenge, sess, outbox, deal>>

\* A party cancels the deal (the other moves of the deal are DealEscrow's).
PartyCancelsDeal ==
  /\ <<deal.status, "cancelled">> \in VALID_TRANSITIONS
  /\ deal' = [deal EXCEPT !.status = "cancelled"]
  /\ UNCHANGED <<world, contract, challenge, sess, outbox, tasks>>

-----------------------------------------------------------------------------

Begins(s) ==
  \E c \in Contracts :
    \/ BeginCreate(s, c)
    \/ BeginEdit(s, c)
    \/ BeginSend(s, c)
    \/ BeginDecline(s, c)
    \/ BeginCancel(s, c)
    \/ BeginExpire(s, c)
    \/ \E p \in Sides : BeginSign(s, c, p)
    \/ BeginProvider(s, c)

Goes(s) ==
  \/ Rollback(s)
  \/ FinishCreate(s)
  \/ FinishEdit(s)
  \/ Move(s)
  \/ TakeChallenge(s)
  \/ FinishSign(s)
  \/ FinishProvider(s)

Next ==
  \/ \E s \in Sessions : Begins(s) \/ Goes(s)
  \/ \E c \in Contracts, p \in Sides : IssueChallenge(c, p) \/ ChallengeLapses(c, p)
  \/ Tick
  \/ \E i \in DOMAIN outbox : Consume(i) \/ ConsumeUnacked(i) \/ ConsumerFails(i)
  \/ PartyCancelsDeal

\* The beat ticks every 15 seconds, and the workers keep taking tasks.
Fairness ==
  /\ WF_vars(CleanTick)
  /\ WF_vars(\E i \in tasks : Consume(i))

Spec == Init /\ [][Next]_vars /\ Fairness

-----------------------------------------------------------------------------
(* Properties                                                                *)

\* A contract is stamped activated (service._maybe_activate and
\* activate_from_provider, whatever sessions overlap) only on evidence: both
\* companies' signatures, or a provider's archive on the rail of that provider.
ActivationIsEarned ==
  \A c \in Contracts :
    contract[c].stamped =>
      \/ Signatures(contract[c]) = Sides
      \/ contract[c].evidence /\ contract[c].rail = "didox"

\* Two signers at the same moment: the row lock makes the second see the first,
\* so whoever is second activates, and no pair of signatures is left pending.
PairActivates ==
  \A c \in Contracts : Signatures(contract[c]) = Sides => contract[c].stamped

\* service.py: "two concurrent final signatures activate exactly once": on the
\* E-IMZO rail one CONTRACT_ACTIVATED is ever emitted.
ActivatesOnce ==
  \A c \in Contracts :
    contract[c].rail = "eimzo" =>
      \A i, j \in DOMAIN outbox :
        /\ outbox[i].c = c /\ outbox[i].kind = "activated"
        /\ outbox[j].c = c /\ outbox[j].kind = "activated"
        => i = j

\* What the two companies signed is the contract's document, as long as no edit
\* overlaps (the challenge is bound to the hash, and a draft only is edited).
SignaturesCoverTheDocument ==
  "edit" \notin world.overlap =>
    \A c \in Contracts, p \in Sides :
      contract[c].signed[p] \in {0, contract[c].doc}

\* A deal counts as contracted only when the contract it points at was
\* activated, whatever order, repetition or loss the events suffer, as long as
\* no two contracts are created for it at once.
ContractedDealHasItsContract ==
  "create" \notin world.overlap =>
    (deal.status = "contract_signed" =>
       \E c \in deal.contract : contract[c].stamped)

\* The session s may overwrite the final status of c: its copy is older than
\* that status, some door that takes no lock may overlap, and where the status
\* is "active" the session itself came through such a door.
MayOverwrite(s, c) ==
  /\ sess[s].c = c
  /\ sess[s].seen.status \notin Final
  /\ world.overlap \cap Unlocked # {}
  /\ contract[c].status = "active" => sess[s].door \in Unlocked

\* A final status is final (_TRANSITIONS), but for the overwrites that send,
\* decline, cancel and expire make possible by taking no lock.  The doors with
\* a lock decide on stale copies too, and yet never undo an activation; and
\* where the unlocked doors run alone no final status ever changes.
FinalUnlessOverwritten ==
  [][\A c \in Contracts :
       contract[c].status \in Final /\ contract'[c].status # contract[c].status =>
         \E s \in Sessions : Busy(s) /\ MayOverwrite(s, c)]_vars

\* With calm consumers an activated contract carries its deal out of the
\* contract stage: nobody has to push it.
ActivationReachesTheDeal ==
  \A c \in Contracts :
    (world.calm /\ world.overlap = {} /\ contract[c].status = "active")
      ~> deal.status \notin {"negotiation", "contract_pending"}

\* service.WrongRail: "Neither door may open the other's contract", so a
\* contract of the Didox rail is activated by the provider's evidence.
RailOpensItsOwn ==
  \A c \in Contracts :
    contract[c].stamped /\ contract[c].rail = "didox" => contract[c].evidence

=============================================================================
