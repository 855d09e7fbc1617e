# Polymer Intelligence: a verification development

TLA+ models of the trade flow of the polymer market platform (`src/backend/app`): a buyer's **tender** and the quotes on
it, the **deal**, its **contract** and the paper at the EDI operator, the **escrow payment** behind it, and the desks
around them: company verification, marketplace moderation, samples. TLC checks small instances; TLAPS proves the central
invariants for any number of deals, callbacks, contracts, quotes and sessions.

Line references are to `backend/app/...` at the modelled commit. `PROJECT.json` maps every definition to its lines.

## 1. The system

A FastAPI application over PostgreSQL (SQLAlchemy 2), Celery workers with a beat schedule, Redis, and three web front
ends plus a Telegram bot that only call the API. Business code is in `app/domains/*`: each domain has a `service.py`
that changes rows and never commits, and routers or tasks that open a session, call it and commit.

| Component | State it keeps | Operations | What makes it correct | Here |
|---|---|---|---|---|
| Deal machine (`domains/deals/service.py`) | `deals.status`, `deal_status_history`, contract and origin of the deal | open (three ways), transition, attach contract | only moves of the table, by those entitled; one unbroken history | modelled, but for attaching a contract |
| Escrow (`domains/deals/escrow.py`) | `escrow_payments`: status, rail, bank reference | open, mark (operator, bank, seller), settle | money and deal never part; nobody is exposed on the escrow rails | modelled |
| Provider events (`escrow.py`, `api_webhooks.py`, `tasks/payments.py`) | `provider_events` inbox, broker queue | record, apply, sweep, reconcile | applied once, decided always, decided once | modelled |
| Outbox consumers (`tasks/deals.py`, `tasks/payments.py`) | none of their own | advance, roll back, open escrow | idempotent, order-tolerant | modelled, but for those that only notify |
| Outbox (`tasks/events.py`) | `domain_events` | emit, dispatch | nothing lost, at least once | modelled for the contract events |
| Contracts (`domains/contracts`) | contract status, signatures, challenge in Redis | create, edit, send, sign, decline, cancel, expire, activate | active iff both signed; an end is an end | modelled, but for the upload of a paper |
| RFQ and requests (`deals/rfq.py`, `requests/service.py`) | responses, request status | submit, withdraw, accept, cancel, triage | one winner; no deal on a cancelled request | modelled |
| Marketplace (`marketplace`) | offers, inquiries | create, edit, publish gate, claim, moderate, archive | nothing public unseen or unlicensed | modelled, but for the inquiry's answer |
| Verification (`verification`) | cases, checks, attempts | submit, run, retry, evaluate, decide | a case is decided once and never stuck | modelled, one open case |
| Samples (`lab_orders`) | request rows, letter, challenge | request, move, sign letter, open a deal | one live request; the letter on record is the one signed | modelled, but for lab orders |
| EDI (`edi`, `integrations/didox`) | document status per operator | create, sign, read, poll | contract activated on evidence only; a signed paper is noticed | modelled, the operator abstract |
| Logistics, manufacturers, technologists, sourcing | request rows | short machines like samples | as samples | not modelled |
| Companies, accounts | membership, company status | edit, suspend, reinstate | last owner, verified flags | suspension, in moderation |
| Numbering, circuit breaker | sequence; failure window | draw; record, probe | unique; open when it should be | not modelled |
| Sessions, rate limits | Redis keys | rotate, count | one successor | not modelled |
| Notifications, alerts | unread rows | notify | best effort | not modelled: output only |
| Ingest, parsing, signals, news, pricing, analytics | raw items, signals | fetch, parse, score | idempotent rows | not modelled: external sites and a language model |
| Front ends, bot, settings, storage, audit | – | – | – | not modelled: I/O |

How they meet: `deals` never calls `contracts`. A contract that is sent, signed by both or closed emits an event; the
dispatcher (every 15 s) hands it to a Celery consumer that moves the deal, only from the status it expects. The
transition to `contract_signed` is itself an event whose consumer opens the escrow. A bank callback is written to the
inbox and committed before a task is enqueued for it; a sweeper (every 5 minutes) and a poller catch what gets lost.

What is hard: the two-way recursion of the core (`transition` → `settle_direct` → `_apply_mark` → `_drag_the_deal` →
`transition`, all in one transaction); four doors that move the same money; delivery that repeats, reorders and loses;
and row locks taken on objects that were loaded before the lock. The desks around the deal share rows with it only where a deal is opened: an accepted quote, a
received sample, an answered inquiry. Why a part is left out is said in section 6.

## 2. Modules

| Module | Models | Correspondence |
|---|---|---|
| `DealRules` | `VALID_TRANSITIONS`, `_ACTOR_RULES`, `DIRECT_ONLY`, `allowed_actors`, `_TRANSITIONS`, `_DEAL_EFFECT`, `AUTO_APPLIED`, `DIRECT_PAYABLE` | the tables, as sets of pairs |
| `EscrowLedger` | what one transaction does to one deal and its payment | a `Row` is the deal joined with its payment and history; `CanMove`/`Transitioned` is `transition`, `CanMark`/`Marked` is `_apply_mark` with the deal it drags, `Verdict`/`Applied` is `apply_provider_event`, `Listed` the operator queue |
| `DealEscrow` | every operation as one atomic step | `rows`, `inbox` (provider events of the webhook), `queued` (applier tasks in the broker), `polls` (events the poller synthesizes, by reference and status) |
| `DealSessions` | one deal, with sessions that run lock by lock | `row` is what is committed, `sess[s]` a session: the call, the `view` in its identity map, the row locks it holds |
| `EscrowPromise` | what the escrow promises, as one account per deal | abstract: `money`, `rail` and `fate` of a deal, with no bank, history or status |
| `DealEscrowProofs` | theorems about `DealEscrow`: its rows, its bank reports, and that it implements `EscrowPromise` | see section 5 |
| `SessionProofs` | theorems about `DealSessions`, and that it implements `DealEscrow` where sessions run alone | see section 5 |
| `ContractSigning` | one contract from draft to its end, the outbox, and the deal behind it | `contract` is the row with its signatures, `challenge` the Redis records, `sess[s]` a handler with the copy it loaded, `outbox` the `domain_events`, `tasks` the consumer tasks in the broker, `deal` what `tasks/deals.py` moves |
| `EdiDocuments` | the documents of one contract at the operator, and the rows that know of them | `rows` are `didox_documents`, `papers` the operator's documents, `sess[s]` a request or a poller pass between its calls; a status read may be out of date, and the partner reads "awaiting us" for "awaiting the partner" (`Reported`) |
| `Tender` | a tender, its quotes and the deals opened from it | `request`, `quote[q]`, `sess[s]` a handler with its copies, and under the lock the quotes it retires |
| `Verification` | a case, its checks, the tasks of the verify queue | `check[c]` with its attempts, `tasks` in the broker, `run[w]` a worker's task with the copy of the case that outlives `_run_check` where it raises |
| `Moderation` | an offer or an offer request: edits, gate, decision, suspension | `item` is the row with the version of its content, `screen[m]` what a moderator looks at |
| `Samples` | sample requests of one buyer on one offer, the letter, the deals opened | `sample[r]`, `challenge[r]`, `live` the number of live deals |
| `ContractProofs`, `EdiProofs`, `VerificationProofs`, `ModerationProofs`, `SamplesProofs` | theorems about the module of that name | see section 5 |
| `MCDealSessions`, `MCContractSigning`, `MCEdiDocuments` | instances for TLC | symmetry of the sessions; the worlds to consider |
| `MCDesks` | `Tender`, `Verification`, `Moderation` and `Samples` in one run | they share no row, so a behaviour chooses a desk and the others stay as they began |
| `DeskProofs` | theorems about `Tender`, and about the four desks at the settings of `MCDesks` | see section 5 |

`DealEscrow` implements `EscrowPromise` (`KeepsThePromise`), and `DealSessions` implements `DealEscrow` where one session runs at
a time: its commits are `DealEscrow` steps (`ImplementsDealEscrow`). Both are checked and proved. So `DealEscrow` says what the code promises when transactions do not overlap, and
`DealSessions` says how much of that is left when they do.

The newer modules have a variable `world` that no step changes: the doors whose sessions may overlap in this behaviour,
and where it matters a setting (`auto`, `enforced`, `calm`, the contract's kind). A property that the code keeps only while
certain doors do not overlap says so by naming `world`; section 4 says what happens when they do. One contract, one
tender, one case and one item are enough where each is: no handler reads or writes a second row of its kind, but for
those that are there (quotes, documents, sample requests, checks).

Definitions named `X_Something` after a definition `X`, each marked *Fault*, are plausible bugs of `X`. No specification
uses them; they document which mistake a property is there to catch.

### What is abstracted, and why it may be

* Amounts: `priced` says whether the deal has a total, `fits` whether the amount and currency the bank echoes match the
  invoice. Nothing in the code depends on the number itself.
* Reasons, notes, timestamps, audit rows, notifications and emitted events. A mandatory reason or note that is missing
  refuses the call, and a refused call changes nothing, so it is not a step.
* The rail of a new payment is any of the three: `ESCROW_MODE` is a runtime setting that may change at any time.
* `provider_ref` is written by no code in the repository; the live adapter that would write it does not exist yet.
  `AdapterNamesRef` stands for it (external in the map). Without it the bank half of the code would be unreachable.
* In `DealEscrow` and `DealSessions` an outbox consumer may run whenever its guard holds. That over-approximates loss,
  repetition and reordering of events and says nothing of whether they come; `ContractSigning` has the outbox itself.
* A session (`DealSessions`) reads what its handler reads before the first lock in one moment, and its commit is one
  step with taking the last lock. Its writes are invisible until the commit, so nothing can tell.
* `SELECT ... FOR UPDATE` on a row already in the identity map returns the loaded instance: SQLAlchemy does not overwrite
  loaded attributes without `populate_existing`, which the code never asks for. `LockDeal` and `LockPayment` therefore
  decide on `view`. The two exceptions are what the code really reads late: `is_direct` and `for_deal` in `transition`, and
  the deal in `apply_provider_event`, loaded by `_apply_mark` after the payment is locked.
* A flush updates the columns that differ from what was loaded (`Flushed`); the history rows are inserts.
* Inserting the payment shares the deal's row lock through its foreign key and is unique per deal, so `IssueInvoice`
  waits for the one and rolls back on the other.
* A document is the number of its render: two renders never have the same hash. A verified signature is an input that
  covers the render its challenge is bound to. Rendering, certificates, archives' bytes are left out.
* In `ContractSigning` a contract belongs to its deal from its creation; attaching another one is left out.
* The EDI operator climbs a ladder of statuses and does the calls it is asked for; it may do one and its answer be lost.
* What a verification check compares is left out: it passes, fails, or cannot tell. A moderated content is its version
  and whether it falls under the gate (`risky`).
* A reset of a row that a handler only adds to (timestamps, notes, audit rows) is left out as above.

## 3. Runs

In the deal modules `MaxTrips` limits disputes and contract rollbacks together, the only two cycles of the deal machine;
every other path is finite. `MaxLog` limits the history in `DealSessions`, whose overlapping sessions can repeat a move. One dispute
reaches every restore target; two callbacks are what it takes for two reports of one movement; two sessions are what it
takes for a race. One race found needs three sessions (section 4, moderation); for the safety properties that hold, the
theorems of section 5 cover any number.

| Run | Instance | Shows |
|---|---|---|
| `money` | 1 deal, 1 callback, 2 trips at most | the invariants of the deal and its money, and that they implement `EscrowPromise`, 3.9 M states |
| `callbacks` | 1 deal, 2 callbacks, no trips | at most one report of a movement is applied; a verdict is final; every recorded callback gets one |
| `sessions_serial` | 1 session | `DealSessions` implements `DealEscrow` |
| `sessions_bank` | 2 sessions on the bank's door, 2 callbacks | the bank's door keeps one history and moves money once, overlap or not |
| `sessions_overlap` | 2 sessions on all doors, no callbacks | what holds even so, and that every session ends |
| `contracts` | 1 contract, 2 renders, 2 sessions, four worlds: one handler at a time with calm consumers; all doors but create and edit overlapping; the two doors with a lock overlapping; events repeated, reordered and lost | what a contract stands for, and that the deal follows it |
| `edi` | 1 contract, 2 sessions; 3 documents with one session at a time (one-off and framework), 2 documents with overlapping sessions | nothing is active without its paper, and a signed paper is noticed |
| `desks` | 2 suppliers and 3 quotes; 3 checks, 2 workers, 2 submits, 2 faults, 2 attempts, seven settings (undisturbed, automatic approval, waivers, recorded checks, faults, a raising provider, a fast broker); 1 moderator, 3 versions; 2 sample requests, 2 renders; 2 sessions; 570 000 states | the properties of the four desks |
| `paid_escrow_unpaid`, `stale_tender`, `rail_crossed`, `orphan_document` | the smallest that shows it | section 4 |

Why the bounds of the newer runs are enough. A contract's two renders are the one that is signed and a later one; its third
could only repeat the second. Three quotes of two suppliers are a winner, a loser and a quote that takes the place of a
withdrawn one. Three documents are the contract's, its specification's and an invoice, or a document and its successors
after two deletions. `MaxTries` is 2 where the code has `MAX_CHECK_ATTEMPTS` 5: a check is then a first, a middle and
an exhausted attempt, which is all that the comparison tells apart. Two submits are what it takes for a task of the checks
that were replaced. Three versions of a content are one seen, one edited meanwhile and one edited after that. Two sample
requests compete for one slot. In `MCDesks` each list of worlds names the overlaps that a property depends on; a world in
which everything overlaps at once adds states and no further property.

`CHECK_DEADLOCK` is off: a deal, a contract, a case that is decided has nowhere to go.

Properties of `DealEscrow`:

* `MoneyEndsWithTheDeal`: completed exactly when paid out; a refund always ended the deal.
* `DirectDealSettles`: a direct deal never rests both paid and received, whichever came last.
* `EscrowProtectsSeller`: off the direct rail, a deal that was never disputed is shipped and delivered only with the
  money in escrow. (With a dispute it is not so: see `PaidEscrowIsFunded` below.)
* `EscrowProtectsBuyer`: money is paid out only right after a delivery the buyer confirmed or staff restored.
* `AppliedIsRecorded`: a movement applied for the bank is on a live payment and stays there.
* `KeepsThePromise`: seen as an account (`AccountOf`), the deal does only what `EscrowPromise` allows: money is held once and
  leaves once, paid out for received goods together with the deal's completion, or returned together with its cancellation.
* `CallbackAppliedOnce`, `DecidedStaysDecided`, `EveryCallbackDecided`: the inbox.

Of `DealSessions`: `HistoryEndsAtStatus`, `RailIsFrozen`, `EverySessionEnds` with every door open; `HistoryChains` and
`MoneyMovesOnce` for the bank's door.

Of `ContractSigning`:

* `ActivationIsEarned`: whatever overlaps, a contract is stamped activated on both signatures or on the provider's archive.
* `PairActivates`, `ActivatesOnce`: of two signers at one moment the second activates, and only one of them does.
* `SignaturesCoverTheDocument`: what was signed is the document on record, although the challenge is taken before the lock.
* `ContractedDealHasItsContract`: whatever order, repetition or loss of events, a contracted deal has an activated contract.
* `FinalUnlessOverwritten`: declined, cancelled, expired and active are ends. Whatever doors overlap, such a status changes
  only by a session whose copy is older than it, only where `send`, `decline`, `cancel` or `expire` (which take no lock)
  overlaps, and an activation only through one of these four: a signer or the provider never undoes it, however stale.
* `ActivationReachesTheDeal`: with calm consumers the deal follows by itself.

Of `EdiDocuments`:

* `ActiveIsSignedAtTheOperator`: an active contract or specification has a paper both sides signed, whatever overlaps and
  whichever answer is lost.
* `OneRowPerDocument`: one live 007 per contract, and no paper with two rows.
* `StatusOnlyAdvances`: a row never goes back down the ladder, while nothing overlaps.
* `SignedDocumentIsNoticed`: a signed paper whose row lives decides its contract, even if every read after a signature fails.

Of the desks:

* `OneWinner`, `LosersAreRetired` (`Tender`): one deal per tender, and the other quotes retired with it.
* `SettledCaseIsEvaluated`, `DocumentsAwaitTheRegistry`, `DecisionStands`, `SubmittedCaseIsAnswered` (`Verification`): the last
  task to settle evaluates, however tasks interleave, repeat or deadlock; the documents wait for the registry; a decision is
  made once and stands, although checks are late, repeated or redelivered and staff waives some; a case leaves its checks
  even if a provider is dead.
* `AttendedPublicWasReviewed`, `PublishedIsCompliant` (`Moderation`): what is public is what its moderator saw, and what the
  gate asks for was there when it was published, as long as no edit overlaps another saving.
* `OneLiveRequest`, `SignatureCoversTheLetter` (`Samples`): the slot is never held twice; the letter is the one signed.

### Fairness

`DealEscrow!FairSpec` asks for weak fairness of the sweeper alone: it is on the beat schedule every five minutes, and it
commits one event at a time. Neither the broker nor the applier nor any person is obliged to act. (A sweep takes the
oldest hundred rows; rows that fail for ever could hold those places. The model has fewer rows than that.)

`DealSessions!FairSpec` asks for strong fairness of a session's next step, because PostgreSQL queues the waiters of a row
lock while others may hold it in between, and for weak fairness of the abort of a deadlocked session, because the
deadlock detector runs after `deadlock_timeout`. `transition` locks deal then payment, `_apply_mark` payment then deal, so
the detector is really needed.

`ContractSigning` asks for weak fairness of a dispatcher tick that reaches the broker (the beat has it every 15 seconds)
and of a worker that takes a task. A consumer that fails is not retried by the code, so `ActivationReachesTheDeal` speaks
of the calm world, in which none does.

`EdiDocuments` asks for strong fairness of a pass of the poller that is over before anything else happens (the beat has it
every ten minutes): a pass may find no cached key, no operator, or a session in its way, but not every pass for ever. And
every request ends, if only by a rollback.

`Verification` asks that a submit ends, that the fan-out runs and that each worker takes its tasks. It does not ask a provider
to answer; that is why `SubmittedCaseIsAnswered` is worth asking.

## 4. Where the code parts from its own words

Four are runs that TLC finds violated, and entries under `findings` with the quoted line:

* `PaidEscrowIsFunded`: a deal disputed at `payment_pending` can be restored to `paid_escrow` with the payment pending.
* `DealsOnOpenTenders`: accepting locks the request and then judges the copy loaded before the lock (deals/service.py:477),
  so a deal can be opened on a tender that was cancelled meanwhile; the comment above it says the lock prevents that.
* `RailOpensItsOwn`: `sign` never looks at the rail (contracts/service.py:423), so two local signatures activate a contract
  of the Didox rail, which `WrongRail` says neither door may.
* `OperatorDocumentIsOnRecord`: a document created at the operator whose answer is lost is rolled back with its row
  (edi/service.py:180), although the docstring says the row is committed before the call.

More were met while modelling. Some are stated in a module as a property that no run asks for, because the code breaks it:

* `FundedMoneyHasADeal` (`DealEscrow`): cancelling a dispute leaves funded money behind; so does an operator who confirms a
  direct payment on a cancelled deal (escrow.py:353).
* `SettledHoldStaysSettled` (`DealEscrow`): a hold leaves the operator queue and comes back when the payment moves on
  (escrow.py:855).
* `CancelledStaysCancelled` (`DealSessions`): a contract event revives a deal that was cancelled under it (tasks/deals.py:34).
* `AutoApprovalIsResolved` (`Verification`): with automatic approval on, a case whose check ran out of attempts is approved
  without a human, although such a check is not resolved (verification/service.py:300).
* `PublicWasReviewed` (`Moderation`): an edit of a pending offer between a moderator's look and click publishes the new content
  unseen (marketplace/service.py:122).

Others are conditions in a property's statement, and what happens without them:

* When any doors of a deal overlap, `HistoryChains` fails (two party moves from one status both succeed, service.py:815),
  `DirectDealSettles` fails (the seller's confirmation and the buyer's receipt miss each other, escrow.py:311) and
  `DecidedStaysDecided` fails (the sweeper stamps as held what the applier has applied, tasks/payments.py:134). All have one
  cause, the lock taken on an instance loaded before it.
* Two creates for one deal leave it two contracts, of which it follows only one; an edit that overlaps `send` or `sign`
  renders another document under a signature. Send, decline, cancel and expire take no lock, so they may overwrite an
  activation, and one another: a decline loaded before the second signature leaves a declined contract that was activated, and a
  cancel beside a sign a cancelled one with a signature, although `cancel` is "only while no signature exists"
  (contracts/service.py:375). `FinalUnlessOverwritten` says that nothing else can. An event whose consumer comes too early
  (the workers run two at a time) is dropped, and the deal stays behind its contract.
* A withdrawal that overlaps an accept takes back the winner, and a second quote can then win; a quote submitted meanwhile
  outlives the choice.
* An EDI status read before another session's commit is applied after it, so a row can go back down the ladder
  (`StatusOnlyAdvances`) until the poller asks again.
* In verification, a submit enqueues its fan-out before the router commits (api_portal.py:172), so a fast broker may
  find no pending check and the case waits for ever; so does a case whose task the broker loses. An evaluation normally loads
  the case under its lock, but two hold an older copy, which the lock does not refresh: a provider error in the last attempt
  (the exception keeps the frame of `_run_check` alive) and a registry check that an officer records by hand. Either can
  decide a case a second time (`DecisionStands` excludes both). A late task can overwrite a waive.
* Three sessions publish what the gate would hold. A photo change loads an approved offer, an edit makes it a
  draft because its new substance needs a licence, the photo change writes `pending_moderation` over that draft from its copy
  (requeue_for_photo_change, marketplace/service.py:971), and an approval that loaded the offer before the edit judges the old
  substance, finds the row pending and publishes the new one. No run has three sessions at this desk: the attempt to prove
  `PublishedIsCompliant` met it, for its condition then named `edit` and `files` only. It now excludes an edit beside any other
  saving, which is what the proof needs, and no more: photo and file changes may overlap one another and the approval.
* Two doors open two live deals on one sample or inquiry (deals/service.py:575): the check takes no lock and no index
  stands behind it. A letter rendered beside its signature leaves the signature over other bytes.

Of the same kind, and visible in the code without a property: the payment of a deal that a party
cancelled stays pending for ever (escrow.py:75 says it is closed as refunded, service.py refuses the cancel of a
cancelled deal); restoring a paid direct deal to `delivered` completes it at once (api_admin.py:285 says dispute
resolution cannot); two operators who loaded the payment before either locked it both mark it (escrow.py:23); every
render of a contract or letter writes the same object name, for the render count is never stored; a specification whose
document is deleted at the operator stays in `pending_signatures`; an archive that could not be fetched is not fetched
later once its row is signed; an offer that waits for moderation when its company is suspended can still be approved; staff
who log a contact move a request from `new` to `in_progress`, which its machine does not know.

## 5. Proofs

Every theorem is about the module's own specification and for every value of its constants.

**Deals and their money.** `DealEscrowProofs` is about `DealEscrow!Spec`, for any set of deals and callbacks and any `MaxTrips`. The
only assumption is `MaxTripsAssumption` (a natural number, which bounds the model and not the code).

The invariants are not inductive by themselves. `MoneyEndsWithTheDeal` would not survive a mark, for nothing in it says
that a completed deal has no movement left to make, or that a deal without a payment has no rail; and the step that
settles a direct deal leaves it in a status that only the other conjuncts allow. `IInv` says of every row that it is a row
(`TypeOK`) and that it is *sound*: the payment exists where the deal needs one, the rail exists with the payment, the
reference only on the live rail, released with completed, refunded only with cancelled, and no direct deal paid and
delivered. Two more conjuncts make the history bear the protections out. `Protected` adds to `EscrowProtectsSeller` that
a disputed deal has its dispute logged, for otherwise staff could restore an unpaid deal to `shipped` and it would pass
for one that was never disputed. `Witnessed` adds to `EscrowProtectsBuyer` that a delivered deal's last logged move is a
delivery by buyer or staff, which is what a release finds the step after. Since every operation is an operator on one row, the proof is about operators first (opening, moving,
settling, marking, invoicing and applying each keep a row sound) and the step lemma only says which operator each action
uses; `Reconcile` applies one to every row at once.

Its second part (bank reports) adds what ties the reports to the rows. A movement is *past* (`Past`) on a live payment that records it or
a later one; every applied report, of a callback or of a poll, is past (`Marks`); every operator keeps what is past
(`Keeps`); and a report can be applied only if its movement is not past yet, because the escrow table has no way back to
it. That is why two reports of one movement are never both applied, although their identities differ and nothing compares
them.

Its third part shows the refinement: each operator takes a sound row to one whose account is the same or follows
(`TransitionHonours`, `MarkHonours`, `InvoiceHonours`, `ApplyHonours`), and since a pass of the poller moves several rows in one commit, a
step of `EscrowPromise` may move several accounts. Soundness is needed: only of a sound row is it known that a release is
not of a direct payment, and that a deal whose money left makes no further move. `InvoiceBehindTheDeal` (no deal past its
contract without a payment, no payment without a rail) is part of it and is a theorem of its own.

**Contracts.** `ContractProofs` is about `ContractSigning!Spec`, for any contracts, sessions and worlds and any bound on
renders (`WorldsAssumption`, `MaxRendersAssumption`: the constants are of their kind). None of the properties is inductive: a
stamp says nothing of the sessions still at work, and they write from copies they made without a lock. `IInv` has four parts:
`TypeOK`; `Orderly`, what a session in progress may still rely on (a contract it signs was sent, a contract that was not sent
carries no signature, a signer's copy is of the document on record unless an edit overlaps; every
copy predates the end of its contract, and a contract that ended meanwhile was ended by a door that overlaps this one,
by one without a lock unless it is active: `Overtaken`, from which `FinalUnlessOverwritten` follows for every overlap); `Earned`, what a signature, a stamp and an activation in the outbox stand for; `Followed`, what the deal makes of
it: no contract, no contracted deal, and the contract it points at is stamped. Stamps and signatures are never taken
away, which is why an event that is repeated, late or out of order can do no harm.

**Tenders.** The first part of `DeskProofs` is about `Tender!Spec` and needs no assumption. `Orderly` says that one session at most holds
the request's lock and what each session knows of the rows it loaded, given the doors that may overlap it: the locker has
found that nobody won, and no quote stands beyond those it will retire. `Decided` is what follows: at most one deal, an accepted
quote stays while no withdrawal overlaps, the losers are retired, a tender with a deal is not open.

**Documents at the operator.** `EdiProofs` is about `EdiDocuments!Spec`, for any documents and sessions. `ActiveIsSignedAtTheOperator`
is inductive only with what a session carries between its calls (`Orderly`): a status it read was once the operator's, of a
document whose subject cannot change any more (`Recorded`). A document that both sides signed stays signed, so such a
status is evidence however late it is applied. For `OneRowPerDocument`, an insert in progress owns the place of its row
(`Indexed`), which the unique indexes keep others from taking.

**Overlapping sessions.** `SessionProofs` is about `DealSessions!Spec`, for any sessions and callbacks, and its first part for any
set of overlapping doors. A session's copy may be of any age, but it passed its door's checks (`Steady`); no move leads from a
status to itself (`MoveFacts`), so a session changes the status exactly when it adds history (`Moves`), and then the last row
it adds ends at the status it writes (`FlushKeeps`). The rail is written only by an insert, which is refused where there is a payment.

The second part is about sessions of which at most the tasks of the bank overlap (`BankAtMost`, the setting of the run
`sessions_bank`). `JInv` adds that the payment has one holder (`OneHolder`) and that every copy is `Fresh`, what a session that
began now would load, or `Late`: a bank task that loaded the payment before another one moved it, and for which no movement is
left to apply, because the escrow table has no way back and the deal has gone where the movement took it. A late task applies
nothing; a fresh copy that is flushed leaves the row that the operator of `EscrowLedger` makes of it (`Joined`,
`FollowsOperators`), so a session that commits is one application of `Transitioned`, `Marked`, `Invoiced` or `Applied` to the
committed row. From there the history is one walk (`HistoryChains`), each movement is in it once (`MoneyMovesOnce`: a deal
past its funding is never funded again), and with no overlap at all each commit is the `DealEscrow` action of its door
(`ImplementsDealEscrow`), for which `Sure` keeps what the door admitted true until the commit.

**Verification.** `VerificationProofs` is about `Verification!Spec`, for any workers, submissions, faults and attempts
(`Parameters`: the bounds are natural numbers and the worlds are worlds; stated with each theorem, for the run that checks the
module instantiates it). `Orderly` holds with faults and staff at work: two workers are never at one check, a
task at work is of the present submission, and its copy says the case is running if it still is, so that the worker that settles
the last check cannot overlook it. `DecisionStands` is inductive with it: an evaluation that loads the case under its lock finds
it decided and leaves it. Where nothing disturbs the tasks (`Single`), a check has one task at most, in the broker or at work,
and none once it is settled, and the documents have none until the registry is settled: `DocumentsAwaitTheRegistry`.

**Moderation.** `ModerationProofs` is about `Moderation!Spec`, for any sessions, moderators, versions and worlds (`Parameters`). Every
handler writes from the copy it loaded, so what counts is how far a copy may be from the row. Where no approval overlaps a
change, a row that is public is public in every copy, so any change of its content takes it back (`Watched`). Where licences
last and no edit overlaps another saving, the copy of a saving has the row's substance, and the copy of an edit knows of a
draft (`Screened`, `Faithful`), so all that is in the queue, public or rejected complies. Where licences come and go, nothing overlaps,
and the copy that is judged is the row (`Undisturbed`).

**Samples.** `SamplesProofs` is about `Samples!Spec`, for any requests, sessions, renders and worlds (`Parameters`; there is a request).
The slot is asked of every row a commit leaves, so `OneLiveRequest` needs only the steps that make a request live. For the letter,
where no render overlaps (`Lettered`): a render at work is of an unsigned letter, a signature that took its challenge is of the
letter on record, and nothing signs or renders a request that is not there yet (`Orderly`).

**The four desks.** The run `desks` checks them together, so `DeskProofs` states their properties of `DesksSpec`: a step of the desks is
a step of one desk and none of the others, each desk is the module its proofs are about at the settings `MCDesks` gives it
(`SameVerification`, `SameModeration`, `SameSamples`, `SettingsAreWorlds`), and so its inductive invariant holds beside
the others'. Suppliers, quotes, moderators, workers, sessions and requests stay arbitrary; the worlds and the bounds of versions,
submits, faults and renders are those of the run, and arbitrary in the theorems of the modules themselves.

| Theorem | States |
|---|---|
| `RowsAreSound` | `Spec => []IInv` |
| `TypeCorrect` | `Spec => []TypeOK` |
| `MoneyAndDealEndTogether` | `Spec => []MoneyEndsWithTheDeal` |
| `NoDealWithoutInvoice` | `Spec => []InvoiceBehindTheDeal` |
| `DirectDealsSettle` | `Spec => []DirectDealSettles` |
| `SellerShipsPaid` | `Spec => []EscrowProtectsSeller` |
| `BuyerPaysOnDelivery` | `Spec => []EscrowProtectsBuyer` |
| `OneReportApplied` | `Spec => []CallbackAppliedOnce` |
| `AppliedStaysRecorded` | `Spec => []AppliedIsRecorded` |
| `VerdictsAreFinal` | `Spec => DecidedStaysDecided` |
| `PromiseIsKept` | `Spec => KeepsThePromise`, that is `Spec => Promise!Spec` |
| `ContractProofs!TypeCorrect` | `Spec => []TypeOK` |
| `ActivationsAreEarned` | `Spec => []ActivationIsEarned` |
| `SecondSignerActivates` | `Spec => []PairActivates` |
| `OneActivation` | `Spec => []ActivatesOnce` |
| `DocumentIsWhatWasSigned` | `Spec => []SignaturesCoverTheDocument` |
| `ContractedDealsAreBacked` | `Spec => []ContractedDealHasItsContract` |
| `FinalOrOverwritten` | `Spec => FinalUnlessOverwritten` |
| `DeskProofs!TypeCorrect` | `Spec => []TypeOK` |
| `OneTenderOneDeal` | `Spec => []OneWinner` |
| `LosersRetire` | `Spec => []LosersAreRetired` |
| `EdiProofs!TypeCorrect` | `Spec => []TypeOK` |
| `ActiveMeansSigned` | `Spec => []ActiveIsSignedAtTheOperator` |
| `RowsAreUnique` | `Spec => []OneRowPerDocument` |
| `RowsClimb` | `Spec => StatusOnlyAdvances` |
| `SessionProofs!TypeCorrect` | `Spec => []TypeOK` |
| `HistoryEndsWhereTheDealIs` | `Spec => []HistoryEndsAtStatus` |
| `RailStaysFrozen` | `Spec => RailIsFrozen` |
| `HistoryIsOneWalk` | `BankAtMost`: `Spec => []HistoryChains` |
| `TheBankMovesMoneyOnce` | `BankAtMost`: `Spec => []MoneyMovesOnce` |
| `SerialSessionsImplementDealEscrow` | `Overlap = {}`: `Spec => ImplementsDealEscrow`, that is `Spec => Serial!Spec` |
| `VerificationProofs!TypeCorrect` | `Parameters`: `Spec => []TypeOK` |
| `EveryCaseIsEvaluated` | `Parameters`: `Spec => []SettledCaseIsEvaluated` |
| `RegistryComesFirst` | `Parameters`: `Spec => []DocumentsAwaitTheRegistry` |
| `DecidedOnce` | `Parameters`: `Spec => []DecisionStands` |
| `ModerationProofs!TypeCorrect` | `Parameters`: `Spec => []TypeOK` |
| `PublicWasSeen` | `Parameters`: `Spec => []AttendedPublicWasReviewed` |
| `PublishedComplies` | `Parameters`: `Spec => PublishedIsCompliant` |
| `SamplesProofs!TypeCorrect` | `Parameters`: `Spec => []TypeOK` |
| `OneRequestLives` | `Parameters`: `Spec => []OneLiveRequest` |
| `SignaturesCoverTheirLetters` | `Parameters`: `Spec => []SignatureCoversTheLetter` |
| `DesksTypeCorrect` | `Parameters`: `DesksSpec => []DesksTypeOK` |
| `CasesAreEvaluated`, `DocumentsComeAfterTheRegistry`, `CasesAreDecidedOnce` | `Parameters`: `DesksSpec` implies the properties of `Verification` always |
| `WhatIsPublicWasSeen`, `WhatIsPublishedComplies` | `Parameters`: `DesksSpec` implies those of `Moderation` |
| `OneRequestHoldsTheSlot`, `SignatureIsOfTheLetter` | `Parameters`: `DesksSpec` implies those of `Samples` |

So every safety property that a passing run checks is also proved, and both refinements. Only model-checked: the liveness
properties (`EveryCallbackDecided`, `EverySessionEnds`, `ActivationReachesTheDeal`, `SignedDocumentIsNoticed`,
`SubmittedCaseIsAnswered`), which are out of the prover's reach, as is `ENABLED`; and of course the properties that are
violated. No module declares a recursive operator.

`Parameters` is what the constants of a module are (a bound is a natural number, a world is a world, a set of requests is not empty);
it stands before each theorem and not in an `ASSUME`, because those modules are checked as instances of `MCDesks`, whose
worlds are its own. `SettingsAreWorlds` proves it of those instances. `BankAtMost` and `Overlap = {}` are the settings of
the runs `sessions_bank` and `sessions_serial`: without them the properties are false (section 4).

## 6. Not modelled

* The identity door of E-IMZO (contracts/eimzo.py), sessions and rate limits: authentication, with Redis records that expire.
* The upload of a countersigned paper, templates, attaching a second contract to a deal; a contract's file versions.
* The state machine of companies beyond suspension, memberships, and a new verification case after a rejection.
* Lab orders: a ladder that only the laboratory holding the order moves. Logistics, manufacturers, technologists and
  sourcing: short request machines of the shape `Samples` has, without a tie to the deal.
* Numbering is one advisory lock around a counter, and the circuit breaker in-process arithmetic that its unit tests reach:
  a model would be of PostgreSQL's lock, or of the clock.
* The inquiry's own answer, catalogue listings, matching, notifications, alerts: read models and best-effort output.
* Ingest, parsing, scoring, news, prices, analytics, reports, reference data, storefront: idempotent rows around external
  sites and a language model, queries and documents. What they can get wrong is in the data.
* Settings, storage, audit, the feed bus, the Telegram clients and the web front ends: I/O over the API, which decides.
* The limits of batches (the dispatcher's and the sweeper's hundred rows) are not reached by instances of this size.

## 7. What could come next

1. `HistoryChains` and `MoneyMovesOnce` for more doors than the bank's: which pairs of doors may overlap without harm.
2. `ContractSigning` and `EdiDocuments` in one module, so that the operator's evidence and the local signatures meet.
3. A new verification case after a rejection, and the upload of a countersigned paper.
