---------------------------- MODULE EdiDocuments ----------------------------
(****************************************************************************)
(* The documents of one contract at the EDI operator (Didox).                *)
(*                                                                           *)
(* app/domains/edi keeps a `didox_documents` row per document it created:    *)
(* the 007 that carries a contract of the Didox rail, the 000 that carries a *)
(* specification of a framework contract, and the 002 invoices.  What counts *)
(* happens at the operator, in calls that can fail after they took effect;   *)
(* a row learns of it from the status read after a signature and from the    *)
(* poller (app/tasks/edi.py), and a 007 that is signed activates its         *)
(* contract (activate_from_provider, see ContractSigning).                   *)
(*                                                                           *)
(* Where a world lets sessions overlap, each decides on the row it loaded.    *)
(****************************************************************************)
EXTENDS Naturals, FiniteSets

CONSTANTS
  MaxDocs,     \* bound: didox_documents rows, and documents at the operator
  Sessions,    \* concurrent requests and poller passes
  Worlds       \* the settings to consider, see World

\* A setting: may the sessions overlap, is it a framework contract, and how many
\* documents are drawn up (a bound that can be smaller where sessions overlap).
World == [overlap : BOOLEAN, frame : BOOLEAN, docs : 1..MaxDocs]

ASSUME MaxDocsAssumption == MaxDocs \in Nat

ASSUME WorldsAssumption == Worlds \subseteq World

Rows   == 1..MaxDocs
Papers == 1..MaxDocs

\* Didox's ladder.  A document only ever climbs it.
DRAFT            == 0
AWAITING_PARTNER == 1
AWAITING_US      == 2
SIGNED           == 3
REJECTED         == 4
DELETED          == 5
ANNULLED_BY_TAX  == 50
DRAFT_DELETED    == 55

Ladder ==
  {DRAFT, AWAITING_PARTNER, AWAITING_US, SIGNED, REJECTED, DELETED, ANNULLED_BY_TAX,
   DRAFT_DELETED}

\* Statuses in which a document no longer occupies its subject's slot.
DeadStatuses == {DELETED, DRAFT_DELETED}

\* Statuses the poller does not ask about.
Settled == {SIGNED, REJECTED, DELETED, ANNULLED_BY_TAX, DRAFT_DELETED}

\* What a document is about: a contract (007), a specification (000), or an
\* invoice of either (002).
Subjects == {"contract", "specification", "invoice"}

Sides == {"owner", "partner"}

VARIABLES
  world,       \* the setting of this behaviour, fixed at the start
  contract,    \* contracts.status: "pending_signatures", "active" or "closed"
  spec,        \* contract_specifications.status of its one specification
  rows,        \* [Rows -> row]: committed didox_documents
  papers,      \* [Papers -> paper]: the documents at the operator
  sess         \* [Sessions -> session]

vars == <<world, contract, spec, rows, papers, sess>>

SpecStatuses == {"none", "draft", "pending_signatures", "active", "declined", "cancelled"}

\* paper    the operator's document (didox_id)
\* archive  provider_archive_sha256 IS NOT NULL
Row == [subject : Subjects, paper : Papers, status : Ladder, archive : BOOLEAN]

NoRow == [subject |-> "none"]

Paper == [subject : Subjects, status : Ladder]

NoPaper == [subject |-> "none"]

\* job   what the session does
\* row   the row it creates, signs or polls
\* seen  that row as it was loaded
\* step  how far it got; `read` is the status the operator told it
Session ==
  [ job : {"create", "sign", "poll"}, row : Rows, side : Sides,
    seen : Row \cup {NoRow}, subject : Subjects, paper : SUBSET Papers,
    step : {"loaded", "sent", "read"}, read : SUBSET Ladder ]

Idle == [job |-> "none"]

\* The session of specifications.cancel, which touches no document.
Cancelling == [job |-> "cancel"]

TypeOK ==
  /\ world \in Worlds
  /\ contract \in {"pending_signatures", "active", "closed"}
  /\ spec \in SpecStatuses
  /\ rows \in [Rows -> Row \cup {NoRow}]
  /\ papers \in [Papers -> Paper \cup {NoPaper}]
  /\ sess \in [Sessions -> Session \cup {Idle, Cancelling}]

Init ==
  /\ world \in Worlds
  /\ contract = "pending_signatures"
  /\ spec = "none"
  /\ rows = [r \in Rows |-> NoRow]
  /\ papers = [p \in Papers |-> NoPaper]
  /\ sess = [s \in Sessions |-> Idle]

Busy(s) == sess[s] # Idle

MayBegin(s) == ~Busy(s) /\ (world.overlap \/ \A t \in Sessions : ~Busy(t))

Done(s) == sess' = [sess EXCEPT ![s] = Idle]

\* The documents of a subject that still hold its slot.
Live(subject) ==
  { r \in Rows : rows[r].subject = subject /\ rows[r].status \notin DeadStatuses }

Drafts == { r \in Live("invoice") : rows[r].status = DRAFT }

\* Fault: the unique index leaves out the documents that await the partner.
IndexAllows_DraftsOnly(r, new) ==
  new.subject = "contract" /\ new.status = DRAFT => Live("contract") \subseteq {r}

\* uq_didox_documents_subject, asked of every insert and update: a write that
\* breaks it fails, and its session is rolled back.
IndexAllows(r, new) ==
  new.subject = "contract" /\ new.status \notin DeadStatuses =>
    Live("contract") \subseteq {r}

\* Rows that sessions have inserted and not committed: the unique index makes a
\* second insert for the subject of a 007 wait for the first.
Inserting(subject) ==
  { s \in Sessions : sess[s].job = "create" /\ sess[s].subject = subject }

-----------------------------------------------------------------------------
(* The contract and its specification                                        *)

\* Declined, cancelled or expired, by the handlers of ContractSigning.
ContractCloses ==
  /\ contract = "pending_signatures"
  /\ contract' = "closed"
  /\ UNCHANGED <<world, spec, rows, papers, sess>>

\* create_specification: specifications belong to a signed framework contract.
CreateSpecification ==
  /\ world.frame /\ contract = "active"
  /\ spec = "none"
  /\ spec' = "draft"
  /\ UNCHANGED <<world, contract, rows, papers, sess>>

\* specifications.cancel: a draft only, judged by the loaded copy.
BeginCancel(s) ==
  /\ MayBegin(s)
  /\ spec = "draft"
  /\ sess' = [sess EXCEPT ![s] = Cancelling]
  /\ UNCHANGED <<world, contract, spec, rows, papers>>

FinishCancel(s) ==
  /\ sess[s].job = "cancel"
  /\ spec' = "cancelled"
  /\ Done(s)
  /\ UNCHANGED <<world, contract, rows, papers>>

-----------------------------------------------------------------------------
(* Creating a document                                                       *)

\* The checks of the three create functions: the 007 while the contract is
\* pending, the specification while it is a draft, an invoice of what is signed
\* and one draft of it at a time.
MayCreate(subject) ==
  CASE subject = "contract" ->
         contract = "pending_signatures" /\ Live("contract") = {}
    [] subject = "specification" ->
         Live("specification") = {} /\ spec = "draft"
    [] subject = "invoice" ->
         contract = "active" /\ (world.frame => spec = "active") /\ Drafts = {}

\* The next row that neither exists nor is being inserted, and the next document.
Taken == { q \in Rows : rows[q] # NoRow }
         \cup { sess[t].row : t \in { t \in Sessions : sess[t].job = "create" } }

Fresh(r) == r <= world.docs /\ r \notin Taken /\ \A q \in Rows \ Taken : r <= q

FreshPaper(p) ==
  p <= world.docs /\ papers[p] = NoPaper /\ \A q \in Papers : papers[q] = NoPaper => p <= q

\* create_document inserts the row and flushes it.  One live 007 per contract
\* is a unique index, so the insert of a second waits; an invoice has none.
BeginCreate(s, r, subject) ==
  /\ MayBegin(s)
  /\ MayCreate(subject)
  /\ subject = "contract" => Inserting("contract") = {}
  /\ Fresh(r)
  /\ sess' = [sess EXCEPT ![s] =
                [job |-> "create", row |-> r, side |-> "owner", seen |-> NoRow,
                 subject |-> subject, paper |-> {}, step |-> "loaded", read |-> {}]]
  /\ UNCHANGED <<world, contract, spec, rows, papers>>

\* The operator creates the document and says so.
OperatorCreates(s, p) ==
  /\ sess[s].job = "create" /\ sess[s].step = "loaded"
  /\ FreshPaper(p)
  /\ papers' = [papers EXCEPT ![p] = [subject |-> sess[s].subject, status |-> DRAFT]]
  /\ sess' = [sess EXCEPT ![s].step = "sent", ![s].paper = {p}]
  /\ UNCHANGED <<world, contract, spec, rows>>

\* The operator creates the document and the answer is lost: the handler turns
\* ProviderUnavailable into a 503 and the session is rolled back.
AnswerLost(s, p) ==
  /\ sess[s].job = "create" /\ sess[s].step = "loaded"
  /\ FreshPaper(p)
  /\ papers' = [papers EXCEPT ![p] = [subject |-> sess[s].subject, status |-> DRAFT]]
  /\ Done(s)
  /\ UNCHANGED <<world, contract, spec, rows>>

SpecSent(subject) ==
  IF subject = "specification" THEN "pending_signatures" ELSE spec

\* The handler commits the row with its didox_id.
CommitCreate(s) ==
  LET z == sess[s]
  IN  /\ z.job = "create" /\ z.step = "sent"
      /\ \E p \in z.paper :
           LET new == [subject |-> z.subject, paper |-> p, status |-> DRAFT, archive |-> FALSE]
           IN  IndexAllows(z.row, new) /\ rows' = [rows EXCEPT ![z.row] = new]
      /\ spec' = SpecSent(z.subject)
      /\ Done(s)
      /\ UNCHANGED <<world, contract, papers>>

\* Any failure: a refusal by the operator, a crash, a database error.
Rollback(s) ==
  /\ Busy(s)
  /\ Done(s)
  /\ UNCHANGED <<world, contract, spec, rows, papers>>

-----------------------------------------------------------------------------
(* Signing                                                                   *)

\* A session that has loaded a row, to sign its document or to ask about it.
Opened(job, r, side) ==
  [ job |-> job, row |-> r, side |-> side, seen |-> rows[r], subject |-> rows[r].subject,
    paper |-> {rows[r].paper}, step |-> "loaded", read |-> {} ]

\* submit_signature: the bytes signed are those prepare_signature stashed for
\* this row and side, single use; a request without them is refused.
BeginSign(s, r, side) ==
  /\ MayBegin(s)
  /\ rows[r] # NoRow
  /\ sess' = [sess EXCEPT ![s] = Opened("sign", r, side)]
  /\ UNCHANGED <<world, contract, spec, rows, papers>>

\* Where a side's signature takes a document at the operator, and from where.
Signable == [owner |-> DRAFT, partner |-> AWAITING_PARTNER]
SignedBy == [owner |-> AWAITING_PARTNER, partner |-> SIGNED]

OperatorSigns(s) ==
  LET z == sess[s]
  IN  /\ z.job = "sign" /\ z.step = "loaded"
      /\ \E p \in z.paper :
           /\ papers[p].status = Signable[z.side]
           /\ papers' = [papers EXCEPT ![p].status = SignedBy[z.side]]
      /\ sess' = [sess EXCEPT ![s].step = "sent"]
      /\ UNCHANGED <<world, contract, spec, rows>>

\* The statuses a document went through.
Past ==
  [ s \in Ladder |->
      CASE s = DRAFT -> {}
        [] s \in {AWAITING_PARTNER, AWAITING_US, DRAFT_DELETED} -> {DRAFT}
        [] s \in {SIGNED, REJECTED, DELETED} -> {DRAFT, AWAITING_PARTNER}
        [] s = ANNULLED_BY_TAX -> {DRAFT, AWAITING_PARTNER, SIGNED} ]

\* What the operator may answer a side: from a page that is out of date, and the
\* partner (owner=0) is told of what awaits the partner that it awaits "us".
Reported(side, status) ==
  LET known == {status} \cup Past[status]
  IN  known \cup {k \in {AWAITING_US} : side = "partner" /\ AWAITING_PARTNER \in known}

\* The status read that follows a signature, as the side that signed, and the
\* poller's, as the owner.
ReadStatus(s) ==
  LET z == sess[s]
  IN  /\ Busy(s) /\ sess[s].job # "cancel"
      /\ <<z.job, z.step>> \in {<<"sign", "sent">>, <<"poll", "loaded">>}
      /\ \E p \in z.paper : \E status \in Reported(z.side, papers[p].status) :
           sess' = [sess EXCEPT ![s].step = "read", ![s].read = {status}]
      /\ UNCHANGED <<world, contract, spec, rows, papers>>

\* A read that fails is not a failed signature: the request ends well without a
\* status, and the poller is to bring it.
ReadFails(s) ==
  /\ sess[s].job = "sign" /\ sess[s].step = "sent"
  /\ Done(s)
  /\ UNCHANGED <<world, contract, spec, rows, papers>>

\* Fault: a document that is signed already is polled no more, nor is a draft.
Polled_NotDrafts(row) == row.status \notin Settled \cup {DRAFT}

\* poll_didox_documents: documents that have a didox_id and can still change.
Polled(row) == row.status \notin Settled

BeginPoll(s, r) ==
  /\ MayBegin(s)
  /\ rows[r] # NoRow
  /\ Polled(rows[r])
  /\ sess' = [sess EXCEPT ![s] = Opened("poll", r, "owner")]
  /\ UNCHANGED <<world, contract, spec, rows, papers>>

-----------------------------------------------------------------------------
(* apply_status                                                              *)

\* Fault: a reported status is taken as it comes.
News_Any(z, status) == TRUE

\* Forward-only: a status below the one the row holds is stale.
News(z, status) == status >= z.seen.status

\* The flush writes the status only where it differs from the loaded one.
Told(row, z, status) ==
  IF status # z.seen.status THEN [row EXCEPT !.status = status] ELSE row

\* Fault: anything from `signed` up counts as signed.
Counts_FromSigned(status) == status >= SIGNED

Counts(status) == status = SIGNED

\* The archive is fetched once; a failure must not block the activation.
Archived(row, z, status) ==
  IF Counts(status) /\ ~z.seen.archive
  THEN { row, [row EXCEPT !.archive = TRUE] } ELSE { row }

\* _activate_contract: a contract that is closed refuses, and the refusal is
\* logged and swallowed.
ContractTold(z, status) ==
  IF z.subject = "contract" /\ Counts(status) /\ contract = "pending_signatures"
  THEN "active" ELSE contract

\* Fault: a refusal has a status of its own.
SpecTold_Refused(z, status) ==
  IF z.subject # "specification" \/ spec # "pending_signatures" THEN spec
  ELSE IF Counts(status) THEN "active"
  ELSE IF status = REJECTED THEN "refused"
  ELSE spec

\* _settle_specification: both signatures, or a refusal.
SpecTold(z, status) ==
  IF z.subject # "specification" \/ spec # "pending_signatures" THEN spec
  ELSE IF Counts(status) THEN "active"
  ELSE IF status = REJECTED THEN "declined"
  ELSE spec

\* What a session commits of the status it read.
Apply(z, status) ==
  IF News(z, status)
  THEN /\ \E row \in Archived(Told(rows[z.row], z, status), z, status) :
            IndexAllows(z.row, row) /\ rows' = [rows EXCEPT ![z.row] = row]
       /\ contract' = ContractTold(z, status)
       /\ spec' = SpecTold(z, status)
  ELSE UNCHANGED <<rows, contract, spec>>

CommitStatus(s) ==
  LET z == sess[s]
  IN  /\ z.job \in {"sign", "poll"} /\ z.step = "read"
      /\ \E status \in z.read : Apply(z, status)
      /\ Done(s)
      /\ UNCHANGED <<world, papers>>

\* A pass of the poller that finds a key and an operator, and is over before
\* anything else happens.
QuickPoll(r) ==
  /\ world.overlap \/ \A s \in Sessions : ~Busy(s)
  /\ rows[r] # NoRow
  /\ Polled(rows[r])
  /\ Apply(Opened("poll", r, "owner"), papers[rows[r].paper].status)
  /\ UNCHANGED <<world, papers, sess>>

-----------------------------------------------------------------------------
(* The operator on its own: the partner acts in a cabinet of another         *)
(* operator, the owner deletes in Didox's, the tax committee annuls.         *)

OperatorClimbs ==
  {<<AWAITING_PARTNER, SIGNED>>, <<AWAITING_PARTNER, REJECTED>>,
   <<AWAITING_PARTNER, DELETED>>, <<DRAFT, DRAFT_DELETED>>, <<SIGNED, ANNULLED_BY_TAX>>}

OperatorMoves(p) ==
  /\ papers[p] # NoPaper
  /\ \E to \in Ladder :
       /\ <<papers[p].status, to>> \in OperatorClimbs
       /\ papers' = [papers EXCEPT ![p].status = to]
  /\ UNCHANGED <<world, contract, spec, rows, sess>>

-----------------------------------------------------------------------------

Creates(s) ==
  \/ \E r \in Rows, subject \in Subjects : BeginCreate(s, r, subject)
  \/ \E p \in Papers : OperatorCreates(s, p) \/ AnswerLost(s, p)
  \/ CommitCreate(s)

Signs(s) ==
  \/ \E r \in Rows, side \in Sides : BeginSign(s, r, side)
  \/ OperatorSigns(s)
  \/ ReadFails(s)

Next ==
  \/ ContractCloses
  \/ CreateSpecification
  \/ \E s \in Sessions :
       \/ Creates(s) \/ Signs(s)
       \/ \E r \in Rows : BeginPoll(s, r)
       \/ ReadStatus(s) \/ CommitStatus(s)
       \/ BeginCancel(s) \/ FinishCancel(s)
       \/ Rollback(s)
  \/ \E r \in Rows : QuickPoll(r)
  \/ \E p \in Papers : OperatorMoves(p)

\* The beat polls every ten minutes.  A pass may find no cached key, no operator
\* or a session in its way, but not every one (strong fairness): users sign in
\* again, operators come back.  Every request ends.
Fairness ==
  /\ SF_vars(\E r \in Live("contract") : QuickPoll(r))
  /\ WF_vars(\E s \in Sessions : Rollback(s))

Spec == Init /\ [][Next]_vars /\ Fairness

-----------------------------------------------------------------------------
(* Properties                                                                *)

PapersSigned(subject) ==
  \E p \in Papers :
    papers[p].subject = subject /\ papers[p].status \in {SIGNED, ANNULLED_BY_TAX}

\* apply_status, activate_from_provider: a contract of the Didox rail is active
\* and a specification is active only when its document was signed by both
\* sides at the operator, whatever sessions overlap and answers are lost.
ActiveIsSignedAtTheOperator ==
  /\ contract = "active" => PapersSigned("contract")
  /\ spec = "active" => PapersSigned("specification")

\* uq_didox_documents_subject and uq_didox_documents_didox_id: one live 007 for
\* the contract, and no two rows share a document.
OneRowPerDocument ==
  /\ Cardinality(Live("contract")) <= 1
  /\ \A q, r \in Rows :
       rows[q] # NoRow /\ rows[r] # NoRow /\ rows[q].paper = rows[r].paper => q = r

\* apply_status: "Forward-only ... applying it would undo an activation".  Holds
\* when sessions do not overlap.
StatusOnlyAdvances ==
  [][~world.overlap =>
       \A r \in Rows : rows[r] # NoRow => rows[r].status <= rows'[r].status]_vars

\* The safety net: a document whose row knows its didox_id and that is signed at
\* the operator decides its contract, unless the tax committee annuls it first.
SignedDocumentIsNoticed ==
  (\E r \in Live("contract") : papers[rows[r].paper].status = SIGNED)
    ~> \/ contract # "pending_signatures"
       \/ \E r \in Live("contract") : rows[r].status = ANNULLED_BY_TAX

\* create_document: "the row carries the number and is committed before the
\* call, so a create we never saw the answer to is findable by ContractNo rather
\* than lost", so a document at the operator has a row, or a session making it.
OperatorDocumentIsOnRecord ==
  \A p \in Papers :
    papers[p] # NoPaper =>
      \/ \E r \in Rows : rows[r] # NoRow /\ rows[r].paper = p
      \/ \E s \in Sessions : sess[s].job = "create" /\ p \in sess[s].paper

=============================================================================
