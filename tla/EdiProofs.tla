------------------------------- MODULE EdiProofs -------------------------------
(****************************************************************************)
(* What the rows of didox_documents may be trusted with, proved for any      *)
(* number of documents, sessions and settings: nothing is active that was    *)
(* not signed at the operator, one row stands for one document, and a row    *)
(* climbs the operator's ladder.                                             *)
(*                                                                           *)
(* The argument: a document keeps its subject and stays signed once it is,   *)
(* so a status that was read as `signed` is evidence however late it is      *)
(* applied; and an insert in progress owns its row and its document.         *)
(****************************************************************************)
EXTENDS EdiDocuments, FiniteSetTheorems, TLAPS

Alone(s) == \A t \in Sessions : Busy(t) => t = s

\* A document that both sides signed.
BothSigned(p) == papers[p].status \in {SIGNED, ANNULLED_BY_TAX}

\* A row's document exists, and is about what the row is about.
Recorded ==
  \A r \in Rows : rows[r] # NoRow =>
    /\ papers[rows[r].paper] # NoPaper
    /\ papers[rows[r].paper].subject = rows[r].subject

\* An insert in progress has its row and its document for itself.
CreateKnows(s) ==
  sess[s].job = "create" =>
    /\ rows[sess[s].row] = NoRow
    /\ \A p \in sess[s].paper :
         /\ papers[p] # NoPaper
         /\ papers[p].subject = sess[s].subject
         /\ \A r \in Rows : rows[r] # NoRow => rows[r].paper # p
    /\ \A t \in Sessions : sess[t].job = "create" /\ t # s =>
         sess[t].row # sess[s].row /\ sess[t].paper \cap sess[s].paper = {}

\* A session that loaded a row: its document is the row's, and what it read as
\* signed is signed.
LookKnows(s) ==
  sess[s].job \in {"sign", "poll"} =>
    /\ rows[sess[s].row] # NoRow
    /\ \A p \in sess[s].paper : papers[p] # NoPaper /\ papers[p].subject = sess[s].subject
    /\ SIGNED \in sess[s].read => \E p \in sess[s].paper : BothSigned(p)
    /\ ~world.overlap => sess[s].seen = rows[sess[s].row]

Orderly ==
  /\ \A s \in Sessions : CreateKnows(s) /\ LookKnows(s)
  /\ ~world.overlap => \A s \in Sessions : Busy(s) => Alone(s)

\* The unique indexes.
Indexed ==
  /\ \A q, r \in Live("contract") : q = r
  /\ \A q, r \in Rows :
       rows[q] # NoRow /\ rows[r] # NoRow /\ rows[q].paper = rows[r].paper => q = r

IInv == TypeOK /\ Recorded /\ Orderly /\ Indexed /\ ActiveIsSignedAtTheOperator

-----------------------------------------------------------------------------
(* Lemmas about the data                                                     *)

LEMMA LadderIs ==
  /\ Ladder = {0, 1, 2, 3, 4, 5, 50, 55}
  /\ AWAITING_US = 2 /\ SIGNED = 3 /\ ANNULLED_BY_TAX = 50
  BY DEF Ladder, DRAFT, AWAITING_PARTNER, AWAITING_US, SIGNED, REJECTED, DELETED,
         ANNULLED_BY_TAX, DRAFT_DELETED

LEMMA RowIs ==
  ASSUME TypeOK, NEW r \in Rows
  PROVE  /\ rows[r] # NoRow <=> rows[r] \in Row
         /\ rows[r] # NoRow <=> rows[r].subject # "none"
<1>1. rows[r] \in Row \cup {NoRow} /\ NoRow.subject = "none"
  BY DEF TypeOK, NoRow
<1>2. \A k \in Row : k.subject # "none"
  BY DEF Row, Subjects
<1>3. QED
  BY <1>1, <1>2

LEMMA PaperIs ==
  ASSUME TypeOK, NEW p \in Papers
  PROVE  papers[p] # NoPaper <=> papers[p] \in Paper
<1>1. papers[p] \in Paper \cup {NoPaper} /\ NoPaper.subject = "none"
  BY DEF TypeOK, NoPaper
<1>2. \A k \in Paper : k.subject # "none"
  BY DEF Paper, Subjects
<1>3. QED
  BY <1>1, <1>2

\* A session at work on a document is a record of Session.
LEMMA WorkingSession ==
  ASSUME TypeOK, NEW s \in Sessions
  PROVE  /\ sess[s].job \in {"create", "sign", "poll"} => sess[s] \in Session /\ Busy(s)
         /\ Busy(s) /\ sess[s].job # "cancel" => sess[s] \in Session
<1>1. sess[s] \in Session \cup {Idle, Cancelling}
  BY DEF TypeOK
<1>2. Idle.job = "none" /\ Cancelling.job = "cancel"
  BY DEF Idle, Cancelling
<1>3. QED
  BY <1>1, <1>2 DEF Busy

\* What a document was signed as, it was signed: `signed` is in the past of
\* nothing but an annulment.
LEMMA SignedIsPast ==
  ASSUME NEW k \in Ladder, SIGNED \in {k} \cup Past[k]
  PROVE  k \in {SIGNED, ANNULLED_BY_TAX}
  BY LadderIs DEF Past, DRAFT, AWAITING_PARTNER, AWAITING_US, SIGNED, REJECTED, DELETED,
                  ANNULLED_BY_TAX, DRAFT_DELETED

LEMMA PastIsPast == ASSUME NEW k \in Ladder PROVE Past[k] \subseteq Ladder
  BY DEF Past, Ladder, DRAFT, AWAITING_PARTNER, AWAITING_US, SIGNED, REJECTED, DELETED,
         ANNULLED_BY_TAX, DRAFT_DELETED

\* Whoever asks is told a status, and `signed` only of what was signed.
LEMMA ReportedIs ==
  ASSUME NEW side, NEW k \in Ladder, NEW status \in Reported(side, k)
  PROVE  /\ status \in Ladder
         /\ status = SIGNED => k \in {SIGNED, ANNULLED_BY_TAX}
<1>1. status \in {k} \cup Past[k] \/ status = AWAITING_US
  BY DEF Reported
<1>2. AWAITING_US \in Ladder /\ AWAITING_US # SIGNED
  BY LadderIs
<1>3. QED
  BY <1>1, <1>2, SignedIsPast, PastIsPast

-----------------------------------------------------------------------------
(* The steps                                                                 *)

\* The operator forgets nothing: a document keeps its subject, and stays signed.
PapersAdvance ==
  \A p \in Papers : papers[p] # NoPaper =>
    /\ papers'[p] # NoPaper /\ papers'[p].subject = papers[p].subject
    /\ BothSigned(p) => BothSigned(p)'

\* A row keeps its document.
RowsAdvance ==
  \A r \in Rows : rows[r] # NoRow =>
    /\ rows'[r] # NoRow
    /\ rows'[r].subject = rows[r].subject /\ rows'[r].paper = rows[r].paper

\* A document is created, or one climbs the ladder.
LEMMA NewPaper ==
  ASSUME TypeOK, NEW p \in Papers, papers[p] = NoPaper, NEW subject \in Subjects,
         papers' = [papers EXCEPT ![p] = [subject |-> subject, status |-> DRAFT]]
  PROVE  /\ papers' \in [Papers -> Paper \cup {NoPaper}] /\ PapersAdvance
         /\ papers'[p] # NoPaper /\ papers'[p].subject = subject
<1>1. [subject |-> subject, status |-> DRAFT] \in Paper
  BY DEF Paper, Ladder
<1>2. papers' \in [Papers -> Paper \cup {NoPaper}]
  BY <1>1 DEF TypeOK
<1>3. PapersAdvance
  BY DEF TypeOK, PapersAdvance, BothSigned
<1>4. papers'[p] = [subject |-> subject, status |-> DRAFT] /\ NoPaper.subject = "none"
  BY DEF TypeOK, NoPaper
<1>5. QED
  BY <1>2, <1>3, <1>4 DEF Subjects

LEMMA PaperClimbs ==
  ASSUME TypeOK, NEW p \in Papers, papers[p] # NoPaper, NEW to \in Ladder,
         papers[p].status = SIGNED => to = ANNULLED_BY_TAX,
         papers[p].status # ANNULLED_BY_TAX,
         papers' = [papers EXCEPT ![p].status = to]
  PROVE  papers' \in [Papers -> Paper \cup {NoPaper}] /\ PapersAdvance
<1>1. papers[p] \in Paper
  BY PaperIs
<1>2. [papers[p] EXCEPT !.status = to] \in Paper
  BY <1>1 DEF Paper
<1>3. papers' \in [Papers -> Paper \cup {NoPaper}]
  BY <1>2 DEF TypeOK
<1>4. /\ papers'[p] = [papers[p] EXCEPT !.status = to]
      /\ \A q \in Papers \ {p} : papers'[q] = papers[q]
  BY DEF TypeOK
<1>5. /\ papers'[p].subject = papers[p].subject /\ papers'[p].status = to
      /\ papers'[p].subject # "none" /\ NoPaper.subject = "none"
  BY <1>1, <1>4 DEF Paper, Subjects, NoPaper
<1>6. QED
  BY <1>3, <1>4, <1>5 DEF PapersAdvance, BothSigned

\* Applying a status: the row at hand may change its status and its archive.
LEMMA ApplyWrites ==
  ASSUME TypeOK, NEW z \in Session, NEW status \in Ladder, rows[z.row] # NoRow,
         Apply(z, status), Indexed
  PROVE  /\ rows' \in [Rows -> Row \cup {NoRow}]
         /\ RowsAdvance
         /\ \A r \in Rows \ {z.row} : rows'[r] = rows[r]
         /\ z.seen = rows[z.row] => rows[z.row].status <= rows'[z.row].status
         /\ Indexed'
         /\ contract' \in {contract, "active"} /\ spec' \in {spec, "active", "declined"}
         /\ contract' = "active" /\ contract # "active" => z.subject = "contract" /\ status = SIGNED
         /\ spec' = "active" /\ spec # "active" => z.subject = "specification" /\ status = SIGNED
<1>1. rows[z.row] \in Row /\ z.row \in Rows
  BY RowIs DEF Session
<1>2. CASE ~News(z, status)
  <2>1. rows' = rows /\ contract' = contract /\ spec' = spec
    BY <1>2 DEF Apply
  <2>2. rows[z.row].status \in Nat
    BY <1>1, LadderIs DEF Row
  <2>3. QED
    BY <2>1, <2>2 DEF TypeOK, RowsAdvance, Indexed, Live
<1>3. CASE News(z, status)
  <2>1. PICK row \in Archived(Told(rows[z.row], z, status), z, status) :
          IndexAllows(z.row, row) /\ rows' = [rows EXCEPT ![z.row] = row]
    BY <1>3 DEF Apply
  <2>2. /\ Told(rows[z.row], z, status) \in Row
        /\ Told(rows[z.row], z, status).subject = rows[z.row].subject
        /\ Told(rows[z.row], z, status).paper = rows[z.row].paper
        /\ z.seen = rows[z.row] => Told(rows[z.row], z, status).status = status
    BY <1>1 DEF Told, Row
  <2>3. /\ row \in Row /\ row.subject = rows[z.row].subject /\ row.paper = rows[z.row].paper
        /\ z.seen = rows[z.row] => row.status = status
    BY <2>1, <2>2 DEF Archived, Row
  <2>4. /\ rows'[z.row] = row
        /\ \A r \in Rows \ {z.row} : rows'[r] = rows[r]
        /\ rows' \in [Rows -> Row \cup {NoRow}]
    BY <1>1, <2>1, <2>3 DEF TypeOK
  <2>5. row # NoRow
    BY <2>3 DEF Row, Subjects, NoRow
  <2>6. RowsAdvance
    BY <1>1, <2>3, <2>4, <2>5 DEF RowsAdvance
  <2>7. z.seen = rows[z.row] => rows[z.row].status <= rows'[z.row].status
    BY <1>3, <2>3, <2>4 DEF News
  <2>8. Indexed'
    <3>1. ASSUME NEW q \in Live("contract")', NEW r \in Live("contract")'
          PROVE  q = r
      <4>1. z.row \in Live("contract")' => Live("contract") \subseteq {z.row}
        BY <2>1, <2>4 DEF Live, IndexAllows
      <4>2. \A u \in Live("contract")' : u # z.row => u \in Live("contract")
        BY <2>4 DEF Live
      <4>3. QED
        BY <3>1, <4>1, <4>2 DEF Indexed
    <3>2. ASSUME NEW q \in Rows, NEW r \in Rows, rows'[q] # NoRow, rows'[r] # NoRow,
                 rows'[q].paper = rows'[r].paper
          PROVE  q = r
      BY <1>1, <2>3, <2>4, <3>2 DEF Indexed
    <3>3. QED
      BY <3>1, <3>2 DEF Indexed
  <2>9. contract' = ContractTold(z, status) /\ spec' = SpecTold(z, status)
    BY <1>3 DEF Apply
  <2>10. QED
    BY <2>4, <2>6, <2>7, <2>8, <2>9 DEF ContractTold, SpecTold, Counts
<1>4. QED
  BY <1>2, <1>3

-----------------------------------------------------------------------------
(* Sessions in progress                                                      *)

\* New rows are those of inserts that session s had in progress.
NewRowsOf(s) ==
  \A r \in Rows : rows[r] = NoRow /\ rows'[r] # NoRow =>
    sess[s].job = "create" /\ r = sess[s].row /\ rows'[r].paper \in sess[s].paper

\* Whatever the others do, a session that does nothing knows what it knew.
LEMMA Bystander ==
  ASSUME TypeOK, Orderly, PapersAdvance, RowsAdvance, world' = world,
         NEW t \in Sessions, sess'[t] = sess[t],
         \A r \in Rows : rows[r] = NoRow /\ rows'[r] # NoRow =>
           \E s \in Sessions \ {t} :
             sess[s].job = "create" /\ r = sess[s].row /\ rows'[r].paper \in sess[s].paper,
         sess[t].job = "create" =>
           \A s \in Sessions \ {t} : sess'[s].job = "create" =>
             sess'[s].row # sess[t].row /\ sess'[s].paper \cap sess[t].paper = {},
         ~world.overlap /\ Busy(t) => rows' = rows
  PROVE  CreateKnows(t)' /\ LookKnows(t)'
<1> DEFINE z == sess[t]
<1>1. CreateKnows(t) /\ LookKnows(t)
  BY DEF Orderly
<1>2. z.job \in {"create", "sign", "poll"} =>
        Busy(t) /\ z.row \in Rows /\ z.paper \subseteq Papers
  BY WorkingSession DEF Session
<1>3. CreateKnows(t)'
  <2>1. SUFFICES ASSUME z.job = "create" PROVE CreateKnows(t)'
    BY DEF CreateKnows
  <2>2. rows'[z.row] = NoRow
    BY <1>1, <1>2, <2>1 DEF CreateKnows
  <2>3. ASSUME NEW p \in z.paper
        PROVE  /\ papers'[p] # NoPaper /\ papers'[p].subject = z.subject
               /\ \A r \in Rows : rows'[r] # NoRow => rows'[r].paper # p
    <3>1. p \in Papers /\ papers[p] # NoPaper /\ papers[p].subject = z.subject
          /\ \A r \in Rows : rows[r] # NoRow => rows[r].paper # p
      BY <1>1, <1>2, <2>1 DEF CreateKnows
    <3>2. \A s \in Sessions : sess[s].job = "create" /\ s # t => p \notin sess[s].paper
      BY <1>1, <2>1 DEF CreateKnows
    <3>3. QED
      BY <3>1, <3>2 DEF PapersAdvance, RowsAdvance
  <2>4. QED
    BY <2>1, <2>2, <2>3 DEF CreateKnows
<1>4. LookKnows(t)'
  <2>1. SUFFICES ASSUME z.job \in {"sign", "poll"} PROVE LookKnows(t)'
    BY DEF LookKnows
  <2>2. rows'[z.row] # NoRow
    BY <1>1, <1>2, <2>1 DEF LookKnows, RowsAdvance
  <2>3. \A p \in z.paper : papers'[p] # NoPaper /\ papers'[p].subject = z.subject
    BY <1>1, <1>2, <2>1 DEF LookKnows, PapersAdvance
  <2>4. SIGNED \in z.read => \E p \in z.paper : BothSigned(p)'
    BY <1>1, <1>2, <2>1 DEF LookKnows, PapersAdvance
  <2>5. ~world.overlap => z.seen = rows'[z.row]
    BY <1>1, <1>2, <2>1 DEF LookKnows
  <2>6. QED
    BY <2>2, <2>3, <2>4, <2>5 DEF LookKnows
<1>5. QED
  BY <1>3, <1>4

\* A session that ends: its writes, if any, are of its own row.
LEMMA DoneOrderly ==
  ASSUME TypeOK, Orderly, PapersAdvance, RowsAdvance, world' = world,
         NEW s \in Sessions, Busy(s), Done(s), NewRowsOf(s)
  PROVE  Orderly' /\ sess' \in [Sessions -> Session \cup {Idle, Cancelling}]
<1>1. /\ sess'[s] = Idle /\ \A t \in Sessions \ {s} : sess'[t] = sess[t]
      /\ sess' \in [Sessions -> Session \cup {Idle, Cancelling}]
  BY DEF Done, TypeOK
<1>2. CreateKnows(s)' /\ LookKnows(s)'
  BY <1>1 DEF CreateKnows, LookKnows, Idle
<1>3. ASSUME NEW t \in Sessions \ {s}
      PROVE  CreateKnows(t)' /\ LookKnows(t)'
  <2>1. ~world.overlap => ~Busy(t)
    BY DEF Orderly, Alone
  <2>2. ASSUME sess[t].job = "create", NEW u \in Sessions \ {t}, sess'[u].job = "create"
        PROVE  sess'[u].row # sess[t].row /\ sess'[u].paper \cap sess[t].paper = {}
    BY <1>1, <2>2 DEF Orderly, CreateKnows, Idle
  <2>3. \A r \in Rows : rows[r] = NoRow /\ rows'[r] # NoRow =>
          \E u \in Sessions \ {t} :
            sess[u].job = "create" /\ r = sess[u].row /\ rows'[r].paper \in sess[u].paper
    BY DEF NewRowsOf
  <2>4. QED
    BY <1>1, <2>1, <2>2, <2>3, Bystander
<1>4. ~world.overlap => \A t \in Sessions : Busy(t)' => Alone(t)'
  BY <1>1 DEF Orderly, Alone, Busy
<1>5. QED
  BY <1>1, <1>2, <1>3, <1>4 DEF Orderly

\* A session that begins or goes on, and has written nothing.
LEMMA GoesOrderly ==
  ASSUME TypeOK, Orderly, PapersAdvance, rows' = rows, world' = world,
         NEW s \in Sessions, Busy(s) \/ MayBegin(s),
         NEW z \in Session \cup {Cancelling}, sess' = [sess EXCEPT ![s] = z],
         CreateKnows(s)', LookKnows(s)',
         z.job = "create" => \A t \in Sessions \ {s} : sess[t].job = "create" =>
           z.row # sess[t].row /\ z.paper \cap sess[t].paper = {}
  PROVE  Orderly' /\ sess' \in [Sessions -> Session \cup {Idle, Cancelling}]
<1>1. /\ sess'[s] = z /\ \A t \in Sessions \ {s} : sess'[t] = sess[t]
      /\ sess' \in [Sessions -> Session \cup {Idle, Cancelling}]
  BY DEF TypeOK
<1>2. RowsAdvance
  BY DEF RowsAdvance
<1>3. ASSUME NEW t \in Sessions \ {s}
      PROVE  CreateKnows(t)' /\ LookKnows(t)'
  <2>1. ASSUME sess[t].job = "create", NEW u \in Sessions \ {t}, sess'[u].job = "create"
        PROVE  sess'[u].row # sess[t].row /\ sess'[u].paper \cap sess[t].paper = {}
    BY <1>1, <2>1 DEF Orderly, CreateKnows
  <2>2. QED
    BY <1>1, <1>2, <2>1, Bystander
<1>4. ~world.overlap => \A t \in Sessions : Busy(t)' => Alone(t)'
  <2>1. ~world.overlap => \A t \in Sessions \ {s} : ~Busy(t)
    BY DEF Orderly, Alone, MayBegin
  <2>2. QED
    BY <1>1, <2>1 DEF Alone, Busy
<1>5. QED
  BY <1>1, <1>3, <1>4 DEF Orderly

\* The sessions rest.
LEMMA RestOrderly ==
  ASSUME TypeOK, Orderly, PapersAdvance, RowsAdvance, world' = world, sess' = sess,
         \A r \in Rows : rows[r] = NoRow => rows'[r] = NoRow,
         rows' = rows \/ world.overlap \/ \A t \in Sessions : ~Busy(t)
  PROVE  Orderly'
<1>1. ASSUME NEW t \in Sessions
      PROVE  CreateKnows(t)' /\ LookKnows(t)'
  <2>1. sess[t].job = "create" => \A s \in Sessions \ {t} : sess'[s].job = "create" =>
          sess'[s].row # sess[t].row /\ sess'[s].paper \cap sess[t].paper = {}
    BY DEF Orderly, CreateKnows
  <2>2. QED
    BY <2>1, Bystander
<1>2. QED
  BY <1>1 DEF Orderly, Alone, Busy

-----------------------------------------------------------------------------
(* What the rows and the contract stand for                                  *)

LEMMA RecordedStays ==
  ASSUME TypeOK, Recorded, PapersAdvance, RowsAdvance,
         \A r \in Rows : rows[r] = NoRow => rows'[r] = NoRow
  PROVE  Recorded'
<1>1. \A r \in Rows : rows[r] # NoRow => rows[r].paper \in Papers
  BY RowIs DEF Row
<1>2. QED
  BY <1>1 DEF Recorded, PapersAdvance, RowsAdvance

LEMMA ActiveStays ==
  ASSUME TypeOK, ActiveIsSignedAtTheOperator, PapersAdvance,
         contract' = "active" /\ contract # "active" => PapersSigned("contract"),
         spec' = "active" /\ spec # "active" => PapersSigned("specification")
  PROVE  ActiveIsSignedAtTheOperator'
<1>1. ASSUME NEW subject \in Subjects, PapersSigned(subject)
      PROVE  PapersSigned(subject)'
  <2>1. PICK p \in Papers : papers[p].subject = subject /\ BothSigned(p)
    BY <1>1 DEF PapersSigned, BothSigned
  <2>2. papers[p] # NoPaper
    BY <2>1 DEF NoPaper, Subjects
  <2>3. papers'[p].subject = subject /\ BothSigned(p)'
    BY <2>1, <2>2 DEF PapersAdvance
  <2>4. QED
    BY <2>3 DEF PapersSigned, BothSigned
<1>2. {"contract", "specification"} \subseteq Subjects
  BY DEF Subjects
<1>3. QED
  BY <1>1, <1>2 DEF ActiveIsSignedAtTheOperator

\* Nothing of the documents changes: what a step of the contract leaves alone.
LEMMA Still ==
  ASSUME TypeOK, Recorded, Indexed, rows' = rows, papers' = papers
  PROVE  Recorded' /\ Indexed' /\ PapersAdvance /\ RowsAdvance
<1>1. PapersAdvance /\ RowsAdvance
  BY DEF PapersAdvance, RowsAdvance, BothSigned
<1>2. QED
  BY <1>1 DEF Recorded, Indexed, Live

\* The contract closes, or gets a specification.
LEMMA ContractMoves ==
  ASSUME IInv, ContractCloses \/ CreateSpecification
  PROVE  IInv'
<1>1. /\ rows' = rows /\ papers' = papers /\ sess' = sess /\ world' = world
      /\ contract' \in {contract, "closed"} /\ spec' \in {spec, "draft"}
  BY DEF ContractCloses, CreateSpecification
<1>2. Recorded' /\ Indexed' /\ PapersAdvance /\ RowsAdvance
  BY <1>1, Still DEF IInv
<1>3. Orderly'
  BY <1>1, <1>2, RestOrderly DEF IInv
<1>4. ActiveIsSignedAtTheOperator'
  BY <1>1, <1>2, ActiveStays DEF IInv
<1>5. TypeOK'
  BY <1>1 DEF IInv, TypeOK, SpecStatuses
<1>6. QED
  BY <1>2, <1>3, <1>4, <1>5 DEF IInv

\* A document moves at the operator without a session of ours.
LEMMA OperatorStep ==
  ASSUME IInv, NEW p \in Papers, OperatorMoves(p)
  PROVE  IInv'
<1>1. PICK to \in Ladder :
        /\ <<papers[p].status, to>> \in OperatorClimbs
        /\ papers' = [papers EXCEPT ![p].status = to]
  BY DEF OperatorMoves
<1>2. /\ papers[p].status = SIGNED => to = ANNULLED_BY_TAX
      /\ papers[p].status # ANNULLED_BY_TAX
  BY <1>1 DEF OperatorClimbs, DRAFT, AWAITING_PARTNER, SIGNED, REJECTED, DELETED,
              ANNULLED_BY_TAX, DRAFT_DELETED
<1>3. papers' \in [Papers -> Paper \cup {NoPaper}] /\ PapersAdvance
  BY <1>1, <1>2, PaperClimbs DEF IInv, OperatorMoves
<1>4. rows' = rows /\ sess' = sess /\ world' = world /\ contract' = contract /\ spec' = spec
  BY DEF OperatorMoves
<1>5. RowsAdvance
  BY <1>4 DEF RowsAdvance
<1>6. Recorded' /\ Orderly' /\ ActiveIsSignedAtTheOperator'
  BY <1>3, <1>4, <1>5, RecordedStays, RestOrderly, ActiveStays DEF IInv
<1>7. TypeOK' /\ Indexed'
  BY <1>3, <1>4 DEF IInv, TypeOK, Indexed, Live
<1>8. QED
  BY <1>6, <1>7 DEF IInv

\* A status that is `signed` was read off a document both sides signed.
LEMMA EvidenceIs ==
  ASSUME TypeOK, NEW z \in Session, NEW status \in Ladder, Apply(z, status),
         rows[z.row] # NoRow, Indexed,
         status = SIGNED => \E p \in z.paper : BothSigned(p),
         \A p \in z.paper : papers[p].subject = z.subject
  PROVE  /\ contract' = "active" /\ contract # "active" => PapersSigned("contract")
         /\ spec' = "active" /\ spec # "active" => PapersSigned("specification")
<1>1. status = SIGNED => PapersSigned(z.subject)
  BY DEF PapersSigned, BothSigned, Session
<1>2. QED
  BY <1>1, ApplyWrites

\* A status is applied, by a session that holds it or by a quick pass.
LEMMA AppliedHolds ==
  ASSUME IInv, NEW z \in Session, NEW status \in Ladder, Apply(z, status),
         rows[z.row] # NoRow, papers' = papers, world' = world,
         status = SIGNED => \E p \in z.paper : BothSigned(p),
         \A p \in z.paper : papers[p].subject = z.subject
  PROVE  /\ Recorded' /\ Indexed' /\ ActiveIsSignedAtTheOperator'
         /\ PapersAdvance /\ RowsAdvance
         /\ \A r \in Rows : rows[r] = NoRow => rows'[r] = NoRow
         /\ sess' \in [Sessions -> Session \cup {Idle, Cancelling}] => TypeOK'
<1>1. /\ rows' \in [Rows -> Row \cup {NoRow}] /\ RowsAdvance /\ Indexed'
      /\ \A r \in Rows \ {z.row} : rows'[r] = rows[r]
      /\ contract' \in {contract, "active"} /\ spec' \in {spec, "active", "declined"}
  BY ApplyWrites DEF IInv
<1>2. PapersAdvance
  BY DEF PapersAdvance, BothSigned
<1>3. ActiveIsSignedAtTheOperator'
  BY <1>2, EvidenceIs, ActiveStays DEF IInv
<1>4. \A r \in Rows : rows[r] = NoRow => rows'[r] = NoRow
  BY <1>1
<1>5. Recorded'
  BY <1>1, <1>2, <1>4, RecordedStays DEF IInv
<1>6. sess' \in [Sessions -> Session \cup {Idle, Cancelling}] => TypeOK'
  BY <1>1 DEF IInv, TypeOK, SpecStatuses
<1>7. QED
  BY <1>1, <1>2, <1>3, <1>4, <1>5, <1>6

\* What a session knows of a row when it opens it.
LEMMA OpenedIs ==
  ASSUME IInv, NEW r \in Rows, rows[r] # NoRow, NEW job \in {"sign", "poll"}, NEW side \in Sides
  PROVE  /\ Opened(job, r, side) \in Session
         /\ rows[r].paper \in Papers
         /\ papers[rows[r].paper] # NoPaper
         /\ papers[rows[r].paper].subject = rows[r].subject
<1>1. rows[r] \in Row
  BY RowIs DEF IInv
<1>2. QED
  BY <1>1 DEF IInv, Recorded, Opened, Session, Row

\* A pass of the poller that is over at once.
LEMMA QuickStep ==
  ASSUME IInv, NEW r \in Rows, QuickPoll(r)
  PROVE  IInv'
<1> DEFINE z == Opened("poll", r, "owner")
           status == papers[rows[r].paper].status
<1>1. /\ rows[r] # NoRow /\ Apply(z, status) /\ "owner" \in Sides
      /\ world' = world /\ papers' = papers /\ sess' = sess
  BY DEF QuickPoll, Sides
<1>2. z \in Session /\ rows[r].paper \in Papers /\ papers[rows[r].paper] # NoPaper
      /\ papers[rows[r].paper].subject = rows[r].subject
  BY <1>1, OpenedIs
<1>3. status \in Ladder
  BY <1>2, PaperIs DEF IInv, Paper
<1>4. z.row = r /\ z.paper = {rows[r].paper} /\ z.subject = rows[r].subject
  BY DEF Opened
<1>5. status = SIGNED => \E p \in z.paper : BothSigned(p)
  BY <1>4 DEF BothSigned
<1>6. /\ Recorded' /\ Indexed' /\ ActiveIsSignedAtTheOperator'
      /\ PapersAdvance /\ RowsAdvance
      /\ \A q \in Rows : rows[q] = NoRow => rows'[q] = NoRow
      /\ sess' \in [Sessions -> Session \cup {Idle, Cancelling}] => TypeOK'
  <2> HIDE DEF z, status
  <2>1. \A p \in z.paper : papers[p].subject = z.subject
    BY <1>2, <1>4
  <2>2. QED
    BY <1>1, <1>2, <1>3, <1>4, <1>5, <2>1, AppliedHolds
<1>7. Orderly'
  BY <1>1, <1>6, RestOrderly DEF IInv, QuickPoll
<1>8. TypeOK'
  BY <1>1, <1>6 DEF IInv, TypeOK
<1>9. QED
  BY <1>6, <1>7, <1>8 DEF IInv

-----------------------------------------------------------------------------
(* A session's steps                                                         *)

\* A request or a pass begins.
LEMMA BeginStep ==
  ASSUME IInv, NEW s \in Sessions,
         \/ BeginCancel(s)
         \/ \E r \in Rows : \/ \E subject \in Subjects : BeginCreate(s, r, subject)
                            \/ \E side \in Sides : BeginSign(s, r, side)
                            \/ BeginPoll(s, r)
  PROVE  IInv'
<1>1. /\ MayBegin(s) /\ rows' = rows /\ papers' = papers /\ world' = world
      /\ contract' = contract /\ spec' = spec
  BY DEF BeginCancel, BeginCreate, BeginSign, BeginPoll
<1>2. Recorded' /\ Indexed' /\ PapersAdvance /\ RowsAdvance
  BY <1>1, Still DEF IInv
<1>3. ActiveIsSignedAtTheOperator'
  BY <1>1, <1>2, ActiveStays DEF IInv
<1>4. SUFFICES Orderly' /\ sess' \in [Sessions -> Session \cup {Idle, Cancelling}]
  BY <1>1, <1>2, <1>3 DEF IInv, TypeOK
<1>5. CASE BeginCancel(s)
  <2>1. sess' = [sess EXCEPT ![s] = Cancelling] /\ Cancelling.job = "cancel"
    BY <1>5 DEF BeginCancel, Cancelling
  <2>2. CreateKnows(s)' /\ LookKnows(s)'
    BY <2>1 DEF CreateKnows, LookKnows, IInv, TypeOK
  <2>3. QED
    BY <1>1, <1>2, <2>1, <2>2, GoesOrderly DEF IInv
<1>6. ASSUME NEW r \in Rows, NEW subject \in Subjects, BeginCreate(s, r, subject)
      PROVE  Orderly' /\ sess' \in [Sessions -> Session \cup {Idle, Cancelling}]
  <2> DEFINE z == [ job |-> "create", row |-> r, side |-> "owner", seen |-> NoRow,
                    subject |-> subject, paper |-> {}, step |-> "loaded", read |-> {} ]
  <2>1. sess' = [sess EXCEPT ![s] = z] /\ Fresh(r)
    BY <1>6 DEF BeginCreate
  <2>2. z \in Session
    BY DEF Session, Sides
  <2>3. /\ rows[r] = NoRow
        /\ \A t \in Sessions : sess[t].job = "create" => sess[t].row # r
    BY <2>1 DEF Fresh, Taken
  <2>4. sess'[s] = z /\ \A t \in Sessions \ {s} : sess'[t] = sess[t]
    BY <2>1 DEF IInv, TypeOK
  <2>5. CreateKnows(s)' /\ LookKnows(s)'
    BY <1>1, <2>3, <2>4 DEF CreateKnows, LookKnows
  <2>6. \A t \in Sessions \ {s} : sess[t].job = "create" =>
          z.row # sess[t].row /\ z.paper \cap sess[t].paper = {}
    BY <2>3
  <2>7. QED
    <3> HIDE DEF z
    <3> QED
      BY <1>1, <1>2, <2>1, <2>2, <2>5, <2>6, GoesOrderly DEF IInv
<1>7. ASSUME NEW r \in Rows, NEW job \in {"sign", "poll"}, NEW side \in Sides, rows[r] # NoRow,
             sess' = [sess EXCEPT ![s] = Opened(job, r, side)]
      PROVE  Orderly' /\ sess' \in [Sessions -> Session \cup {Idle, Cancelling}]
  <2>1. /\ Opened(job, r, side) \in Session /\ papers[rows[r].paper] # NoPaper
        /\ papers[rows[r].paper].subject = rows[r].subject
    BY <1>7, OpenedIs
  <2>2. sess'[s] = Opened(job, r, side)
    BY <1>7 DEF IInv, TypeOK
  <2>3. Opened(job, r, side).job = job
    BY DEF Opened
  <2>4. CreateKnows(s)' /\ LookKnows(s)'
    BY <1>1, <1>7, <2>1, <2>2 DEF CreateKnows, LookKnows, Opened
  <2>5. QED
    BY <1>1, <1>2, <1>7, <2>1, <2>3, <2>4, GoesOrderly DEF IInv
<1>8. ASSUME NEW r \in Rows, NEW side \in Sides, BeginSign(s, r, side)
      PROVE  Orderly' /\ sess' \in [Sessions -> Session \cup {Idle, Cancelling}]
  BY <1>7, <1>8 DEF BeginSign
<1>9. ASSUME NEW r \in Rows, BeginPoll(s, r)
      PROVE  Orderly' /\ sess' \in [Sessions -> Session \cup {Idle, Cancelling}]
  BY <1>7, <1>9 DEF BeginPoll, Sides
<1>10. QED
  BY <1>5, <1>6, <1>8, <1>9

\* A session ends without having written a document.
LEMMA EndStep ==
  ASSUME IInv, NEW s \in Sessions,
         Rollback(s) \/ ReadFails(s) \/ FinishCancel(s) \/ \E p \in Papers : AnswerLost(s, p)
  PROVE  IInv'
<1>1. Busy(s)
  BY WorkingSession DEF IInv, Rollback, ReadFails, FinishCancel, AnswerLost, Busy, Idle
<1>2. /\ Done(s) /\ rows' = rows /\ world' = world /\ contract' = contract
      /\ spec' \in {spec, "cancelled"}
  BY DEF Rollback, ReadFails, FinishCancel, AnswerLost
<1>3. papers' \in [Papers -> Paper \cup {NoPaper}] /\ PapersAdvance
  <2>1. CASE papers' = papers
    BY <2>1 DEF IInv, TypeOK, PapersAdvance, BothSigned
  <2>2. ASSUME NEW p \in Papers, AnswerLost(s, p)
        PROVE  papers' \in [Papers -> Paper \cup {NoPaper}] /\ PapersAdvance
    <3>1. sess[s].subject \in Subjects
      BY <2>2, WorkingSession DEF IInv, AnswerLost, Session
    <3>2. QED
      BY <2>2, <3>1, NewPaper DEF IInv, AnswerLost, FreshPaper
  <2>3. QED
    BY <2>1, <2>2 DEF Rollback, ReadFails, FinishCancel
<1>4. RowsAdvance /\ NewRowsOf(s)
  BY <1>2 DEF RowsAdvance, NewRowsOf
<1>5. Orderly' /\ sess' \in [Sessions -> Session \cup {Idle, Cancelling}]
  BY <1>1, <1>2, <1>3, <1>4, DoneOrderly DEF IInv
<1>6. Recorded' /\ ActiveIsSignedAtTheOperator'
  BY <1>2, <1>3, <1>4, RecordedStays, ActiveStays DEF IInv
<1>7. TypeOK' /\ Indexed'
  BY <1>2, <1>3, <1>5 DEF IInv, TypeOK, SpecStatuses, Indexed, Live
<1>8. QED
  BY <1>5, <1>6, <1>7 DEF IInv

\* The operator creates or signs the document a session is about.
LEMMA CallStep ==
  ASSUME IInv, NEW s \in Sessions,
         OperatorSigns(s) \/ \E p \in Papers : OperatorCreates(s, p)
  PROVE  IInv'
<1> DEFINE z == sess[s]
<1>1. /\ Busy(s) /\ z \in Session /\ rows' = rows /\ world' = world
      /\ contract' = contract /\ spec' = spec
  BY WorkingSession DEF IInv, OperatorSigns, OperatorCreates
<1>2. RowsAdvance
  BY <1>1 DEF RowsAdvance
<1>3. SUFFICES /\ papers' \in [Papers -> Paper \cup {NoPaper}] /\ PapersAdvance
               /\ Orderly' /\ sess' \in [Sessions -> Session \cup {Idle, Cancelling}]
  <2>1. PapersAdvance => Recorded' /\ ActiveIsSignedAtTheOperator'
    BY <1>1, <1>2, RecordedStays, ActiveStays DEF IInv
  <2>2. QED
    BY <1>1, <2>1 DEF IInv, TypeOK, Indexed, Live
<1>4. CASE OperatorSigns(s)
  <2>1. PICK p \in z.paper :
          /\ papers[p].status = Signable[z.side]
          /\ papers' = [papers EXCEPT ![p].status = SignedBy[z.side]]
    BY <1>4 DEF OperatorSigns
  <2>2. LookKnows(s) /\ z.job = "sign" /\ sess' = [sess EXCEPT ![s].step = "sent"]
    BY <1>4 DEF IInv, Orderly, OperatorSigns
  <2>3. p \in Papers /\ papers[p] # NoPaper
    BY <1>1, <2>1, <2>2 DEF LookKnows, Session
  <2>4. /\ SignedBy[z.side] \in Ladder
        /\ Signable[z.side] \in {DRAFT, AWAITING_PARTNER}
    BY <1>1 DEF Session, Sides, SignedBy, Signable, Ladder
  <2>5. Signable[z.side] \notin {SIGNED, ANNULLED_BY_TAX}
    BY <2>4 DEF DRAFT, AWAITING_PARTNER, SIGNED, ANNULLED_BY_TAX
  <2>6. papers' \in [Papers -> Paper \cup {NoPaper}] /\ PapersAdvance
    BY <2>1, <2>3, <2>4, <2>5, PaperClimbs DEF IInv
  <2>7. [z EXCEPT !.step = "sent"] \in Session
    BY <1>1 DEF Session
  <2>8. sess' = [sess EXCEPT ![s] = [z EXCEPT !.step = "sent"]]
    BY <2>2
  <2>9. /\ sess'[s].job = "sign" /\ sess'[s].row = z.row /\ sess'[s].paper = z.paper
        /\ sess'[s].subject = z.subject /\ sess'[s].read = z.read /\ sess'[s].seen = z.seen
        /\ [z EXCEPT !.step = "sent"].job = "sign"
    BY <1>1, <2>2, <2>8 DEF IInv, TypeOK, Session
  <2>10. CreateKnows(s)'
    BY <2>9 DEF CreateKnows
  <2>11. LookKnows(s)'
    BY <1>1, <2>2, <2>6, <2>9 DEF LookKnows, PapersAdvance, Session
  <2>12. QED
    BY <1>1, <2>6, <2>7, <2>8, <2>9, <2>10, <2>11, GoesOrderly DEF IInv
<1>5. ASSUME NEW p \in Papers, OperatorCreates(s, p)
      PROVE  /\ papers' \in [Papers -> Paper \cup {NoPaper}] /\ PapersAdvance
             /\ Orderly' /\ sess' \in [Sessions -> Session \cup {Idle, Cancelling}]
  <2> DEFINE y == [z EXCEPT !.step = "sent", !.paper = {p}]
  <2>1. /\ z.job = "create" /\ papers[p] = NoPaper /\ sess' = [sess EXCEPT ![s] = y]
        /\ papers' = [papers EXCEPT ![p] = [subject |-> z.subject, status |-> DRAFT]]
    BY <1>5 DEF OperatorCreates, FreshPaper
  <2>2. /\ papers' \in [Papers -> Paper \cup {NoPaper}] /\ PapersAdvance
        /\ papers'[p] # NoPaper /\ papers'[p].subject = z.subject
    BY <1>1, <2>1, NewPaper DEF IInv, Session
  <2>3. y \in Session /\ y.job = "create" /\ y.row = z.row /\ y.paper = {p} /\ y.subject = z.subject
    BY <1>1, <2>1 DEF Session
  <2>4. sess'[s] = y /\ \A t \in Sessions \ {s} : sess'[t] = sess[t]
    BY <2>1 DEF IInv, TypeOK
  <2> HIDE DEF y
  <2>5. \A r \in Rows : rows[r] # NoRow => rows[r].paper # p
    BY <2>1 DEF IInv, Recorded
  <2>6. \A t \in Sessions \ {s} : sess[t].job = "create" =>
          y.row # sess[t].row /\ y.paper \cap sess[t].paper = {}
    BY <2>1, <2>3 DEF IInv, Orderly, CreateKnows
  <2>7. CreateKnows(s)'
    BY <1>1, <2>1, <2>2, <2>3, <2>4, <2>5, <2>6 DEF IInv, Orderly, CreateKnows
  <2>8. LookKnows(s)'
    BY <2>3, <2>4 DEF LookKnows
  <2>9. QED
    BY <1>1, <2>1, <2>2, <2>3, <2>6, <2>7, <2>8, GoesOrderly DEF IInv
<1>6. QED
  BY <1>4, <1>5

\* A session asks the operator for the status of its document.
LEMMA ReadStep ==
  ASSUME IInv, NEW s \in Sessions, ReadStatus(s)
  PROVE  IInv'
<1> DEFINE z == sess[s]
<1>1. /\ Busy(s) /\ z \in Session /\ z.job \in {"sign", "poll"}
      /\ rows' = rows /\ papers' = papers /\ world' = world
      /\ contract' = contract /\ spec' = spec
  BY WorkingSession DEF IInv, ReadStatus
<1>2. PICK p \in z.paper : \E status \in Reported(z.side, papers[p].status) :
        sess' = [sess EXCEPT ![s].step = "read", ![s].read = {status}]
  BY DEF ReadStatus
<1>2b. PICK status \in Reported(z.side, papers[p].status) :
        sess' = [sess EXCEPT ![s].step = "read", ![s].read = {status}]
  BY <1>2
<1>3. LookKnows(s)
  BY DEF IInv, Orderly
<1>4. p \in Papers /\ papers[p] \in Paper
  BY <1>1, <1>2, <1>3, PaperIs DEF IInv, LookKnows, Session
<1>5. status \in Ladder /\ (status = SIGNED => BothSigned(p))
  BY <1>2b, <1>4, ReportedIs DEF Paper, BothSigned
<1> DEFINE y == [z EXCEPT !.step = "read", !.read = {status}]
<1>6. sess' = [sess EXCEPT ![s] = y]
  BY <1>2b
<1>7. /\ y \in Session /\ y.job = z.job /\ y.row = z.row /\ y.paper = z.paper
      /\ y.subject = z.subject /\ y.seen = z.seen /\ y.read = {status}
  BY <1>1, <1>5 DEF Session
<1>8. sess'[s] = y
  BY <1>6 DEF IInv, TypeOK
<1> HIDE DEF y
<1>9. CreateKnows(s)' /\ LookKnows(s)'
  BY <1>1, <1>2, <1>3, <1>5, <1>7, <1>8 DEF CreateKnows, LookKnows, BothSigned
<1>10. Recorded' /\ Indexed' /\ PapersAdvance /\ RowsAdvance
  BY <1>1, Still DEF IInv
<1>11. Orderly' /\ sess' \in [Sessions -> Session \cup {Idle, Cancelling}]
  BY <1>1, <1>6, <1>7, <1>9, <1>10, GoesOrderly DEF IInv
<1>12. ActiveIsSignedAtTheOperator'
  BY <1>1, <1>10, ActiveStays DEF IInv
<1>13. QED
  BY <1>1, <1>10, <1>11, <1>12 DEF IInv, TypeOK

\* The row of a new document is committed.
LEMMA InsertStep ==
  ASSUME IInv, NEW s \in Sessions, CommitCreate(s)
  PROVE  IInv' /\ \A r \in Rows : rows[r] # NoRow => rows'[r] = rows[r]
<1> DEFINE z == sess[s]
<1>1. /\ Busy(s) /\ z \in Session /\ z.job = "create" /\ Done(s)
      /\ papers' = papers /\ world' = world /\ contract' = contract
      /\ spec' \in {spec, "pending_signatures"}
  BY WorkingSession DEF IInv, CommitCreate, SpecSent
<1> DEFINE New(p) == [subject |-> z.subject, paper |-> p, status |-> DRAFT, archive |-> FALSE]
<1>2. PICK p \in z.paper : IndexAllows(z.row, New(p)) /\ rows' = [rows EXCEPT ![z.row] = New(p)]
  BY DEF CommitCreate
<1> DEFINE new == New(p)
<1>3. CreateKnows(s) /\ p \in Papers /\ z.row \in Rows
  BY <1>1, <1>2 DEF IInv, Orderly, Session
<1>4. /\ new \in Row /\ new.paper = p /\ new.subject = z.subject /\ new # NoRow
      /\ IndexAllows(z.row, new) /\ rows' = [rows EXCEPT ![z.row] = new]
  BY <1>1, <1>2, <1>3 DEF Row, Session, Ladder, NoRow, Subjects
<1> HIDE DEF new
<1>5. /\ rows'[z.row] = new /\ rows[z.row] = NoRow
      /\ \A r \in Rows \ {z.row} : rows'[r] = rows[r]
      /\ rows' \in [Rows -> Row \cup {NoRow}]
  BY <1>1, <1>3, <1>4 DEF IInv, TypeOK, CreateKnows
<1>6. /\ papers[p] # NoPaper /\ papers[p].subject = z.subject
      /\ \A r \in Rows : rows[r] # NoRow => rows[r].paper # p
  BY <1>1, <1>2, <1>3 DEF CreateKnows
<1>7. PapersAdvance /\ RowsAdvance /\ NewRowsOf(s)
  BY <1>1, <1>2, <1>4, <1>5 DEF PapersAdvance, RowsAdvance, NewRowsOf, BothSigned
<1>8. Orderly' /\ sess' \in [Sessions -> Session \cup {Idle, Cancelling}]
  BY <1>1, <1>7, DoneOrderly DEF IInv
<1>9. Recorded'
  BY <1>1, <1>4, <1>5, <1>6 DEF IInv, Recorded
<1>10. Indexed'
  <2>1. ASSUME NEW q \in Live("contract")', NEW r \in Live("contract")'
        PROVE  q = r
    <3>1. z.row \in Live("contract")' => Live("contract") \subseteq {z.row}
      BY <1>4, <1>5 DEF Live, IndexAllows
    <3>2. \A u \in Live("contract")' : u # z.row => u \in Live("contract")
      BY <1>5 DEF Live
    <3>3. QED
      BY <2>1, <3>1, <3>2 DEF IInv, Indexed
  <2>2. ASSUME NEW q \in Rows, NEW r \in Rows, rows'[q] # NoRow, rows'[r] # NoRow,
               rows'[q].paper = rows'[r].paper
        PROVE  q = r
    BY <1>4, <1>5, <1>6, <2>2 DEF IInv, Indexed
  <2>3. QED
    BY <2>1, <2>2 DEF Indexed
<1>11. ActiveIsSignedAtTheOperator'
  BY <1>1, <1>7, ActiveStays DEF IInv
<1>12. TypeOK'
  BY <1>1, <1>5, <1>8 DEF IInv, TypeOK, SpecStatuses
<1>13. QED
  BY <1>5, <1>8, <1>9, <1>10, <1>11, <1>12 DEF IInv

\* A session commits what it makes of the status it read.
LEMMA CommitStep ==
  ASSUME IInv, NEW s \in Sessions, CommitStatus(s)
  PROVE  /\ IInv'
         /\ ~world.overlap => \A r \in Rows : rows[r] # NoRow => rows[r].status <= rows'[r].status
<1> DEFINE z == sess[s]
<1>1. /\ Busy(s) /\ z \in Session /\ z.job \in {"sign", "poll"} /\ Done(s)
      /\ papers' = papers /\ world' = world
  BY WorkingSession DEF IInv, CommitStatus
<1>2. PICK status \in z.read : Apply(z, status)
  BY DEF CommitStatus
<1>3. LookKnows(s) /\ status \in Ladder /\ z.row \in Rows
  BY <1>1, <1>2 DEF IInv, Orderly, Session
<1>4. /\ rows[z.row] # NoRow
      /\ status = SIGNED => \E p \in z.paper : BothSigned(p)
      /\ \A p \in z.paper : papers[p].subject = z.subject
      /\ ~world.overlap => z.seen = rows[z.row]
  BY <1>1, <1>2, <1>3 DEF LookKnows
<1>5. /\ Recorded' /\ Indexed' /\ ActiveIsSignedAtTheOperator'
      /\ PapersAdvance /\ RowsAdvance
      /\ \A r \in Rows : rows[r] = NoRow => rows'[r] = NoRow
      /\ sess' \in [Sessions -> Session \cup {Idle, Cancelling}] => TypeOK'
  <2> HIDE DEF z
  <2> QED
    BY <1>1, <1>2, <1>3, <1>4, AppliedHolds
<1>6. NewRowsOf(s)
  BY <1>5 DEF NewRowsOf
<1>7. Orderly' /\ sess' \in [Sessions -> Session \cup {Idle, Cancelling}]
  BY <1>1, <1>5, <1>6, DoneOrderly DEF IInv
<1>8. ASSUME ~world.overlap, NEW r \in Rows, rows[r] # NoRow
      PROVE  rows[r].status <= rows'[r].status
  <2>1. /\ \A q \in Rows \ {z.row} : rows'[q] = rows[q]
        /\ rows[z.row].status <= rows'[z.row].status
    BY <1>1, <1>2, <1>3, <1>4, <1>8, ApplyWrites DEF IInv
  <2>2. rows[r].status \in Nat
    BY <1>8, RowIs, LadderIs DEF IInv, Row
  <2>3. QED
    BY <2>1, <2>2
<1>9. QED
  BY <1>5, <1>7, <1>8 DEF IInv

-----------------------------------------------------------------------------
(* The theorems                                                              *)

LEMMA InitHolds == Init => IInv
<1> SUFFICES ASSUME Init PROVE IInv
  OBVIOUS
<1>1. TypeOK
  BY DEF Init, TypeOK, SpecStatuses
<1>2. /\ \A r \in Rows : rows[r] = NoRow /\ rows[r].subject # "contract"
      /\ \A s \in Sessions : sess[s] = Idle /\ sess[s].job = "none"
      /\ contract # "active" /\ spec # "active"
  BY DEF Init, Idle, NoRow
<1>3. Recorded /\ Orderly /\ Indexed /\ ActiveIsSignedAtTheOperator
  BY <1>2 DEF Recorded, Orderly, CreateKnows, LookKnows, Busy, Indexed, Live,
              ActiveIsSignedAtTheOperator
<1>4. QED
  BY <1>1, <1>3 DEF IInv

LEMMA StepHolds == IInv /\ [Next]_vars => IInv'
<1> SUFFICES ASSUME IInv, [Next]_vars PROVE IInv'
  OBVIOUS
<1>1. CASE ContractCloses \/ CreateSpecification
  BY <1>1, ContractMoves
<1>2. ASSUME NEW s \in Sessions, Creates(s)
      PROVE  IInv'
  BY <1>2, BeginStep, CallStep, EndStep, InsertStep DEF Creates
<1>3. ASSUME NEW s \in Sessions, Signs(s)
      PROVE  IInv'
  BY <1>3, BeginStep, CallStep, EndStep DEF Signs
<1>4. ASSUME NEW s \in Sessions, NEW r \in Rows, BeginPoll(s, r)
      PROVE  IInv'
  BY <1>4, BeginStep
<1>5. ASSUME NEW s \in Sessions, ReadStatus(s) \/ CommitStatus(s)
      PROVE  IInv'
  BY <1>5, ReadStep, CommitStep
<1>6. ASSUME NEW s \in Sessions, BeginCancel(s) \/ FinishCancel(s) \/ Rollback(s)
      PROVE  IInv'
  BY <1>6, BeginStep, EndStep
<1>7. ASSUME NEW r \in Rows, QuickPoll(r)
      PROVE  IInv'
  BY <1>7, QuickStep
<1>8. ASSUME NEW p \in Papers, OperatorMoves(p)
      PROVE  IInv'
  BY <1>8, OperatorStep
<1>9. CASE UNCHANGED vars
  <2>1. Recorded' /\ Indexed' /\ PapersAdvance /\ RowsAdvance
    BY <1>9, Still DEF IInv, vars
  <2>2. Orderly'
    BY <1>9, <2>1, RestOrderly DEF IInv, vars
  <2>3. ActiveIsSignedAtTheOperator' /\ TypeOK'
    BY <1>9, <2>1, ActiveStays DEF IInv, vars, TypeOK
  <2>4. QED
    BY <2>1, <2>2, <2>3 DEF IInv
<1>10. QED
  BY <1>1, <1>2, <1>3, <1>4, <1>5, <1>6, <1>7, <1>8, <1>9 DEF Next

LEMMA Inductive == Spec => []IInv
<1>1. IInv /\ [Next]_vars => IInv'
  BY StepHolds
<1>2. QED
  BY <1>1, InitHolds, PTL DEF Spec

\* The contract, its specification, the rows, the documents and the sessions
\* hold what their columns allow.
THEOREM TypeCorrect == Spec => []TypeOK
<1>1. IInv => TypeOK
  BY DEF IInv
<1>2. QED
  BY <1>1, Inductive, PTL

\* apply_status and activate_from_provider: nothing is active without a document
\* that both sides signed, for any number of documents and overlapping sessions,
\* whatever answers are lost or out of date.
THEOREM ActiveMeansSigned == Spec => []ActiveIsSignedAtTheOperator
<1>1. IInv => ActiveIsSignedAtTheOperator
  BY DEF IInv
<1>2. QED
  BY <1>1, Inductive, PTL

\* uq_didox_documents_subject and uq_didox_documents_didox_id: two sessions that
\* create the contract's document leave one row, and no document has two.
THEOREM RowsAreUnique == Spec => []OneRowPerDocument
<1>1. IInv => OneRowPerDocument
  <2> SUFFICES ASSUME IInv PROVE Cardinality(Live("contract")) <= 1
    BY DEF IInv, Indexed, OneRowPerDocument
  <2>1. CASE Live("contract") = {}
    BY <2>1, FS_EmptySet
  <2>2. ASSUME NEW r \in Live("contract")
        PROVE  Cardinality(Live("contract")) <= 1
    <3>1. Live("contract") = {r}
      BY <2>2 DEF IInv, Indexed
    <3>2. QED
      BY <3>1, FS_Singleton
  <2>3. QED
    BY <2>1, <2>2
<1>2. QED
  BY <1>1, Inductive, PTL

\* apply_status is forward-only: where sessions do not overlap no row goes back
\* down the operator's ladder, however old the status that was read.
THEOREM RowsClimb == Spec => StatusOnlyAdvances
<1> DEFINE Climbs ==
      ~world.overlap =>
        \A r \in Rows : rows[r] # NoRow => rows[r].status <= rows'[r].status
<1>1. ASSUME IInv, [Next]_vars PROVE Climbs
  <2>1. CASE rows' = rows
    BY <1>1, <2>1, RowIs, LadderIs DEF IInv, Row
  <2>2. ASSUME NEW s \in Sessions, CommitCreate(s) PROVE Climbs
    <3>1. \A r \in Rows : rows[r] # NoRow => rows'[r] = rows[r] /\ rows[r].status \in Nat
      BY <1>1, <2>2, InsertStep, RowIs, LadderIs DEF IInv, Row
    <3>2. QED
      BY <3>1
  <2>3. ASSUME NEW s \in Sessions, CommitStatus(s) PROVE Climbs
    BY <1>1, <2>3, CommitStep
  <2>4. ASSUME NEW r \in Rows, QuickPoll(r) PROVE Climbs
    <3> DEFINE z == Opened("poll", r, "owner")
               status == papers[rows[r].paper].status
    <3>1. rows[r] # NoRow /\ Apply(z, status) /\ "owner" \in Sides
      BY <2>4 DEF QuickPoll, Sides
    <3>2. z \in Session /\ rows[r].paper \in Papers /\ papers[rows[r].paper] # NoPaper
      BY <1>1, <3>1, OpenedIs
    <3>3. status \in Ladder
      BY <1>1, <3>2, PaperIs DEF IInv, Paper
    <3>4. z.row = r /\ z.seen = rows[r]
      BY DEF Opened
    <3>5. /\ \A q \in Rows \ {r} : rows'[q] = rows[q]
          /\ rows[r].status <= rows'[r].status
      <4> HIDE DEF z, status
      <4> QED
        BY <1>1, <3>1, <3>2, <3>3, <3>4, ApplyWrites DEF IInv
    <3>6. \A q \in Rows : rows[q] # NoRow => rows[q].status \in Nat
      BY <1>1, RowIs, LadderIs DEF IInv, Row
    <3>7. QED
      BY <3>5, <3>6
  <2>5. \/ rows' = rows
        \/ \E s \in Sessions : CommitCreate(s) \/ CommitStatus(s)
        \/ \E r \in Rows : QuickPoll(r)
    BY <1>1
    DEF Next, vars, ContractCloses, CreateSpecification, Creates, BeginCreate, OperatorCreates,
        AnswerLost, Signs, BeginSign, OperatorSigns, ReadFails, BeginPoll, ReadStatus,
        BeginCancel, FinishCancel, Rollback, OperatorMoves
  <2>6. QED
    BY <2>1, <2>2, <2>3, <2>4, <2>5
<1>2. QED
  BY <1>1, Inductive, PTL DEF Spec, StatusOnlyAdvances

=============================================================================
