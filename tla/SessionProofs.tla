---------------------------- MODULE SessionProofs ----------------------------
(****************************************************************************)
(* A deal under database sessions, proved for any number of them.            *)
(*                                                                           *)
(* Whatever doors overlap, the history ends where the deal is and the rail   *)
(* of a payment stays frozen (IInv): a session whose copy is out of date     *)
(* still writes a status together with its history row or neither, because   *)
(* no move leads from a status to itself, and the rail is written by one     *)
(* insert alone, which the database refuses where there is a payment.        *)
(*                                                                           *)
(* Where only the tasks that apply bank callbacks overlap, more holds        *)
(* (JInv): whoever moves the payment has its lock, so the copy of any other  *)
(* session is either up to date or late by a movement that leaves nothing to *)
(* apply.  A copy that is up to date commits what the operators of           *)
(* EscrowLedger make of the row; hence the history is one walk, the system   *)
(* moves the deal for money once, and sessions that run one at a time        *)
(* implement DealEscrow.                                                     *)
(****************************************************************************)
EXTENDS DealSessions, SequenceTheorems, FiniteSetTheorems, TLAPS

EndsAt(r) == r.log # <<>> => r.log[Len(r.log)].to = r.status

\* What a session may do to its copy `old`, whose history is empty: status and
\* history together or neither, and no rail.
Moves(old, new) ==
  /\ new \in Row
  /\ new.status # old.status => new.status \in DealStatuses
  /\ new.pay # old.pay => new.pay \in EscrowStatuses
  /\ new.log = <<>> <=> new.status = old.status
  /\ EndsAt(new)

\* A movement that _apply_mark accepts.
Movable(v, to) ==
  /\ MovementExists(v, to)
  /\ ReleaseIsDue(v, to)
  /\ DealStays(v, to) \/ <<v.status, DEAL_EFFECT[to]>> \in VALID_TRANSITIONS

\* The doors that call transition themselves.
FromDeal == {"party", "resolve", "contract"}

\* What a session in progress may rely on: its copy passed the checks of its
\* door, and only the deal doors lock the deal first.
Steady(x) ==
  /\ x.view.log = <<>>
  /\ x.call[1] \in FromDeal => <<x.view.status, x.call[2]>> \in VALID_TRANSITIONS
  /\ x.call[1] = "invoice" =>
       /\ <<x.view.status, "payment_pending">> \in VALID_TRANSITIONS
       /\ x.view.pay = "none"
  /\ x.call[1] \in {"mark", "confirm"} => Movable(x.view, x.call[2])
  /\ "deal" \in x.held => x.call[1] \in FromDeal

Knows(s) ==
  /\ row.status # "none"
  /\ Steady(sess[s])
  /\ Door(s) = "bank" => inbox[By(s)] # NoCallback

Rail ==
  /\ row.status = "none" => row.pay = "none"
  /\ row.pay = "none" => row.mode = "none"
  /\ \A c \in Callbacks : inbox[c] # NoCallback => row.status # "none"

IInv ==
  /\ TypeOK
  /\ EndsAt(row)
  /\ Rail
  /\ \A s \in Sessions : Busy(s) => Knows(s)

-----------------------------------------------------------------------------
(* The tables                                                                *)

\* No move stays where it is, none leaves a closed deal or a deal that is not
\* there.
LEMMA MoveFacts ==
  ASSUME NEW from, NEW to, <<from, to>> \in VALID_TRANSITIONS
  PROVE  /\ from \in DealStatuses /\ to \in DealStatuses /\ from # to
         /\ from \notin {"completed", "cancelled"}
  BY DEF VALID_TRANSITIONS, DealStatuses, Restorable

LEMMA MarkFacts ==
  ASSUME NEW v, NEW to, MovementExists(v, to)
  PROVE  /\ to \in {"funded", "released", "refunded"} /\ to \in EscrowStatuses /\ v.pay # "none"
         /\ DEAL_EFFECT[to] \in {"paid_escrow", "completed", "cancelled"}
         /\ to = "funded" => DEAL_EFFECT[to] = "paid_escrow"
  BY DEF MovementExists, ESCROW_TRANSITIONS, EscrowStatuses, DEAL_EFFECT

LEMMA CallFacts ==
  ASSUME NEW c \in Calls
  PROVE  /\ c[1] \in Doors
         /\ c[1] \in FromDeal => c[2] \in DealStatuses /\ c[3] \in Actors
         /\ c[1] \in {"mark", "confirm"} => c[2] \in EscrowStatuses
         /\ c[1] = "bank" => c[2] \in Claims /\ c[3] \in Callbacks
  BY DEF Calls, Doors, FromDeal, Expected, DealStatuses, Actors, Parties, EscrowStatuses

-----------------------------------------------------------------------------
(* What the operators of EscrowLedger do to a copy                           *)

LEMMA MovedIs ==
  ASSUME NEW r \in Row, r.status \in DealStatuses, NEW to \in DealStatuses, NEW actor \in Actors
  PROVE  /\ Moved(r, to, actor) \in Row
         /\ Moved(r, to, actor).status = to
         /\ Moved(r, to, actor).pay = r.pay
         /\ Moved(r, to, actor).mode = r.mode
         /\ Moved(r, to, actor).log # <<>>
         /\ EndsAt(Moved(r, to, actor))
<1> DEFINE entry == [from |-> r.status, to |-> to, actor |-> actor]
           l == Append(r.log, entry)
           m == Moved(r, to, actor)
<1>1. r.log \in Seq(LogRow) /\ entry \in LogRow /\ entry.to = to
  BY DEF Row, LogRow
<1>2. l \in Seq(LogRow) /\ Len(l) = Len(r.log) + 1 /\ l[Len(l)] = entry /\ l # <<>>
  <2> HIDE DEF entry
  <2>1. l \in Seq(LogRow) /\ Len(l) = Len(r.log) + 1 /\ l[Len(r.log) + 1] = entry
    BY <1>1, AppendProperties
  <2>2. QED
    BY <1>1, <2>1, LenProperties, EmptySeq
<1>3. m = [r EXCEPT !.status = to, !.log = l]
  BY DEF Moved
<1> HIDE DEF l
<1>4. m \in Row /\ m.status = to /\ m.pay = r.pay /\ m.mode = r.mode /\ m.log = l
  BY <1>2, <1>3 DEF Row
<1>5. QED
  BY <1>1, <1>2, <1>4 DEF EndsAt

\* settle_direct moves on from `delivered`, or does nothing.
LEMMA SettleIs ==
  ASSUME NEW r \in Row
  PROVE  /\ SettleDirect(r) = r
            \/ /\ r.status = "delivered"
               /\ SettleDirect(r).status = "completed"
               /\ SettleDirect(r).pay = "released"
               /\ SettleDirect(r).log # <<>>
               /\ EndsAt(SettleDirect(r))
         /\ SettleDirect(r) \in Row /\ SettleDirect(r).mode = r.mode
<1> DEFINE q == [r EXCEPT !.pay = "released"]
<1>1. q \in Row /\ q.status = r.status /\ q.pay = "released" /\ q.mode = r.mode
  BY DEF Row, EscrowStatuses
<1>2. {"delivered", "completed"} \subseteq DealStatuses /\ "system" \in Actors
  BY DEF DealStatuses, Actors
<1> HIDE DEF q
<1>3. CASE r.mode = "direct" /\ r.pay = "funded" /\ r.status = "delivered"
  <2>1. SettleDirect(r) = Moved(q, "completed", "system")
    BY <1>3 DEF SettleDirect, q
  <2>2. QED
    BY <1>1, <1>2, <1>3, <2>1, MovedIs
<1>4. CASE ~(r.mode = "direct" /\ r.pay = "funded" /\ r.status = "delivered")
  BY <1>4 DEF SettleDirect
<1>5. QED
  BY <1>3, <1>4

LEMMA TransitionMoves ==
  ASSUME NEW v \in Row, v.log = <<>>, NEW to, <<v.status, to>> \in VALID_TRANSITIONS,
         NEW actor \in Actors
  PROVE  Moves(v, Transitioned(v, to, actor)) /\ Transitioned(v, to, actor).mode = v.mode
<1> DEFINE m == Moved(v, to, actor)
<1>1. /\ m \in Row /\ m.status = to /\ m.pay = v.pay /\ m.mode = v.mode
      /\ m.log # <<>> /\ EndsAt(m)
      /\ to \in DealStatuses /\ to # v.status /\ v.status \notin {"completed", "cancelled"}
  BY MoveFacts, MovedIs
<1>2. Transitioned(v, to, actor) \in {m, SettleDirect(m)}
  BY DEF Transitioned
<1> HIDE DEF m
<1>3. "completed" \in DealStatuses /\ "released" \in EscrowStatuses
  BY DEF DealStatuses, EscrowStatuses
<1>4. Moves(v, m) /\ m.mode = v.mode
  BY <1>1 DEF Moves
<1>5. Moves(v, SettleDirect(m)) /\ SettleDirect(m).mode = v.mode
  BY <1>1, <1>3, <1>4, SettleIs DEF Moves
<1>6. QED
  BY <1>2, <1>4, <1>5

LEMMA MarkMoves ==
  ASSUME NEW v \in Row, v.log = <<>>, NEW to, Movable(v, to)
  PROVE  Moves(v, Marked(v, to)) /\ Marked(v, to).mode = v.mode
<1> DEFINE paid == [v EXCEPT !.pay = to]
           dragged == IF DealStays(v, to) THEN paid
                      ELSE Moved(paid, DEAL_EFFECT[to], DragActor(to))
<1>1. to \in EscrowStatuses /\ DragActor(to) \in Actors
  BY MarkFacts DEF Movable, DragActor, Actors
<1>2. paid \in Row /\ paid.status = v.status /\ paid.pay = to /\ paid.mode = v.mode /\ paid.log = <<>>
  BY <1>1 DEF Row
<1>3. Marked(v, to) = IF to = "funded" THEN SettleDirect(dragged) ELSE dragged
  BY DEF Marked
<1>4. "completed" \in DealStatuses /\ "released" \in EscrowStatuses
  BY DEF DealStatuses, EscrowStatuses
<1> HIDE DEF paid
<1>5. CASE DealStays(v, to)
  <2>1. dragged = paid
    BY <1>5
  <2>2. Moves(v, paid) /\ paid.mode = v.mode
    BY <1>1, <1>2 DEF Moves, EndsAt
  <2>3. Moves(v, SettleDirect(paid)) /\ SettleDirect(paid).mode = v.mode
    BY <1>2, <1>4, <2>2, SettleIs DEF Moves
  <2>4. QED
    BY <1>3, <2>1, <2>2, <2>3
<1>6. CASE ~DealStays(v, to)
  <2> DEFINE m == Moved(paid, DEAL_EFFECT[to], DragActor(to))
  <2>1. <<v.status, DEAL_EFFECT[to]>> \in VALID_TRANSITIONS
    BY <1>6 DEF Movable
  <2>2. /\ m \in Row /\ m.status = DEAL_EFFECT[to] /\ m.pay = to /\ m.mode = v.mode
        /\ m.log # <<>> /\ EndsAt(m)
        /\ m.status \in DealStatuses /\ m.status # v.status
    BY <1>1, <1>2, <2>1, MoveFacts, MovedIs
  <2>3. to = "funded" => m.status # "delivered"
    BY <2>2, MarkFacts DEF Movable
  <2>4. dragged = m
    BY <1>6
  <2> HIDE DEF m
  <2>5. Moves(v, m)
    BY <1>1, <2>2 DEF Moves
  <2>6. to = "funded" => SettleDirect(m) = m
    BY <2>3 DEF SettleDirect
  <2>7. QED
    BY <1>3, <2>2, <2>4, <2>5, <2>6
<1>7. QED
  BY <1>5, <1>6

LEMMA InvoiceMoves ==
  ASSUME NEW v \in Row, v.log = <<>>, <<v.status, "payment_pending">> \in VALID_TRANSITIONS,
         NEW mode \in Modes
  PROVE  /\ Moves(v, Invoiced(v, mode))
         /\ Invoiced(v, mode).pay = "pending" /\ Invoiced(v, mode).mode = mode
<1> DEFINE q == [v EXCEPT !.pay = "pending", !.mode = mode]
<1>1. q \in Row /\ q.status = v.status /\ q.pay = "pending" /\ q.mode = mode
  BY DEF Row, EscrowStatuses
<1>2. Invoiced(v, mode) = Moved(q, "payment_pending", "system")
  BY DEF Invoiced
<1> HIDE DEF q
<1>3. "system" \in Actors /\ "pending" \in EscrowStatuses
  BY DEF Actors, EscrowStatuses
<1>4. QED
  BY <1>1, <1>2, <1>3, MoveFacts, MovedIs DEF Moves

\* A verdict moves what _apply_mark accepts, or nothing.
LEMMA VerdictMoves ==
  ASSUME NEW v \in Row, v.log = <<>>, NEW claim, NEW fits
  PROVE  /\ Moves(v, Applied(v, claim, fits)) /\ Applied(v, claim, fits).mode = v.mode
         /\ Verdict(v, claim, fits) \in Verdicts
<1>1. Verdict(v, claim, fits) \in Verdicts
  BY DEF Verdict, Verdicts, HoldReasons
<1>2. CASE Verdict(v, claim, fits) = "applied"
  <2>1. MovementExists(v, claim) /\ ReleaseIsDue(v, claim) /\ DealFollows(v, claim, "bank")
    BY <1>2 DEF Verdict
  <2>2. Movable(v, claim)
    BY <2>1 DEF Movable, DealFollows, CanMove
  <2>3. QED
    BY <1>1, <1>2, <2>2, MarkMoves DEF Applied
<1>3. CASE Verdict(v, claim, fits) # "applied"
  <2>1. Moves(v, v)
    BY DEF Moves, EndsAt
  <2>2. QED
    BY <1>1, <1>3, <2>1 DEF Applied
<1>4. QED
  BY <1>2, <1>3

\* The flush of a copy leaves a row whose history ends at its status, whatever
\* became of the row since it was loaded.
LEMMA FlushKeeps ==
  ASSUME row \in Row, EndsAt(row), row.status # "none",
         NEW old \in Row, old.log = <<>>, NEW new, Moves(old, new)
  PROVE  LET f == Flushed(old, new)
         IN  /\ f \in Row /\ EndsAt(f) /\ f.status # "none"
             /\ f.pay = IF new.pay # old.pay THEN new.pay ELSE row.pay
             /\ f.mode = IF new.mode # old.mode THEN new.mode ELSE row.mode
<1> DEFINE l == row.log \o new.log
           f == Flushed(old, new)
           status == IF new.status # old.status THEN new.status ELSE row.status
           pay == IF new.pay # old.pay THEN new.pay ELSE row.pay
           mode == IF new.mode # old.mode THEN new.mode ELSE row.mode
<1>1. row.log \in Seq(LogRow) /\ new.log \in Seq(LogRow)
  BY DEF Moves, Row
<1>2. /\ l \in Seq(LogRow) /\ Len(l) = Len(row.log) + Len(new.log)
      /\ Len(new.log) > 0 => l[Len(l)] = new.log[Len(new.log)]
  <2> DEFINE a == row.log
             b == new.log
  <2> HIDE DEF a, b
  <2>1. a \in Seq(LogRow) /\ b \in Seq(LogRow)
    BY <1>1 DEF a, b
  <2>2. /\ a \o b \in Seq(LogRow) /\ Len(a \o b) = Len(a) + Len(b)
        /\ \A i \in 1 .. Len(a) + Len(b) :
             (a \o b)[i] = IF i <= Len(a) THEN a[i] ELSE b[i - Len(a)]
    BY <2>1, ConcatProperties
  <2>3. Len(a) \in Nat /\ Len(b) \in Nat
    BY <2>1, LenProperties
  <2>4. Len(b) > 0 => (a \o b)[Len(a) + Len(b)] = b[Len(b)]
    <3> SUFFICES ASSUME Len(b) > 0
                 PROVE  (a \o b)[Len(a) + Len(b)] = b[Len(b)]
      OBVIOUS
    <3>1. /\ Len(a) + Len(b) \in 1 .. Len(a) + Len(b) /\ ~(Len(a) + Len(b) <= Len(a))
          /\ Len(a) + Len(b) - Len(a) = Len(b)
      BY <2>3
    <3>2. QED
      BY <2>2, <3>1
  <2>5. QED
    BY <2>2, <2>4 DEF a, b
<1>3. f = [row EXCEPT !.status = status, !.pay = pay, !.mode = mode, !.log = l]
  BY DEF Flushed
<1>4. /\ status \in DealStatuses \cup {"none"} /\ status # "none"
      /\ pay \in EscrowStatuses \cup {"none"} /\ mode \in Modes \cup {"none"}
  BY DEF Moves, Row, DealStatuses
<1>5. new.log = <<>> => l = row.log /\ status = row.status
  <2>1. new.log = <<>> => l = row.log
    BY <1>1, ConcatEmptySeq
  <2>2. QED
    BY <2>1 DEF Moves
<1>6. new.log # <<>> => Len(new.log) > 0 /\ status = new.status
  BY <1>1, LenProperties, EmptySeq DEF Moves
<1> HIDE DEF l, status, pay, mode
<1>7. f \in Row /\ f.status = status /\ f.pay = pay /\ f.mode = mode /\ f.log = l
  BY <1>2, <1>3, <1>4 DEF Row
<1>8. EndsAt(f)
  <2>1. CASE new.log = <<>>
    BY <1>5, <1>7, <2>1 DEF EndsAt
  <2>2. CASE new.log # <<>>
    BY <1>2, <1>6, <1>7, <2>2 DEF EndsAt, Moves
  <2>3. QED
    BY <2>1, <2>2
<1>9. QED
  BY <1>4, <1>7, <1>8 DEF pay, mode

-----------------------------------------------------------------------------
(* Sessions                                                                  *)

LEMMA SessionIs ==
  ASSUME TypeOK, NEW s \in Sessions, Busy(s)
  PROVE  /\ sess[s] \in Session /\ sess[s].call \in Calls /\ sess[s].view \in Row
         /\ Door(s) \in Doors
         /\ Door(s) \in FromDeal => By(s) \in Actors
         /\ Door(s) = "bank" => To(s) \in Claims /\ By(s) \in Callbacks
<1>1. sess[s] \in Session /\ sess[s].call \in Calls /\ sess[s].view \in Row
  BY DEF TypeOK, Busy, Session
<1>2. QED
  BY <1>1, CallFacts DEF Door, To, By

\* What another session knows outlives a step of session s: a deal does not
\* disappear, nor does a callback.
LEMMA OthersKnow ==
  ASSUME IInv, NEW s \in Sessions, NEW x, sess' = [sess EXCEPT ![s] = x],
         row'.status # "none",
         \A c \in Callbacks : inbox[c] # NoCallback => inbox'[c] # NoCallback,
         NEW t \in Sessions, t # s, Busy(t)'
  PROVE  Knows(t)'
<1>1. sess'[t] = sess[t]
  BY DEF IInv, TypeOK
<1>2. Busy(t)
  BY <1>1 DEF Busy
<1>3. Knows(t) /\ (Door(t) = "bank" => By(t) \in Callbacks)
  BY <1>2, SessionIs DEF IInv
<1>4. QED
  BY <1>1, <1>3 DEF Knows, Door, By

\* A session ends with nothing written.
LEMMA RollbackKeeps ==
  ASSUME IInv, NEW s \in Sessions, Rollback(s)
  PROVE  IInv' /\ row' = row
<1>1. sess' = [sess EXCEPT ![s] = Idle] /\ row' = row /\ inbox' = inbox
  BY DEF Rollback
<1>2. TypeOK'
  BY <1>1 DEF IInv, TypeOK
<1>3. EndsAt(row)' /\ Rail'
  BY <1>1 DEF IInv, EndsAt, Rail
<1>4. ASSUME NEW t \in Sessions, Busy(t)' PROVE Knows(t)'
  <2>1. CASE t = s
    BY <1>1, <1>4, <2>1 DEF IInv, TypeOK, Busy
  <2>2. CASE t # s
    <3>1. sess'[t] = sess[t] /\ Busy(t)
      BY <1>1, <1>4, <2>2 DEF IInv, TypeOK, Busy
    <3>2. Knows(t) /\ (Door(t) = "bank" => By(t) \in Callbacks)
      BY <3>1, SessionIs DEF IInv
    <3>3. QED
      BY <1>1, <3>1, <3>2 DEF Knows, Door, By
  <2>3. QED
    BY <2>1, <2>2
<1>5. QED
  BY <1>1, <1>2, <1>3, <1>4 DEF IInv

\* A session commits: whatever it moves its copy to, the row's history ends at
\* its status, and the rail changes only where there was no payment.
LEMMA CommitKeeps ==
  ASSUME IInv, NEW s \in Sessions, Busy(s),
         NEW old \in Row, old.log = <<>>, NEW new, Moves(old, new),
         \/ new.mode = old.mode
         \/ row.pay = "none" /\ old.pay = "none" /\ new.pay = "pending",
         row' = Flushed(old, new), sess' = [sess EXCEPT ![s] = Idle],
         inbox' \in [Callbacks -> Callback \cup {NoCallback}],
         \A c \in Callbacks : inbox[c] # NoCallback <=> inbox'[c] # NoCallback
  PROVE  IInv' /\ (row.mode # "none" => row'.mode = row.mode)
<1>1. row.status # "none" /\ row \in Row /\ EndsAt(row) /\ Rail
  BY DEF IInv, Knows, TypeOK
<1>2. /\ row' \in Row /\ EndsAt(row') /\ row'.status # "none"
      /\ row'.pay = IF new.pay # old.pay THEN new.pay ELSE row.pay
      /\ row'.mode = IF new.mode # old.mode THEN new.mode ELSE row.mode
  BY <1>1, FlushKeeps
<1>3. new.pay # old.pay => new.pay # "none"
  BY DEF Moves, EscrowStatuses
<1>4. Rail'
  BY <1>1, <1>2, <1>3 DEF Rail
<1>5. row.mode # "none" => row'.mode = row.mode
  BY <1>1, <1>2 DEF Rail
<1>6. TypeOK'
  BY <1>2 DEF IInv, TypeOK
<1>7. ASSUME NEW t \in Sessions, Busy(t)' PROVE Knows(t)'
  <2>1. CASE t = s
    BY <1>7, <2>1 DEF IInv, TypeOK, Busy
  <2>2. CASE t # s
    BY <1>2, <1>7, <2>2, OthersKnow
  <2>3. QED
    BY <2>1, <2>2
<1>8. QED
  BY <1>2, <1>4, <1>5, <1>6, <1>7 DEF IInv, EndsAt

\* A session waits for its second lock with the copy it has by now.
LEMMA HoldKeeps ==
  ASSUME IInv, NEW s \in Sessions, Busy(s), NEW v \in Row, Hold(s, v),
         Steady([sess[s] EXCEPT !.view = v, !.held = {FirstLock(s)}])
  PROVE  IInv' /\ row' = row
<1> DEFINE x == [sess[s] EXCEPT !.view = v, !.held = {FirstLock(s)}]
<1>1. sess' = [sess EXCEPT ![s] = x] /\ row' = row /\ inbox' = inbox
  BY DEF Hold
<1>2. sess[s] \in Session /\ FirstLock(s) \in {"pay", "deal"}
  BY SessionIs DEF IInv, FirstLock
<1>3. x \in Session /\ x.call = sess[s].call
  BY <1>2 DEF Session
<1>4. Steady(x)
  OBVIOUS
<1> HIDE DEF x
<1>5. TypeOK'
  BY <1>1, <1>3 DEF IInv, TypeOK
<1>6. EndsAt(row)' /\ Rail' /\ row'.status # "none"
  BY <1>1 DEF IInv, EndsAt, Rail, Knows
<1>7. ASSUME NEW t \in Sessions, Busy(t)' PROVE Knows(t)'
  <2>1. CASE t = s
    <3>1. sess'[t] = x
      BY <1>1, <2>1 DEF IInv, TypeOK
    <3>2. Knows(s)
      BY DEF IInv
    <3>3. QED
      BY <1>1, <1>3, <1>4, <2>1, <3>1, <3>2 DEF Knows, Door, By
  <2>2. CASE t # s
    BY <1>1, <1>6, <1>7, <2>2, OthersKnow
  <2>3. QED
    BY <2>1, <2>2
<1>8. QED
  BY <1>1, <1>5, <1>6, <1>7 DEF IInv

-----------------------------------------------------------------------------
(* The steps                                                                 *)

\* What every step is shown to keep.
Kept == IInv' /\ (row.mode # "none" => row'.mode = row.mode)

LEMMA InitHolds == Init => IInv
<1> SUFFICES ASSUME Init PROVE IInv
  OBVIOUS
<1>1. NoDeal \in Row
  <2>1. <<>> \in Seq(LogRow)
    BY EmptySeq
  <2>2. QED
    BY <2>1 DEF NoDeal, Row
<1>2. TypeOK
  BY <1>1 DEF Init, TypeOK
<1>3. EndsAt(row) /\ Rail
  BY DEF Init, NoDeal, EndsAt, Rail
<1>4. \A s \in Sessions : ~Busy(s)
  BY DEF Init, Busy
<1>5. QED
  BY <1>2, <1>3, <1>4 DEF IInv

LEMMA OpenDealKeeps ==
  ASSUME IInv, OpenDeal
  PROVE  Kept
<1>1. PICK priced \in BOOLEAN : row' = Opened(priced)
  BY DEF OpenDeal
<1>2. row.status = "none" /\ row.mode = "none" /\ sess' = sess /\ inbox' = inbox
  BY DEF OpenDeal, IInv, Rail
<1>3. Opened(priced) \in Row /\ EndsAt(Opened(priced))
  <2> DEFINE entry == [from |-> "none", to |-> "negotiation", actor |-> "buyer"]
  <2>1. entry \in LogRow /\ entry.to = "negotiation"
    BY DEF LogRow, DealStatuses, Actors, Parties
  <2> HIDE DEF entry
  <2>2. <<entry>> \in Seq(LogRow) /\ Len(<<entry>>) = 1 /\ <<entry>>[1] = entry
    BY <2>1
  <2>3. Opened(priced) = [ status |-> "negotiation", priced |-> priced, pay |-> "none",
                           mode |-> "none", ref |-> FALSE, log |-> <<entry>> ]
    BY DEF Opened, entry
  <2>4. "negotiation" \in DealStatuses
    BY DEF DealStatuses
  <2>5. QED
    BY <2>1, <2>2, <2>3, <2>4 DEF Row, EndsAt
<1>4. TypeOK'
  BY <1>1, <1>2, <1>3 DEF IInv, TypeOK
<1>5. EndsAt(row)' /\ Rail'
  BY <1>1, <1>2, <1>3 DEF Opened, EndsAt, Rail
<1>6. \A s \in Sessions : ~Busy(s)'
  BY <1>2 DEF IInv, Knows, Busy
<1>7. QED
  BY <1>2, <1>4, <1>5, <1>6 DEF Kept, IInv

LEMMA AdapterKeeps ==
  ASSUME IInv, AdapterNamesRef
  PROVE  Kept
<1>1. row' = [row EXCEPT !.ref = TRUE] /\ sess' = sess /\ inbox' = inbox
  BY DEF AdapterNamesRef
<1>2. /\ row' \in Row /\ row'.status = row.status /\ row'.pay = row.pay
      /\ row'.mode = row.mode /\ row'.log = row.log
  BY <1>1 DEF IInv, TypeOK, Row
<1>3. TypeOK' /\ EndsAt(row)' /\ Rail'
  BY <1>1, <1>2 DEF IInv, TypeOK, EndsAt, Rail
<1>4. \A s \in Sessions : ~Busy(s)'
  BY <1>1 DEF AdapterNamesRef, Busy
<1>5. QED
  BY <1>2, <1>3, <1>4 DEF Kept, IInv

LEMMA RecordCallbackKeeps ==
  ASSUME IInv, NEW c \in Callbacks, RecordCallback(c)
  PROVE  Kept
<1>1. PICK claim \in Claims, fits \in BOOLEAN :
        inbox' = [inbox EXCEPT ![c] = [claim |-> claim, fits |-> fits, verdict |-> "new"]]
  BY DEF RecordCallback
<1>2. row' = row /\ sess' = sess /\ row.status # "none"
  BY DEF RecordCallback
<1>3. inbox' \in [Callbacks -> Callback \cup {NoCallback}]
  BY <1>1 DEF IInv, TypeOK, Callback
<1>4. [claim |-> claim, fits |-> fits, verdict |-> "new"] # NoCallback
  BY DEF NoCallback
<1>5. \A d \in Callbacks : inbox[d] # NoCallback => inbox'[d] # NoCallback
  BY <1>1, <1>4 DEF IInv, TypeOK
<1>6. TypeOK' /\ EndsAt(row)' /\ Rail'
  BY <1>2, <1>3 DEF IInv, TypeOK, EndsAt, Rail
<1>7. ASSUME NEW t \in Sessions, Busy(t)' PROVE Knows(t)'
  <2>1. Busy(t)
    BY <1>2, <1>7 DEF Busy
  <2>2. Knows(t) /\ (Door(t) = "bank" => By(t) \in Callbacks)
    BY <2>1, SessionIs DEF IInv
  <2>3. QED
    BY <1>2, <1>5, <2>2 DEF Knows, Door, By
<1>8. QED
  BY <1>2, <1>6, <1>7 DEF Kept, IInv

\* A session begins on a call that its door admits.
LEMMA BeginKeeps ==
  ASSUME IInv, NEW s \in Sessions, NEW call \in Calls, Begin(s, call)
  PROVE  Kept
<1> DEFINE view == [row EXCEPT !.log = <<>>]
           x == [call |-> call, view |-> view, held |-> {}]
           Ready == /\ row.status # "none" /\ Steady(x)
                    /\ call[1] = "bank" => inbox[call[3]] # NoCallback
<1>1. sess' = [sess EXCEPT ![s] = x] /\ row' = row /\ inbox' = inbox
  BY DEF Begin
<1>2. /\ view \in Row /\ view.status = row.status /\ view.pay = row.pay
      /\ view.mode = row.mode /\ view.log = <<>>
  <2>1. <<>> \in Seq(LogRow)
    BY EmptySeq
  <2>2. QED
    BY <2>1 DEF IInv, TypeOK, Row
<1>3. x \in Session /\ x.call = call /\ x.held = {} /\ x.view = view
  BY <1>2 DEF Session
<1> HIDE DEF x, view
<1>4. Admitted(call[1], call[2], call[3]) /\ call[1] \in Doors
  BY CallFacts DEF Begin
<1>5. ASSUME call[1] \in FromDeal PROVE Ready
  <2>1. CanMove(row, call[2], call[3])
    BY <1>4, <1>5 DEF Admitted, FromDeal
  <2>2. <<row.status, call[2]>> \in VALID_TRANSITIONS
    BY <2>1 DEF CanMove
  <2>3. row.status # "none"
    BY <2>2, MoveFacts DEF DealStatuses
  <2>4. Steady(x)
    BY <1>2, <1>3, <1>5, <2>2 DEF Steady, FromDeal
  <2>5. QED
    BY <1>5, <2>3, <2>4 DEF FromDeal
<1>6. ASSUME call[1] = "invoice" PROVE Ready
  <2>1. CanInvoice(row)
    BY <1>4, <1>6 DEF Admitted
  <2>2. row.pay = "none" /\ <<row.status, "payment_pending">> \in VALID_TRANSITIONS
    BY <2>1 DEF CanInvoice, CanMove
  <2>3. row.status # "none"
    BY <2>2, MoveFacts DEF DealStatuses
  <2>4. Steady(x)
    BY <1>2, <1>3, <1>6, <2>2 DEF Steady, FromDeal
  <2>5. QED
    BY <1>6, <2>3, <2>4
<1>7. ASSUME call[1] \in {"mark", "confirm"} PROVE Ready
  <2>1. \E door : CanMark(row, call[2], door)
    <3>1. CASE call[1] = "mark"
      BY <1>4, <3>1 DEF Admitted
    <3>2. CASE call[1] = "confirm"
      <4>1. call \in {"confirm"} \X {"funded"} \X {"seller"}
        BY <3>2 DEF Calls
      <4>2. call[2] = "funded"
        BY <4>1
      <4>3. CanConfirm(row)
        BY <1>4, <3>2 DEF Admitted
      <4>4. QED
        BY <4>2, <4>3 DEF CanConfirm
    <3>3. QED
      BY <1>7, <3>1, <3>2
  <2>2. Movable(row, call[2])
    BY <2>1 DEF CanMark, DealFollows, CanMove, Movable
  <2>3. row.status # "none"
    BY <2>2 DEF Movable, MovementExists, IInv, Rail, ESCROW_TRANSITIONS
  <2>4. Movable(view, call[2])
    BY <1>2, <2>2 DEF Movable, MovementExists, ReleaseIsDue, DealStays
  <2>5. Steady(x)
    BY <1>2, <1>3, <1>7, <2>4 DEF Steady, FromDeal
  <2>6. QED
    BY <1>7, <2>3, <2>5
<1>8. ASSUME call[1] = "bank" PROVE Ready
  <2>1. inbox[call[3]].verdict = "new" /\ call[3] \in Callbacks
    BY <1>4, <1>8, CallFacts DEF Admitted
  <2>2. inbox[call[3]] # NoCallback
    BY <2>1 DEF NoCallback
  <2>3. row.status # "none"
    BY <2>1, <2>2 DEF IInv, Rail
  <2>4. Steady(x)
    BY <1>2, <1>3, <1>8 DEF Steady, FromDeal
  <2>5. QED
    BY <2>2, <2>3, <2>4
<1>9. Ready
  BY <1>4, <1>5, <1>6, <1>7, <1>8 DEF Doors, FromDeal
<1>10. TypeOK' /\ EndsAt(row)' /\ Rail'
  BY <1>1, <1>3 DEF IInv, TypeOK, EndsAt, Rail
<1>11. ASSUME NEW t \in Sessions, Busy(t)' PROVE Knows(t)'
  <2>1. CASE t = s
    <3>1. sess'[t] = x
      BY <1>1, <2>1 DEF IInv, TypeOK
    <3>2. QED
      BY <1>1, <1>3, <1>9, <3>1 DEF Knows, Door, By
  <2>2. CASE t # s
    BY <1>1, <1>9, <1>11, <2>2, OthersKnow
  <2>3. QED
    BY <2>1, <2>2
<1>12. QED
  BY <1>1, <1>10, <1>11 DEF Kept, IInv

\* Sessions that leave the callbacks alone.
LEMMA CommitStep ==
  ASSUME IInv, NEW s \in Sessions, Busy(s),
         NEW old \in Row, old.log = <<>>, NEW new, Moves(old, new),
         \/ new.mode = old.mode
         \/ row.pay = "none" /\ old.pay = "none" /\ new.pay = "pending",
         Commit(s, old, new)
  PROVE  Kept
<1>1. row' = Flushed(old, new) /\ sess' = [sess EXCEPT ![s] = Idle] /\ inbox' = inbox
  BY DEF Commit
<1>2. inbox' \in [Callbacks -> Callback \cup {NoCallback}]
  BY <1>1 DEF IInv, TypeOK
<1>3. \A c \in Callbacks : inbox[c] # NoCallback <=> inbox'[c] # NoCallback
  BY <1>1
<1>4. QED
  BY <1>1, <1>2, <1>3, CommitKeeps DEF Kept

LEMMA HoldStep ==
  ASSUME IInv, NEW s \in Sessions, Busy(s), NEW v \in Row, Hold(s, v), v.log = <<>>,
         Door(s) \in FromDeal => v.status = sess[s].view.status,
         Door(s) \in FromDeal \cup {"bank"} \/ (v = sess[s].view /\ Door(s) # "invoice")
  PROVE  Kept
<1> DEFINE x == [sess[s] EXCEPT !.view = v, !.held = {FirstLock(s)}]
<1>1. sess[s] \in Session /\ Steady(sess[s]) /\ Door(s) \in Doors
  BY SessionIs DEF IInv, Knows
<1>2. x.call = sess[s].call /\ x.view = v /\ x.held = {FirstLock(s)}
  BY <1>1 DEF Session
<1>3. "deal" \in {FirstLock(s)} => Door(s) \in FromDeal \cup {"invoice"}
  BY <1>1 DEF FirstLock, FromPayment, FromDeal, Doors
<1> HIDE DEF x
<1>4. Steady(x)
  BY <1>1, <1>2, <1>3 DEF Steady, Door, FromDeal
<1>5. IInv' /\ row' = row
  BY <1>4, HoldKeeps DEF x
<1>6. QED
  BY <1>5 DEF Kept

LEMMA LockDealKeeps ==
  ASSUME IInv, NEW s \in Sessions, LockDeal(s)
  PROVE  Kept
<1> DEFINE v == WithPayment(sess[s].view)
<1>1. /\ Busy(s) /\ Door(s) \in FromDeal
      /\ \/ Hold(s, v)
         \/ Commit(s, v, Transitioned(v, To(s), By(s)))
  BY DEF LockDeal, FromDeal
<1>2. sess[s].view \in Row /\ By(s) \in Actors /\ Steady(sess[s])
  BY <1>1, SessionIs DEF IInv, Knows
<1>3. v \in Row /\ v.status = sess[s].view.status /\ v.log = <<>>
  BY <1>2 DEF WithPayment, Row, IInv, TypeOK, Steady
<1>4. <<v.status, To(s)>> \in VALID_TRANSITIONS
  BY <1>1, <1>2, <1>3 DEF Steady, Door, To
<1> HIDE DEF v
<1>5. ASSUME Hold(s, v) PROVE Kept
  <2>1. Door(s) \in FromDeal \cup {"bank"}
    BY <1>1
  <2>2. QED
    BY <1>1, <1>3, <1>5, <2>1, HoldStep DEF FromDeal
<1>6. CASE Commit(s, v, Transitioned(v, To(s), By(s)))
  <2>1. /\ Moves(v, Transitioned(v, To(s), By(s)))
        /\ Transitioned(v, To(s), By(s)).mode = v.mode
    BY <1>2, <1>3, <1>4, TransitionMoves
  <2>2. QED
    BY <1>1, <1>3, <1>6, <2>1, CommitStep
<1>7. QED
  BY <1>1, <1>5, <1>6

LEMMA LockPaymentToSettleKeeps ==
  ASSUME IInv, NEW s \in Sessions, LockPaymentToSettle(s)
  PROVE  Kept
<1> DEFINE v == sess[s].view
<1>1. Busy(s) /\ sess[s].held = {"deal"} /\ Commit(s, v, Transitioned(v, To(s), By(s)))
  BY DEF LockPaymentToSettle
<1>2. v \in Row /\ Steady(sess[s]) /\ (Door(s) \in FromDeal => By(s) \in Actors)
  BY <1>1, SessionIs DEF IInv, Knows
<1>3. v.log = <<>> /\ By(s) \in Actors /\ <<v.status, To(s)>> \in VALID_TRANSITIONS
  BY <1>1, <1>2 DEF Steady, Door, To
<1>4. /\ Moves(v, Transitioned(v, To(s), By(s)))
      /\ Transitioned(v, To(s), By(s)).mode = v.mode
  BY <1>2, <1>3, TransitionMoves
<1>5. QED
  BY <1>1, <1>2, <1>3, <1>4, CommitStep

\* mark and confirm, with the payment locked and with both rows locked.
LEMMA MarkKeeps ==
  ASSUME IInv, NEW s \in Sessions, LockPayment(s) \/ LockDealToDrag(s)
  PROVE  Kept
<1> DEFINE v == sess[s].view
<1>1. /\ Busy(s) /\ Door(s) \in {"mark", "confirm"}
      /\ Hold(s, v) \/ Commit(s, v, Marked(v, To(s)))
  BY DEF LockPayment, LockDealToDrag
<1>2. v \in Row /\ Steady(sess[s])
  BY <1>1, SessionIs DEF IInv, Knows
<1>3. v.log = <<>> /\ Movable(v, To(s))
  BY <1>1, <1>2 DEF Steady, Door, To
<1>4. CASE Hold(s, v)
  BY <1>1, <1>2, <1>3, <1>4, HoldStep DEF FromDeal
<1>5. CASE Commit(s, v, Marked(v, To(s)))
  <2>1. Moves(v, Marked(v, To(s))) /\ Marked(v, To(s)).mode = v.mode
    BY <1>2, <1>3, MarkMoves
  <2>2. QED
    BY <1>1, <1>2, <1>3, <1>5, <2>1, CommitStep
<1>6. QED
  BY <1>1, <1>4, <1>5

LEMMA IssueInvoiceKeeps ==
  ASSUME IInv, NEW s \in Sessions, IssueInvoice(s)
  PROVE  Kept
<1> DEFINE v == sess[s].view
<1>1. /\ Busy(s) /\ Door(s) = "invoice"
      /\ \/ row.pay = "none" /\ \E mode \in Modes : Commit(s, v, Invoiced(v, mode))
         \/ Rollback(s)
  BY DEF IssueInvoice
<1>2. v \in Row /\ Steady(sess[s])
  BY <1>1, SessionIs DEF IInv, Knows
<1>3. v.log = <<>> /\ v.pay = "none" /\ <<v.status, "payment_pending">> \in VALID_TRANSITIONS
  BY <1>1, <1>2 DEF Steady, Door
<1>4. CASE row.pay = "none" /\ \E mode \in Modes : Commit(s, v, Invoiced(v, mode))
  <2>1. PICK mode \in Modes : Commit(s, v, Invoiced(v, mode))
    BY <1>4
  <2>2. Moves(v, Invoiced(v, mode)) /\ Invoiced(v, mode).pay = "pending"
    BY <1>2, <1>3, InvoiceMoves
  <2>3. QED
    BY <1>1, <1>2, <1>3, <1>4, <2>1, <2>2, CommitStep
<1>5. CASE Rollback(s)
  BY <1>5, RollbackKeeps DEF Kept
<1>6. QED
  BY <1>1, <1>4, <1>5

\* A bank session writes its verdict with whatever the verdict moves.
LEMMA DecideKeeps ==
  ASSUME IInv, NEW s \in Sessions, Busy(s), Door(s) = "bank",
         NEW v \in Row, v.log = <<>>, Decide(s, v)
  PROVE  Kept
<1> DEFINE c == By(s)
           fits == inbox[c].fits
           new == Applied(v, To(s), fits)
           verdict == Verdict(v, To(s), fits)
           event == [inbox[c] EXCEPT !.verdict = verdict]
<1>1. /\ row' = Flushed(v, new) /\ sess' = [sess EXCEPT ![s] = Idle]
      /\ inbox' = [inbox EXCEPT ![c] = event]
  BY DEF Decide, Decided
<1>2. c \in Callbacks /\ inbox[c] # NoCallback
  BY SessionIs DEF IInv, Knows
<1>3. Moves(v, new) /\ new.mode = v.mode /\ verdict \in Verdicts
  BY VerdictMoves
<1>4. inbox[c] \in Callback
  BY <1>2 DEF IInv, TypeOK
<1> HIDE DEF verdict, new, c
<1>5. event \in Callback /\ event # NoCallback
  BY <1>3, <1>4 DEF Callback, NoCallback
<1> HIDE DEF event
<1>6. inbox' \in [Callbacks -> Callback \cup {NoCallback}]
  BY <1>1, <1>5 DEF IInv, TypeOK
<1>7. \A d \in Callbacks : inbox[d] # NoCallback <=> inbox'[d] # NoCallback
  BY <1>1, <1>2, <1>5 DEF IInv, TypeOK
<1>8. QED
  BY <1>1, <1>3, <1>6, <1>7, CommitKeeps DEF Kept

LEMMA BankKeeps ==
  ASSUME IInv, NEW s \in Sessions,
         BankDecides(s) \/ BankLocksPayment(s) \/ BankLocksDeal(s)
  PROVE  Kept
<1> DEFINE v == sess[s].view
           w == [sess[s].view EXCEPT !.status = row.status]
<1>1. /\ Busy(s) /\ Door(s) = "bank"
      /\ Decide(s, v) \/ Decide(s, w) \/ Hold(s, w)
  BY DEF BankDecides, BankLocksPayment, BankLocksDeal
<1>2. v \in Row /\ v.log = <<>>
  BY <1>1, SessionIs DEF IInv, Knows, Steady
<1>3. w \in Row /\ w.log = <<>>
  BY <1>2 DEF Row, IInv, TypeOK
<1> HIDE DEF v, w
<1>4. Hold(s, w) => Kept
  BY <1>1, <1>3, HoldStep DEF FromDeal
<1>5. QED
  BY <1>1, <1>2, <1>3, <1>4, DecideKeeps

LEMMA StepHolds == IInv /\ [Next]_vars => Kept
<1> SUFFICES ASSUME IInv, [Next]_vars PROVE Kept
  OBVIOUS
<1>1. CASE OpenDeal
  BY <1>1, OpenDealKeeps
<1>2. CASE AdapterNamesRef
  BY <1>2, AdapterKeeps
<1>3. CASE \E c \in Callbacks : RecordCallback(c)
  BY <1>3, RecordCallbackKeeps
<1>4. CASE \E s \in Sessions, call \in Calls : Begin(s, call)
  BY <1>4, BeginKeeps
<1>5. ASSUME NEW s \in Sessions, Proceed(s) PROVE Kept
  BY <1>5, LockDealKeeps, LockPaymentToSettleKeeps, MarkKeeps, IssueInvoiceKeeps, BankKeeps
     DEF Proceed
<1>6. ASSUME NEW s \in Sessions, AbortDeadlock(s) PROVE Kept
  BY <1>6, RollbackKeeps DEF AbortDeadlock, Kept
<1>7. CASE UNCHANGED vars
  <2>1. row' = row /\ inbox' = inbox /\ sess' = sess
    BY <1>7 DEF vars
  <2>2. QED
    BY <2>1 DEF Kept, IInv, TypeOK, EndsAt, Rail, Knows, Busy, Door, By
<1>8. QED
  BY <1>1, <1>2, <1>3, <1>4, <1>5, <1>6, <1>7 DEF Next

-----------------------------------------------------------------------------

\* Of the rows, the callbacks and the sessions, each stays of its type, whatever
\* doors overlap: no flush of an outdated copy leaves a row that no handler can
\* write.
THEOREM TypeCorrect == Spec => []TypeOK
<1>1. IInv => TypeOK
  BY DEF IInv
<1>2. IInv /\ [Next]_vars => IInv'
  BY StepHolds DEF Kept
<1>3. QED
  BY InitHolds, <1>1, <1>2, PTL DEF Spec

\* The deal is always where the last row of its history says, however many
\* sessions write it from copies of different ages (service.transition).
THEOREM HistoryEndsWhereTheDealIs == Spec => []HistoryEndsAtStatus
<1>1. IInv => HistoryEndsAtStatus
  BY DEF IInv, EndsAt, HistoryEndsAtStatus
<1>2. IInv /\ [Next]_vars => IInv'
  BY StepHolds DEF Kept
<1>3. QED
  BY InitHolds, <1>1, <1>2, PTL DEF Spec

\* The rail a payment was opened on is never changed, whatever the sessions
\* that open payments saw before they wrote (open_for_deal).
THEOREM RailStaysFrozen == Spec => RailIsFrozen
<1>1. IInv /\ [Next]_vars => IInv'
  BY StepHolds DEF Kept
<1>2. IInv /\ [Next]_vars => [row.mode # "none" => row'.mode = row.mode]_vars
  BY StepHolds DEF Kept
<1>3. QED
  BY InitHolds, <1>1, <1>2, PTL DEF Spec, RailIsFrozen

-----------------------------------------------------------------------------
(* Copies that are not out of date                                           *)

\* The row as a session loads it: the columns of the deal and the payment; the
\* history in a copy is what the session adds.
Bare(r) == [r EXCEPT !.log = <<>>]

\* The row r once a session has written the whole of its copy n: n's columns,
\* and n's history after r's.
Joined(r, n) == [n EXCEPT !.log = r.log \o @]

\* A row is its fields.
LEMMA RowIs ==
  ASSUME NEW r \in Row
  PROVE  /\ r = [ status |-> r.status, priced |-> r.priced, pay |-> r.pay, mode |-> r.mode,
                  ref |-> r.ref, log |-> r.log ]
         /\ r.log \in Seq(LogRow)
  BY DEF Row

LEMMA RowEqual ==
  ASSUME NEW r \in Row, NEW q \in Row,
         r.status = q.status, r.priced = q.priced, r.pay = q.pay, r.mode = q.mode,
         r.ref = q.ref, r.log = q.log
  PROVE  r = q
  BY RowIs

LEMMA JoinedIs ==
  ASSUME NEW r \in Row, NEW n \in Row
  PROVE  /\ Joined(r, n) \in Row
         /\ Joined(r, n).status = n.status /\ Joined(r, n).priced = n.priced
         /\ Joined(r, n).pay = n.pay /\ Joined(r, n).mode = n.mode /\ Joined(r, n).ref = n.ref
         /\ Joined(r, n).log = r.log \o n.log
<1> DEFINE l == r.log \o n.log
<1>1. l \in Seq(LogRow)
  BY RowIs, ConcatProperties
<1>2. Joined(r, n) = [n EXCEPT !.log = l]
  BY DEF Joined
<1> HIDE DEF l
<1>3. Joined(r, n) \in Row /\ Joined(r, n).log = l
  BY <1>1, <1>2 DEF Row
<1>4. QED
  BY <1>2, <1>3 DEF Row, l

LEMMA BareIs ==
  ASSUME NEW r \in Row
  PROVE  /\ Bare(r) \in Row
         /\ Bare(r).status = r.status /\ Bare(r).priced = r.priced
         /\ Bare(r).pay = r.pay /\ Bare(r).mode = r.mode /\ Bare(r).ref = r.ref
         /\ Bare(r).log = <<>>
         /\ Joined(r, Bare(r)) = r
<1>1. <<>> \in Seq(LogRow)
  BY EmptySeq
<1>2. /\ Bare(r) \in Row
      /\ Bare(r).status = r.status /\ Bare(r).priced = r.priced
      /\ Bare(r).pay = r.pay /\ Bare(r).mode = r.mode /\ Bare(r).ref = r.ref
      /\ Bare(r).log = <<>>
  BY <1>1 DEF Row, Bare
<1>3. r.log \o <<>> = r.log
  BY RowIs, ConcatEmptySeq
<1> DEFINE b == Bare(r)
           j == Joined(r, b)
<1>4. j \in Row /\ j.status = b.status /\ j.priced = b.priced /\ j.pay = b.pay
      /\ j.mode = b.mode /\ j.ref = b.ref /\ j.log = r.log \o b.log
  BY <1>2, JoinedIs
<1>5. b.status = r.status /\ b.priced = r.priced /\ b.pay = r.pay
      /\ b.mode = r.mode /\ b.ref = r.ref /\ b.log = <<>>
  BY <1>2
<1> HIDE DEF b, j
<1>6. j = r
  BY <1>3, <1>4, <1>5, RowEqual
<1>7. QED
  BY <1>2, <1>6 DEF b, j

\* Moving the joined row is joining the moved copy.
LEMMA MovedJoins ==
  ASSUME NEW r \in Row, NEW n \in Row, n.status \in DealStatuses,
         NEW to \in DealStatuses, NEW actor \in Actors
  PROVE  /\ Moved(n, to, actor) \in Row
         /\ Moved(n, to, actor).priced = n.priced /\ Moved(n, to, actor).ref = n.ref
         /\ Moved(n, to, actor).status = to /\ Moved(n, to, actor).pay = n.pay
         /\ Moved(n, to, actor).mode = n.mode
         /\ Moved(Joined(r, n), to, actor) = Joined(r, Moved(n, to, actor))
<1> DEFINE e == [from |-> n.status, to |-> to, actor |-> actor]
           j == Joined(r, n)
<1>1. e \in LogRow
  BY DEF LogRow
<1>2. /\ j \in Row /\ j.status = n.status /\ j.priced = n.priced /\ j.pay = n.pay
      /\ j.mode = n.mode /\ j.ref = n.ref /\ j.log = r.log \o n.log
  BY JoinedIs
<1> HIDE DEF j
<1>3. ASSUME NEW q \in Row, q.status = n.status
      PROVE  Moved(q, to, actor) = [ status |-> to, priced |-> q.priced, pay |-> q.pay,
                                     mode |-> q.mode, ref |-> q.ref, log |-> Append(q.log, e) ]
  <2>1. Moved(q, to, actor) = [q EXCEPT !.status = to, !.log = Append(q.log, e)]
    BY <1>3 DEF Moved
  <2> HIDE DEF e
  <2>2. q.log \in Seq(LogRow)
    BY RowIs
  <2>3. QED
    BY <2>1, <1>3, <2>2 DEF Row
<1> HIDE DEF e
<1>4. r.log \in Seq(LogRow) /\ n.log \in Seq(LogRow)
  BY RowIs
<1>5. Append(r.log \o n.log, e) = r.log \o Append(n.log, e)
  <2>1. /\ Append(r.log \o n.log, e) = (r.log \o n.log) \o <<e>>
        /\ Append(n.log, e) = n.log \o <<e>>
    BY <1>1, <1>4, ConcatProperties, AppendIsConcat
  <2>2. <<e>> \in Seq(LogRow)
    BY <1>1
  <2> DEFINE a == r.log
             b == n.log
             c == <<e>>
  <2>3. a \in Seq(LogRow) /\ b \in Seq(LogRow) /\ c \in Seq(LogRow)
    BY <1>4, <2>2
  <2> HIDE DEF a, b, c
  <2>4. (a \o b) \o c = a \o (b \o c)
    BY <2>3, ConcatAssociative
  <2>5. QED
    BY <2>1, <2>4 DEF a, b, c
<1>6. Append(n.log, e) \in Seq(LogRow)
  BY <1>1, <1>4, AppendProperties
<1>7. Moved(n, to, actor) \in Row
  BY <1>3, <1>6 DEF Row
<1>8. Moved(j, to, actor) = Joined(r, Moved(n, to, actor))
  <2>1. Moved(j, to, actor) \in Row
    BY <1>1, <1>2, MovedIs
  <2> DEFINE m == Moved(n, to, actor)
             k == Joined(r, m)
             q == Moved(j, to, actor)
  <2>2. /\ m.status = to /\ m.priced = n.priced /\ m.pay = n.pay /\ m.mode = n.mode
        /\ m.ref = n.ref /\ m.log = Append(n.log, e) /\ m \in Row
    BY <1>3, <1>7
  <2>3. /\ k \in Row /\ k.status = m.status /\ k.priced = m.priced /\ k.pay = m.pay
        /\ k.mode = m.mode /\ k.ref = m.ref /\ k.log = r.log \o m.log
    BY <1>7, JoinedIs
  <2> HIDE DEF m, k
  <2>4. q = [ status |-> to, priced |-> j.priced, pay |-> j.pay,
              mode |-> j.mode, ref |-> j.ref, log |-> Append(j.log, e) ]
    BY <1>2, <1>3
  <2> HIDE DEF q
  <2>5. /\ q.status = k.status /\ q.priced = k.priced /\ q.pay = k.pay
        /\ q.mode = k.mode /\ q.ref = k.ref
    BY <1>2, <2>2, <2>3, <2>4
  <2>6. q.log = k.log
    BY <1>2, <1>5, <2>2, <2>3, <2>4
  <2>7. q = k
    BY <2>1, <2>3, <2>5, <2>6, RowEqual DEF q
  <2>8. QED
    BY <2>7 DEF m, k, q
<1>9. QED
  BY <1>3, <1>7, <1>8 DEF j

\* Stamping the payment of the joined row is joining the stamped copy.
Stamped(n, pay, mode) == [n EXCEPT !.pay = pay, !.mode = mode]

LEMMA StampJoins ==
  ASSUME NEW r \in Row, NEW n \in Row, NEW pay \in EscrowStatuses, NEW mode \in Modes \cup {"none"}
  PROVE  /\ Stamped(n, pay, mode) \in Row
         /\ Stamped(n, pay, mode).status = n.status /\ Stamped(n, pay, mode).priced = n.priced
         /\ Stamped(n, pay, mode).ref = n.ref
         /\ Stamped(Joined(r, n), pay, mode) = Joined(r, Stamped(n, pay, mode))
<1> DEFINE m == Stamped(n, pay, mode)
           j == Joined(r, n)
           p == Stamped(j, pay, mode)
           k == Joined(r, m)
<1>1. /\ m \in Row /\ m.status = n.status /\ m.priced = n.priced /\ m.pay = pay
      /\ m.mode = mode /\ m.ref = n.ref /\ m.log = n.log
  BY DEF Row, Stamped
<1>2. /\ j \in Row /\ j.status = n.status /\ j.priced = n.priced
      /\ j.ref = n.ref /\ j.log = r.log \o n.log
  BY JoinedIs
<1> HIDE DEF j
<1>3. /\ p \in Row /\ p.status = j.status /\ p.priced = j.priced /\ p.pay = pay
      /\ p.mode = mode /\ p.ref = j.ref /\ p.log = j.log
  BY <1>2 DEF Row, Stamped
<1> HIDE DEF m, p
<1>4. /\ k \in Row /\ k.status = m.status /\ k.priced = m.priced /\ k.pay = m.pay
      /\ k.mode = m.mode /\ k.ref = m.ref /\ k.log = r.log \o m.log
  BY <1>1, JoinedIs
<1> HIDE DEF k
<1>5. /\ p.status = k.status /\ p.priced = k.priced /\ p.pay = k.pay /\ p.mode = k.mode
      /\ p.ref = k.ref /\ p.log = k.log
  BY <1>1, <1>2, <1>3, <1>4
<1>6. p = k
  BY <1>3, <1>4, <1>5, RowEqual
<1>7. QED
  BY <1>1, <1>6 DEF m, p, j, k

\* The row's price and bank reference, which no handler here writes.
SameDeal(r, n) == n \in Row /\ n.priced = r.priced /\ n.ref = r.ref

\* The four operators a session applies to its copy make of the joined row what
\* joining makes of their result, so a flush of an up-to-date copy is the
\* operator applied to the row.
LEMMA SettleJoins ==
  ASSUME NEW r \in Row, NEW n \in Row
  PROVE  /\ SameDeal(n, SettleDirect(n))
         /\ SettleDirect(Joined(r, n)) = Joined(r, SettleDirect(n))
<1> DEFINE j == Joined(r, n)
<1>1. j \in Row /\ j.status = n.status /\ j.pay = n.pay /\ j.mode = n.mode
  BY JoinedIs
<1>2. CASE n.mode = "direct" /\ n.pay = "funded" /\ n.status = "delivered"
  <2> DEFINE m == Stamped(n, "released", n.mode)
             p == Stamped(j, "released", n.mode)
  <2>1. "released" \in EscrowStatuses /\ n.mode \in Modes \cup {"none"}
    BY DEF EscrowStatuses, Row
  <2>2. /\ m \in Row /\ m.status = n.status /\ m.priced = n.priced /\ m.ref = n.ref
        /\ p = Joined(r, m)
    BY <2>1, StampJoins
  <2>3. m = [n EXCEPT !.pay = "released"]
    BY DEF Row, Stamped
  <2> HIDE DEF j
  <2>4. p = [j EXCEPT !.pay = "released"]
    BY <1>1 DEF Row, Stamped
  <2> HIDE DEF m, p
  <2>5. SettleDirect(n) = Moved(m, "completed", "system")
    BY <1>2, <2>3 DEF SettleDirect
  <2>6. SettleDirect(j) = Moved(p, "completed", "system")
    BY <1>1, <1>2, <2>4 DEF SettleDirect
  <2>7. {"delivered", "completed"} \subseteq DealStatuses /\ "system" \in Actors
    BY DEF DealStatuses, Actors
  <2>8. /\ Moved(m, "completed", "system") \in Row
        /\ Moved(m, "completed", "system").priced = m.priced
        /\ Moved(m, "completed", "system").ref = m.ref
        /\ Moved(Joined(r, m), "completed", "system") = Joined(r, Moved(m, "completed", "system"))
    BY <1>2, <2>2, <2>7, MovedJoins
  <2>9. QED
    BY <2>2, <2>5, <2>6, <2>8 DEF SameDeal, j
<1>3. CASE ~(n.mode = "direct" /\ n.pay = "funded" /\ n.status = "delivered")
  BY <1>1, <1>3 DEF SettleDirect, SameDeal
<1>4. QED
  BY <1>2, <1>3

LEMMA TransitionJoins ==
  ASSUME NEW r \in Row, NEW n \in Row, NEW to, <<n.status, to>> \in VALID_TRANSITIONS,
         NEW actor \in Actors
  PROVE  /\ SameDeal(n, Transitioned(n, to, actor))
         /\ Transitioned(Joined(r, n), to, actor) = Joined(r, Transitioned(n, to, actor))
<1> DEFINE m == Moved(n, to, actor)
           k == Moved(Joined(r, n), to, actor)
<1>1. to \in DealStatuses /\ n.status \in DealStatuses
  BY MoveFacts
<1>2. m \in Row /\ m.priced = n.priced /\ m.ref = n.ref /\ k = Joined(r, m)
  BY <1>1, MovedJoins
<1>3. /\ Transitioned(n, to, actor) = IF to = "delivered" THEN SettleDirect(m) ELSE m
      /\ Transitioned(Joined(r, n), to, actor) = IF to = "delivered" THEN SettleDirect(k) ELSE k
  BY DEF Transitioned
<1> HIDE DEF m, k
<1>4. SameDeal(m, SettleDirect(m)) /\ SettleDirect(k) = Joined(r, SettleDirect(m))
  BY <1>2, SettleJoins
<1>5. CASE to = "delivered"
  BY <1>2, <1>3, <1>4, <1>5 DEF SameDeal
<1>6. CASE to # "delivered"
  BY <1>2, <1>3, <1>6 DEF SameDeal
<1>7. QED
  BY <1>5, <1>6

LEMMA MarkJoins ==
  ASSUME NEW r \in Row, NEW n \in Row, NEW to, Movable(n, to)
  PROVE  /\ SameDeal(n, Marked(n, to))
         /\ Marked(Joined(r, n), to) = Joined(r, Marked(n, to))
<1> DEFINE j == Joined(r, n)
           paid == Stamped(n, to, n.mode)
           jpaid == Stamped(j, to, n.mode)
           m == Moved(paid, DEAL_EFFECT[to], DragActor(to))
           k == Moved(jpaid, DEAL_EFFECT[to], DragActor(to))
           drag == IF DealStays(n, to) THEN paid ELSE m
           jdrag == IF DealStays(n, to) THEN jpaid ELSE k
<1>1. to \in EscrowStatuses /\ DragActor(to) \in Actors /\ n.mode \in Modes \cup {"none"}
  BY MarkFacts DEF Movable, DragActor, Actors, Row
<1>2. /\ paid \in Row /\ paid.status = n.status /\ paid.priced = n.priced /\ paid.ref = n.ref
      /\ jpaid = Joined(r, paid)
  BY <1>1, StampJoins
<1>3. j \in Row /\ j.status = n.status /\ j.mode = n.mode
  BY JoinedIs
<1>4. paid = [n EXCEPT !.pay = to]
  BY DEF Row, Stamped
<1> HIDE DEF j
<1>5. jpaid = [j EXCEPT !.pay = to]
  BY <1>3 DEF Row, Stamped
<1> HIDE DEF paid, jpaid
<1>6. DealStays(j, to) <=> DealStays(n, to)
  BY <1>3 DEF DealStays
<1>7. /\ Marked(n, to) = IF to = "funded" THEN SettleDirect(drag) ELSE drag
      /\ Marked(j, to) = IF to = "funded" THEN SettleDirect(jdrag) ELSE jdrag
  BY <1>4, <1>5, <1>6 DEF Marked
<1>8. drag \in Row /\ drag.priced = n.priced /\ drag.ref = n.ref /\ jdrag = Joined(r, drag)
  <2>1. CASE DealStays(n, to)
    BY <1>2, <2>1
  <2>2. CASE ~DealStays(n, to)
    <3>1. <<n.status, DEAL_EFFECT[to]>> \in VALID_TRANSITIONS
      BY <2>2 DEF Movable
    <3>2. n.status \in DealStatuses /\ DEAL_EFFECT[to] \in DealStatuses
      BY <3>1, MoveFacts
    <3>3. m \in Row /\ m.priced = paid.priced /\ m.ref = paid.ref /\ k = Joined(r, m)
      BY <1>1, <1>2, <3>2, MovedJoins
    <3> HIDE DEF m, k
    <3>4. QED
      BY <1>2, <2>2, <3>3
  <2>3. QED
    BY <2>1, <2>2
<1> HIDE DEF drag, jdrag
<1>9. SameDeal(drag, SettleDirect(drag)) /\ SettleDirect(jdrag) = Joined(r, SettleDirect(drag))
  BY <1>8, SettleJoins
<1>10. CASE to = "funded"
  BY <1>7, <1>8, <1>9, <1>10 DEF SameDeal, j
<1>11. CASE to # "funded"
  BY <1>7, <1>8, <1>11 DEF SameDeal, j
<1>12. QED
  BY <1>10, <1>11

LEMMA InvoiceJoins ==
  ASSUME NEW r \in Row, NEW n \in Row, n.status \in DealStatuses, NEW mode \in Modes
  PROVE  /\ SameDeal(n, Invoiced(n, mode))
         /\ Invoiced(Joined(r, n), mode) = Joined(r, Invoiced(n, mode))
<1> DEFINE m == Stamped(n, "pending", mode)
           p == Stamped(Joined(r, n), "pending", mode)
<1>1. "pending" \in EscrowStatuses /\ "payment_pending" \in DealStatuses /\ "system" \in Actors
  BY DEF EscrowStatuses, DealStatuses, Actors
<1>2. /\ m \in Row /\ m.status = n.status /\ m.priced = n.priced /\ m.ref = n.ref
      /\ p = Joined(r, m)
  BY <1>1, StampJoins
<1>3. Invoiced(n, mode) = Moved(m, "payment_pending", "system")
  BY DEF Invoiced, Stamped
<1>4. Invoiced(Joined(r, n), mode) = Moved(p, "payment_pending", "system")
  BY DEF Invoiced, Stamped
<1> HIDE DEF m, p
<1>5. QED
  BY <1>1, <1>2, <1>3, <1>4, MovedJoins DEF SameDeal

-----------------------------------------------------------------------------
(* What is known while only bank sessions overlap                            *)

\* The copy of session s is what a session that began now would load.
Fresh(s) == sess[s].view = Bare(row)

\* A bank session that loaded the payment before another one moved it: the
\* movement it has come for is no longer there to apply.
Late(s) ==
  LET v == sess[s].view
  IN  /\ Door(s) = "bank" /\ "bank" \in Overlap
      /\ v.mode = row.mode
      /\ \/ v.pay = "pending" /\ row.pay = "funded" /\ row.status = "paid_escrow"
         \/ v.pay = "funded" /\ row.pay = "released" /\ row.status = "completed"
      /\ sess[s].held # {} => v.status = row.status

\* A session that has the deal for itself can still do what its door admitted.
Sure(s) ==
  Door(s) \notin Overlap =>
    /\ Admitted(Door(s), To(s), By(s))
    /\ To(s) \in {"disputed", "negotiation"} => Cardinality(Trips) < MaxTrips

\* Two sessions are in progress only through doors that may overlap.
Apart ==
  \A s, t \in Sessions : Busy(s) /\ Busy(t) /\ s # t => {Door(s), Door(t)} \subseteq Overlap

\* FOR UPDATE: one session at a time holds the payment.
OneHolder ==
  \A s, t \in Sessions :
    Busy(s) /\ Busy(t) /\ "pay" \in sess[s].held /\ "pay" \in sess[t].held => s = t

\* The inductive invariant of the deal whose other doors run alone.
JInv ==
  /\ IInv
  /\ Apart
  /\ OneHolder
  /\ \A s \in Sessions : Busy(s) => (Fresh(s) \/ Late(s)) /\ Sure(s)

-----------------------------------------------------------------------------
(* A copy that is up to date commits what the operators do to the row        *)

\* A flush of an up-to-date copy writes the copy and adds its history.
LEMMA FlushIs ==
  ASSUME row \in Row, NEW n, SameDeal(Bare(row), n)
  PROVE  Flushed(Bare(row), n) = Joined(row, n)
<1> DEFINE b == Bare(row)
           f == Flushed(b, n)
           k == Joined(row, n)
           l == row.log \o n.log
<1>1. /\ b.status = row.status /\ b.priced = row.priced /\ b.pay = row.pay
      /\ b.mode = row.mode /\ b.ref = row.ref
  BY BareIs
<1>2. n \in Row /\ n.priced = b.priced /\ n.ref = b.ref
  BY DEF SameDeal
<1>3. f = [ row EXCEPT !.status = IF n.status # b.status THEN n.status ELSE @,
                       !.pay    = IF n.pay # b.pay THEN n.pay ELSE @,
                       !.mode   = IF n.mode # b.mode THEN n.mode ELSE @,
                       !.log    = l ]
  BY DEF Flushed
<1>4. l \in Seq(LogRow)
  BY <1>2, RowIs, ConcatProperties
<1>5. /\ k \in Row /\ k.status = n.status /\ k.priced = n.priced /\ k.pay = n.pay
      /\ k.mode = n.mode /\ k.ref = n.ref /\ k.log = l
  BY <1>2, JoinedIs
<1> HIDE DEF b, f, k, l
<1>6. f = [row EXCEPT !.status = n.status, !.pay = n.pay, !.mode = n.mode, !.log = l]
  BY <1>1, <1>3 DEF Row
<1>7. /\ f \in Row /\ f.status = n.status /\ f.priced = row.priced /\ f.pay = n.pay
      /\ f.mode = n.mode /\ f.ref = row.ref /\ f.log = l
  BY <1>2, <1>4, <1>6 DEF Row
<1>8. f = k
  BY <1>1, <1>2, <1>5, <1>7, RowEqual
<1>9. QED
  BY <1>8 DEF b, f, k

\* A flush of a copy that nothing moved writes nothing.
LEMMA FlushNothing ==
  ASSUME row \in Row, NEW v, v.log = <<>>
  PROVE  Flushed(v, v) = row
<1> DEFINE l == row.log \o v.log
<1>1. l = row.log
  BY RowIs, ConcatEmptySeq
<1>2. Flushed(v, v) = [ row EXCEPT !.status = @, !.pay = @, !.mode = @, !.log = l ]
  BY DEF Flushed
<1> HIDE DEF l
<1>3. QED
  BY <1>1, <1>2 DEF Row

\* The checks see of a copy what they see of the row it was loaded from.
LEMMA BareSteady ==
  ASSUME row \in Row, NEW to
  PROVE  /\ Movable(Bare(row), to) <=> Movable(row, to)
         /\ \A fits : Verdict(Bare(row), to, fits) = Verdict(row, to, fits)
<1> DEFINE b == Bare(row)
<1>1. b.status = row.status /\ b.pay = row.pay /\ b.mode = row.mode /\ b.ref = row.ref
  BY BareIs
<1> HIDE DEF b
<1>2. /\ MovementExists(b, to) <=> MovementExists(row, to)
      /\ ReleaseIsDue(b, to) <=> ReleaseIsDue(row, to)
      /\ DealStays(b, to) <=> DealStays(row, to)
      /\ DealFollows(b, to, "bank") <=> DealFollows(row, to, "bank")
  BY <1>1 DEF MovementExists, ReleaseIsDue, DealStays, DealFollows, CanMove
<1>3. Movable(b, to) <=> Movable(row, to)
  BY <1>1, <1>2 DEF Movable
<1>4. \A fits : Verdict(b, to, fits) = Verdict(row, to, fits)
  BY <1>1, <1>2 DEF Verdict
<1>5. QED
  BY <1>3, <1>4 DEF b

LEMMA FlushTransition ==
  ASSUME row \in Row, NEW to, <<row.status, to>> \in VALID_TRANSITIONS, NEW actor \in Actors
  PROVE  Flushed(Bare(row), Transitioned(Bare(row), to, actor)) = Transitioned(row, to, actor)
<1>1. /\ Bare(row) \in Row /\ <<Bare(row).status, to>> \in VALID_TRANSITIONS
      /\ Joined(row, Bare(row)) = row
  BY BareIs
<1>2. /\ SameDeal(Bare(row), Transitioned(Bare(row), to, actor))
      /\ Transitioned(Joined(row, Bare(row)), to, actor)
           = Joined(row, Transitioned(Bare(row), to, actor))
  BY <1>1, TransitionJoins
<1>3. QED
  BY <1>1, <1>2, FlushIs

LEMMA FlushMark ==
  ASSUME row \in Row, NEW to, Movable(row, to)
  PROVE  Flushed(Bare(row), Marked(Bare(row), to)) = Marked(row, to)
<1>1. Bare(row) \in Row /\ Movable(Bare(row), to) /\ Joined(row, Bare(row)) = row
  BY BareIs, BareSteady
<1>2. /\ SameDeal(Bare(row), Marked(Bare(row), to))
      /\ Marked(Joined(row, Bare(row)), to) = Joined(row, Marked(Bare(row), to))
  BY <1>1, MarkJoins
<1>3. QED
  BY <1>1, <1>2, FlushIs

LEMMA FlushInvoice ==
  ASSUME row \in Row, row.status \in DealStatuses, NEW mode \in Modes
  PROVE  Flushed(Bare(row), Invoiced(Bare(row), mode)) = Invoiced(row, mode)
<1>1. /\ Bare(row) \in Row /\ Bare(row).status \in DealStatuses
      /\ Joined(row, Bare(row)) = row
  BY BareIs
<1>2. /\ SameDeal(Bare(row), Invoiced(Bare(row), mode))
      /\ Invoiced(Joined(row, Bare(row)), mode) = Joined(row, Invoiced(Bare(row), mode))
  BY <1>1, InvoiceJoins
<1>3. QED
  BY <1>1, <1>2, FlushIs

\* What an applied verdict knew of the row, and what it made of it.
LEMMA BankMarkIs ==
  ASSUME NEW r \in Row, NEW claim, NEW fits, Verdict(r, claim, fits) = "applied"
  PROVE  /\ Movable(r, claim) /\ Applied(r, claim, fits) = Marked(r, claim)
         /\ Marked(r, claim).mode = r.mode /\ Marked(r, claim) \in Row
         /\ \/ /\ r.pay = "pending" /\ r.status # "paid_escrow"
               /\ Marked(r, claim).pay = "funded" /\ Marked(r, claim).status = "paid_escrow"
            \/ /\ r.pay = "funded" /\ r.status = "delivered"
               /\ Marked(r, claim).pay = "released" /\ Marked(r, claim).status = "completed"
<1>1. /\ r.mode = "live" /\ claim \in {"funded", "released"}
      /\ MovementExists(r, claim) /\ ReleaseIsDue(r, claim) /\ DealFollows(r, claim, "bank")
  BY DEF Verdict, AUTO_APPLIED
<1>2. ~DealStays(r, claim)
  BY <1>1 DEF DealStays
<1>3. <<r.status, DEAL_EFFECT[claim]>> \in VALID_TRANSITIONS
  BY <1>1, <1>2 DEF DealFollows, CanMove
<1>4. Movable(r, claim) /\ Applied(r, claim, fits) = Marked(r, claim)
  BY <1>1, <1>3 DEF Movable, Applied
<1> DEFINE paid == [r EXCEPT !.pay = claim]
           m == Moved(paid, DEAL_EFFECT[claim], DragActor(claim))
<1>5. paid \in Row /\ paid.pay = claim /\ paid.mode = "live" /\ paid.status = r.status
  BY <1>1 DEF Row, EscrowStatuses
<1>6. r.status \in DealStatuses /\ DEAL_EFFECT[claim] \in DealStatuses
  BY <1>3, MoveFacts
<1>7. DragActor(claim) \in Actors
  BY DEF DragActor, Actors
<1> HIDE DEF paid
<1>8. m \in Row /\ m.pay = claim /\ m.mode = "live" /\ m.status = DEAL_EFFECT[claim]
  BY <1>5, <1>6, <1>7, MovedIs
<1>9. Marked(r, claim) = IF claim = "funded" THEN SettleDirect(m) ELSE m
  BY <1>2 DEF Marked, paid
<1> HIDE DEF m
<1>10. Marked(r, claim) = m
  BY <1>8, <1>9 DEF SettleDirect
<1>11. CASE claim = "funded"
  <2>1. r.pay = "pending" /\ DEAL_EFFECT[claim] = "paid_escrow"
    BY <1>1, <1>11 DEF MovementExists, ESCROW_TRANSITIONS, DEAL_EFFECT
  <2>2. r.status # "paid_escrow"
    BY <1>3, <2>1, MoveFacts
  <2>3. QED
    BY <1>1, <1>4, <1>8, <1>10, <1>11, <2>1, <2>2
<1>12. CASE claim = "released"
  <2>1. r.pay = "funded" /\ DEAL_EFFECT[claim] = "completed" /\ r.status = "delivered"
    BY <1>1, <1>12 DEF MovementExists, ESCROW_TRANSITIONS, DEAL_EFFECT, ReleaseIsDue
  <2>2. QED
    BY <1>1, <1>4, <1>8, <1>10, <1>12, <2>1
<1>13. QED
  BY <1>1, <1>11, <1>12

\* A copy that is late has no movement to apply.
LEMMA LateIsRefused ==
  ASSUME NEW v \in Row, NEW claim, NEW fits,
         \/ v.pay = "pending" /\ v.status = "paid_escrow"
         \/ v.pay = "funded" /\ v.status = "completed"
  PROVE  Verdict(v, claim, fits) # "applied" /\ Applied(v, claim, fits) = v
BY BankMarkIs DEF Applied

\* Doors whose sessions overlap, at most: the tasks that apply bank callbacks.
BankAtMost == Overlap \subseteq {"bank"}

\* What a session did to the row and the callbacks.
FollowsOperators(s) ==
  \/ row' = row /\ inbox' = inbox
  \/ Door(s) \in FromDeal /\ row' = Transitioned(row, To(s), By(s)) /\ inbox' = inbox
  \/ Door(s) \in {"mark", "confirm"} /\ row' = Marked(row, To(s)) /\ inbox' = inbox
  \/ /\ Door(s) = "invoice" /\ inbox' = inbox
     /\ \E mode \in Modes : row' = Invoiced(row, mode)
  \/ /\ Door(s) = "bank"
     /\ \/ row' = row /\ "bank" \in Overlap
        \/ /\ row' = Applied(row, To(s), inbox[By(s)].fits)
           /\ inbox' = [inbox EXCEPT ![By(s)] =
                          Decided(@, Verdict(row, To(s), inbox[By(s)].fits))]

\* No other session holds the payment while the bank moves it.
Unheld(s) ==
  Door(s) = "bank" /\ row' # row =>
    \A t \in Sessions : Busy(t) /\ t # s => "pay" \notin sess[t].held

\* What a session knew when it wrote.
Rightly(s) ==
  /\ Fresh(s) \/ Late(s)
  /\ Fresh(s) /\ Door(s) \in FromDeal => <<row.status, To(s)>> \in VALID_TRANSITIONS
  /\ Fresh(s) /\ Door(s) \in {"mark", "confirm"} => Movable(row, To(s))
  /\ Fresh(s) /\ Door(s) = "invoice" =>
       <<row.status, "payment_pending">> \in VALID_TRANSITIONS /\ row.pay = "none"

\* Before its step, a session that is not late has an up-to-date copy and rests
\* on the checks of its door.
LEMMA SessionKnows ==
  ASSUME JInv, NEW s \in Sessions, Busy(s)
  PROVE  /\ Rightly(s) /\ Sure(s) /\ row \in Row /\ row.status # "none"
         /\ sess[s].view \in Row /\ sess[s].view.log = <<>>
         /\ Door(s) \in Doors /\ (Door(s) \in FromDeal => By(s) \in Actors)
         /\ Door(s) # "bank" => Fresh(s)
<1>1. IInv /\ TypeOK /\ Steady(sess[s]) /\ row \in Row /\ row.status # "none"
  BY DEF JInv, IInv, Knows, TypeOK
<1>2. (Fresh(s) \/ Late(s)) /\ Sure(s)
  BY DEF JInv
<1>3. /\ sess[s].view \in Row /\ Door(s) \in Doors
      /\ Door(s) \in FromDeal => By(s) \in Actors
  BY <1>1, SessionIs
<1>4. /\ Bare(row).status = row.status /\ Bare(row).pay = row.pay
      /\ Movable(Bare(row), To(s)) <=> Movable(row, To(s))
  BY <1>1, BareIs, BareSteady
<1>5. /\ Fresh(s) /\ Door(s) \in FromDeal => <<row.status, To(s)>> \in VALID_TRANSITIONS
      /\ Fresh(s) /\ Door(s) = "invoice" =>
           <<row.status, "payment_pending">> \in VALID_TRANSITIONS /\ row.pay = "none"
  BY <1>1, <1>4 DEF Fresh, Steady, Door, To
<1>6. Fresh(s) /\ Door(s) \in {"mark", "confirm"} => Movable(row, To(s))
  BY <1>1, <1>4 DEF Fresh, Steady, Door, To
<1>7. Door(s) # "bank" => Fresh(s)
  BY <1>2 DEF Late
<1>8. sess[s].view.log = <<>>
  BY <1>1 DEF Steady
<1>9. QED
  BY <1>1, <1>2, <1>3, <1>5, <1>6, <1>7, <1>8 DEF Rightly

\* What a step of session s leaves of it.
Ends(s) == sess' = [sess EXCEPT ![s] = Idle]

\* The session goes on to its second lock, and nothing is written yet.
Holds(s) ==
  \E v \in Row :
    /\ Hold(s, v) /\ Free(FirstLock(s))
    /\ \/ v = Bare(row)
       \/ /\ Door(s) = "bank" /\ "bank" \in Overlap
          /\ v.mode = row.mode /\ v.status = row.status
          /\ \/ v.pay = "pending" /\ row.pay = "funded" /\ row.status = "paid_escrow"
             \/ v.pay = "funded" /\ row.pay = "released" /\ row.status = "completed"

\* A session ends having written what the operators say, or nothing, or waits.
Stepped(s) ==
  /\ FollowsOperators(s)
  /\ Unheld(s)
  /\ Ends(s) \/ Holds(s)

LEMMA LockDealIs ==
  ASSUME JInv, NEW s \in Sessions, LockDeal(s) \/ LockPaymentToSettle(s)
  PROVE  Stepped(s)
<1> DEFINE v == WithPayment(sess[s].view)
           w == sess[s].view
<1>1. /\ Busy(s) /\ Door(s) \in FromDeal
      /\ \/ Hold(s, v) /\ Free(FirstLock(s))
         \/ Commit(s, v, Transitioned(v, To(s), By(s)))
         \/ Commit(s, w, Transitioned(w, To(s), By(s)))
  <2>1. CASE LockDeal(s)
    BY <2>1 DEF LockDeal, FromDeal, FirstLock, FromPayment
  <2>2. CASE LockPaymentToSettle(s)
    <3>1. Busy(s) /\ sess[s].held = {"deal"} /\ Commit(s, w, Transitioned(w, To(s), By(s)))
      BY <2>2 DEF LockPaymentToSettle
    <3>2. Steady(sess[s])
      BY <3>1 DEF JInv, IInv, Knows
    <3>3. Door(s) \in FromDeal
      BY <3>1, <3>2 DEF Steady, Door
    <3>4. QED
      BY <3>1, <3>3
  <2>3. QED
    BY <2>1, <2>2
<1>2. /\ w = Bare(row) /\ row \in Row /\ By(s) \in Actors
      /\ <<row.status, To(s)>> \in VALID_TRANSITIONS
  BY <1>1, SessionKnows DEF Rightly, Fresh, FromDeal
<1>3. v = Bare(row)
  <2>1. w \in Row /\ w.pay = row.pay /\ w.mode = row.mode
    BY <1>2, BareIs
  <2>2. v = [w EXCEPT !.pay = row.pay, !.mode = row.mode]
    BY DEF WithPayment
  <2> HIDE DEF w, v
  <2>3. v = w
    BY <2>1, <2>2 DEF Row
  <2>4. QED
    BY <1>2, <2>3
<1> HIDE DEF v, w
<1>4. CASE Hold(s, v) /\ Free(FirstLock(s))
  <2>1. v \in Row
    BY <1>2, <1>3, BareIs
  <2>2. row' = row /\ inbox' = inbox
    BY <1>4 DEF Hold
  <2>3. QED
    BY <1>1, <1>3, <1>4, <2>1, <2>2 DEF Stepped, Holds, FollowsOperators, Unheld
<1>5. CASE Commit(s, v, Transitioned(v, To(s), By(s))) \/ Commit(s, w, Transitioned(w, To(s), By(s)))
  <2>1. Commit(s, Bare(row), Transitioned(Bare(row), To(s), By(s)))
    BY <1>2, <1>3, <1>5
  <2>2. row' = Transitioned(row, To(s), By(s)) /\ inbox' = inbox /\ Ends(s)
    BY <1>2, <2>1, FlushTransition DEF Commit, Ends
  <2>3. QED
    BY <1>1, <2>2 DEF Stepped, FollowsOperators, Unheld, FromDeal
<1>6. QED
  BY <1>1, <1>4, <1>5

LEMMA MarkIs ==
  ASSUME JInv, NEW s \in Sessions, LockPayment(s) \/ LockDealToDrag(s)
  PROVE  Stepped(s)
<1> DEFINE v == sess[s].view
<1>1. /\ Busy(s) /\ Door(s) \in {"mark", "confirm"}
      /\ \/ Hold(s, v) /\ Free(FirstLock(s))
         \/ Commit(s, v, Marked(v, To(s)))
  BY DEF LockPayment, LockDealToDrag, FirstLock, FromPayment
<1>2. v = Bare(row) /\ row \in Row /\ Movable(row, To(s))
  BY <1>1, SessionKnows DEF Rightly, Fresh
<1> HIDE DEF v
<1>3. CASE Hold(s, v) /\ Free(FirstLock(s))
  <2>1. v \in Row
    BY <1>2, BareIs
  <2>2. row' = row /\ inbox' = inbox
    BY <1>3 DEF Hold
  <2>3. QED
    BY <1>1, <1>2, <1>3, <2>1, <2>2 DEF Stepped, Holds, FollowsOperators, Unheld
<1>4. CASE Commit(s, v, Marked(v, To(s)))
  <2>1. row' = Marked(row, To(s)) /\ inbox' = inbox /\ Ends(s)
    BY <1>2, <1>4, FlushMark DEF Commit, Ends
  <2>2. QED
    BY <1>1, <2>1 DEF Stepped, FollowsOperators, Unheld
<1>5. QED
  BY <1>1, <1>3, <1>4

LEMMA InvoiceIs ==
  ASSUME JInv, NEW s \in Sessions, IssueInvoice(s)
  PROVE  Stepped(s)
<1> DEFINE v == sess[s].view
<1>1. /\ Busy(s) /\ Door(s) = "invoice"
      /\ \/ \E mode \in Modes : Commit(s, v, Invoiced(v, mode))
         \/ Rollback(s)
  BY DEF IssueInvoice
<1>2. /\ v = Bare(row) /\ row \in Row
      /\ <<row.status, "payment_pending">> \in VALID_TRANSITIONS
  BY <1>1, SessionKnows DEF Rightly, Fresh
<1>3. row.status \in DealStatuses
  BY <1>2, MoveFacts
<1> HIDE DEF v
<1>4. CASE Rollback(s)
  BY <1>1, <1>4 DEF Rollback, Stepped, FollowsOperators, Unheld, Ends
<1>5. CASE \E mode \in Modes : Commit(s, v, Invoiced(v, mode))
  <2>1. PICK mode \in Modes : Commit(s, v, Invoiced(v, mode))
    BY <1>5
  <2>2. row' = Invoiced(row, mode) /\ inbox' = inbox /\ Ends(s)
    BY <1>2, <1>3, <2>1, FlushInvoice DEF Commit, Ends
  <2>3. QED
    BY <1>1, <2>2 DEF Stepped, FollowsOperators, Unheld
<1>6. QED
  BY <1>1, <1>4, <1>5

\* A bank session decides on an up-to-date copy, or on a late one that no
\* verdict applies to; whoever moves the payment does so with its lock.
LEMMA DecideIs ==
  ASSUME JInv, NEW s \in Sessions, Busy(s), Door(s) = "bank", NEW v \in Row, Decide(s, v),
         v.log = <<>>,
         \/ v = Bare(row)
         \/ "bank" \in Overlap /\ Verdict(v, To(s), inbox[By(s)].fits) # "applied",
         \/ "pay" \in sess[s].held
         \/ Free("pay")
         \/ Verdict(v, To(s), inbox[By(s)].fits) # "applied"
  PROVE  Stepped(s)
<1> DEFINE fits == inbox[By(s)].fits
<1>1. /\ row' = Flushed(v, Applied(v, To(s), fits)) /\ Ends(s)
      /\ inbox' = [inbox EXCEPT ![By(s)] = Decided(@, Verdict(v, To(s), fits))]
  BY DEF Decide, Ends
<1>2. row \in Row
  BY SessionKnows
<1>3. CASE Verdict(v, To(s), fits) # "applied"
  <2>1. Applied(v, To(s), fits) = v
    BY <1>3 DEF Applied
  <2>2. row' = row
    BY <1>1, <1>2, <2>1, FlushNothing
  <2>3. CASE v = Bare(row)
    <3>1. Verdict(v, To(s), fits) = Verdict(row, To(s), fits)
      BY <1>2, <2>3, BareSteady
    <3>2. row' = Applied(row, To(s), fits)
      BY <1>3, <2>2, <3>1 DEF Applied
    <3>3. QED
      BY <1>1, <2>2, <3>1, <3>2 DEF Stepped, FollowsOperators, Unheld
  <2>4. CASE "bank" \in Overlap
    BY <1>1, <2>2, <2>4 DEF Stepped, FollowsOperators, Unheld
  <2>5. QED
    BY <2>3, <2>4
<1>4. CASE Verdict(v, To(s), fits) = "applied"
  <2>1. v = Bare(row)
    BY <1>4
  <2>2. Verdict(v, To(s), fits) = Verdict(row, To(s), fits)
    BY <1>2, <2>1, BareSteady
  <2>3. Movable(row, To(s))
    BY <1>2, <1>4, <2>2, BankMarkIs
  <2>4. row' = Applied(row, To(s), fits)
    <3>1. Applied(v, To(s), fits) = Marked(Bare(row), To(s))
      BY <1>4, <2>1 DEF Applied
    <3>2. row' = Marked(row, To(s))
      BY <1>1, <1>2, <2>1, <2>3, <3>1, FlushMark
    <3>3. QED
      BY <1>4, <2>2, <3>2 DEF Applied
  <2>5. Unheld(s)
    <3>1. "pay" \in sess[s].held \/ Free("pay")
      BY <1>4
    <3>2. QED
      BY <3>1 DEF Unheld, Free, JInv, OneHolder
  <2>6. QED
    BY <1>1, <2>2, <2>4, <2>5 DEF Stepped, FollowsOperators
<1>5. QED
  BY <1>3, <1>4

LEMMA BankIs ==
  ASSUME JInv, NEW s \in Sessions,
         BankDecides(s) \/ BankLocksPayment(s) \/ BankLocksDeal(s)
  PROVE  Stepped(s)
<1> DEFINE v == sess[s].view
           w == [sess[s].view EXCEPT !.status = row.status]
           fits == inbox[By(s)].fits
<1>1. /\ Busy(s) /\ Door(s) = "bank"
  BY DEF BankDecides, BankLocksPayment, BankLocksDeal
<1>2. /\ row \in Row /\ v \in Row /\ v.log = <<>> /\ (Fresh(s) \/ Late(s))
  BY <1>1, SessionKnows DEF Rightly
<1>3. /\ w \in Row /\ w.status = row.status /\ w.pay = v.pay /\ w.mode = v.mode /\ w.log = <<>>
  BY <1>2 DEF Row
<1>4. Fresh(s) => v = Bare(row) /\ w = Bare(row)
  <2>1. Bare(row) \in Row /\ Bare(row).status = row.status
    BY <1>2, BareIs
  <2>2. Fresh(s) => v = Bare(row)
    BY DEF Fresh
  <2> HIDE DEF v
  <2>3. v = Bare(row) => w = v
    BY <2>1 DEF Row, v
  <2>4. QED
    BY <2>2, <2>3
<1>5. Late(s) => /\ "bank" \in Overlap
                 /\ v.mode = row.mode
                 /\ \/ v.pay = "pending" /\ row.pay = "funded" /\ row.status = "paid_escrow"
                    \/ v.pay = "funded" /\ row.pay = "released" /\ row.status = "completed"
                 /\ sess[s].held # {} => v.status = row.status
  BY DEF Late
<1>6. ASSUME Late(s) PROVE Verdict(w, To(s), fits) # "applied"
  <2>1. \/ w.pay = "pending" /\ w.status = "paid_escrow"
        \/ w.pay = "funded" /\ w.status = "completed"
    BY <1>3, <1>5, <1>6
  <2>2. w \in Row
    BY <1>3
  <2> HIDE DEF w, fits
  <2>3. QED
    BY <2>1, <2>2, LateIsRefused
<1>7. CASE BankDecides(s)
  <2>1. Decide(s, v) /\ Verdict(v, To(s), fits) # "applied"
    BY <1>7 DEF BankDecides, ReachesMark
  <2>2. QED
    BY <1>1, <1>2, <1>4, <1>5, <2>1, DecideIs
<1>8. CASE BankLocksPayment(s)
  <2>1. Free("pay") /\ (Decide(s, w) \/ Hold(s, w))
    BY <1>8 DEF BankLocksPayment
  <2> HIDE DEF w
  <2>2. CASE Decide(s, w)
    BY <1>1, <1>2, <1>3, <1>4, <1>5, <1>6, <2>1, <2>2, DecideIs
  <2>3. CASE Hold(s, w)
    <3>1. row' = row /\ inbox' = inbox
      BY <2>3 DEF Hold
    <3>2. Free(FirstLock(s))
      BY <1>1, <2>1 DEF FirstLock, FromPayment
    <3>3. \/ w = Bare(row)
          \/ /\ Door(s) = "bank" /\ "bank" \in Overlap
             /\ w.mode = row.mode /\ w.status = row.status
             /\ \/ w.pay = "pending" /\ row.pay = "funded" /\ row.status = "paid_escrow"
                \/ w.pay = "funded" /\ row.pay = "released" /\ row.status = "completed"
      BY <1>1, <1>2, <1>3, <1>4, <1>5
    <3>4. Holds(s)
      BY <1>3, <2>3, <3>2, <3>3 DEF Holds
    <3>5. QED
      BY <3>1, <3>4 DEF Stepped, FollowsOperators, Unheld
  <2>4. QED
    BY <2>1, <2>2, <2>3
<1>9. CASE BankLocksDeal(s)
  <2>1. Decide(s, v) /\ sess[s].held = {"pay"}
    BY <1>9 DEF BankLocksDeal
  <2>2. Late(s) => Verdict(v, To(s), fits) # "applied"
    BY <1>2, <1>5, <2>1, LateIsRefused
  <2>3. QED
    BY <1>1, <1>2, <1>4, <1>5, <2>1, <2>2, DecideIs
<1>10. QED
  BY <1>7, <1>8, <1>9

\* Every step of a session follows the operators of EscrowLedger.
LEMMA SessionSteps ==
  ASSUME JInv, NEW s \in Sessions, Proceed(s) \/ AbortDeadlock(s)
  PROVE  Busy(s) /\ Stepped(s)
<1>1. Busy(s)
  <2>1. CASE Proceed(s)
    BY <2>1 DEF Proceed, LockDeal, LockPaymentToSettle, LockPayment, LockDealToDrag,
                BankDecides, BankLocksPayment, BankLocksDeal, IssueInvoice
  <2>2. CASE AbortDeadlock(s)
    BY <2>2 DEF AbortDeadlock, Waits
  <2>3. QED
    BY <2>1, <2>2
<1>2. ASSUME Proceed(s) PROVE Stepped(s)
  BY <1>2, LockDealIs, MarkIs, InvoiceIs, BankIs DEF Proceed
<1>3. ASSUME AbortDeadlock(s) PROVE Stepped(s)
  BY <1>3 DEF AbortDeadlock, Rollback, Stepped, FollowsOperators, Unheld, Ends
<1>4. QED
  BY <1>1, <1>2, <1>3

-----------------------------------------------------------------------------
(* The copies stay up to date, or late in the one harmless way               *)

\* What the step of a bank session does to another one.
LEMMA OthersKeep ==
  ASSUME BankAtMost, JInv, NEW s \in Sessions, Busy(s), FollowsOperators(s), Unheld(s),
         NEW t \in Sessions, t # s, Busy(t), sess'[t] = sess[t]
  PROVE  (Fresh(t) \/ Late(t))' /\ Sure(t)'
<1>1. Door(s) = "bank" /\ Door(t) = "bank" /\ "bank" \in Overlap
  BY DEF JInv, Apart, BankAtMost
<1>2. Door(t)' = Door(t)
  BY DEF Door
<1>3. Sure(t)'
  BY <1>1, <1>2 DEF Sure
<1>4. CASE row' = row
  BY <1>2, <1>3, <1>4 DEF JInv, Fresh, Late
<1>5. CASE row' # row
  <2> DEFINE claim == To(s)
             fits == inbox[By(s)].fits
             v == sess[t].view
  <2>1. row' = Applied(row, claim, fits) /\ "pay" \notin sess[t].held
    BY <1>1, <1>5 DEF FollowsOperators, Unheld, FromDeal
  <2>2. row \in Row
    BY SessionKnows
  <2>3. Verdict(row, claim, fits) = "applied"
    BY <1>5, <2>1 DEF Applied
  <2> HIDE DEF claim, fits
  <2>4. /\ row'.mode = row.mode
        /\ \/ /\ row.pay = "pending" /\ row.status # "paid_escrow"
              /\ row'.pay = "funded" /\ row'.status = "paid_escrow"
           \/ /\ row.pay = "funded" /\ row.status = "delivered"
              /\ row'.pay = "released" /\ row'.status = "completed"
    BY <2>1, <2>2, <2>3, BankMarkIs
  <2>5. ~Late(t) /\ v = Bare(row)
    BY <2>4 DEF JInv, Late, Fresh
  <2>6. v.pay = row.pay /\ v.mode = row.mode
    BY <2>2, <2>5, BareIs
  <2>7. sess[t].held = {}
    <3>1. sess[t] \in Session /\ Steady(sess[t])
      BY SessionIs DEF JInv, IInv, Knows
    <3>2. "deal" \notin sess[t].held
      BY <1>1, <3>1 DEF Steady, Door, FromDeal
    <3>3. sess[t].held \subseteq {"pay", "deal"}
      BY <3>1 DEF Session
    <3>4. QED
      BY <2>1, <3>2, <3>3
  <2> HIDE DEF v
  <2>8. v' = v
    BY DEF v
  <2>9. Late(t)'
    BY <1>1, <1>2, <2>4, <2>6, <2>7, <2>8 DEF Late, v
  <2>10. QED
    BY <1>3, <2>9
<1>6. QED
  BY <1>3, <1>4, <1>5

\* A session's own step, and what it does to the others, keeps JInv.
LEMMA SessionKeeps ==
  ASSUME BankAtMost, JInv, IInv', NEW s \in Sessions, Busy(s), Stepped(s)
  PROVE  JInv'
<1>1. \A t \in Sessions : t # s => sess'[t] = sess[t]
  <2>1. \E x : sess' = [sess EXCEPT ![s] = x]
    BY DEF Stepped, Ends, Holds, Hold
  <2>2. QED
    BY <2>1 DEF JInv, IInv, TypeOK
<1>2. \A t \in Sessions : t # s /\ Busy(t)' =>
        Busy(t) /\ Door(t)' = Door(t) /\ sess'[t].held = sess[t].held
  BY <1>1 DEF Busy, Door
<1>3. \A t \in Sessions : t # s /\ Busy(t)' => (Fresh(t) \/ Late(t))' /\ Sure(t)'
  BY <1>1, <1>2, OthersKeep DEF Stepped
<1>4. CASE Ends(s)
  <2>1. ~Busy(s)'
    BY <1>4 DEF Ends, Busy, JInv, IInv, TypeOK
  <2>2. Apart'
    BY <1>2, <2>1 DEF JInv, Apart
  <2>3. OneHolder'
    BY <1>2, <2>1 DEF JInv, OneHolder
  <2>4. QED
    BY <1>3, <2>1, <2>2, <2>3 DEF JInv
<1>5. CASE Holds(s)
  <2>1. PICK v \in Row :
          /\ Hold(s, v) /\ Free(FirstLock(s))
          /\ \/ v = Bare(row)
             \/ /\ Door(s) = "bank" /\ "bank" \in Overlap
                /\ v.mode = row.mode /\ v.status = row.status
                /\ \/ v.pay = "pending" /\ row.pay = "funded" /\ row.status = "paid_escrow"
                   \/ v.pay = "funded" /\ row.pay = "released" /\ row.status = "completed"
    BY <1>5 DEF Holds
  <2> DEFINE x == [sess[s] EXCEPT !.view = v, !.held = {FirstLock(s)}]
  <2>2. row' = row /\ inbox' = inbox /\ sess' = [sess EXCEPT ![s] = x]
    BY <2>1 DEF Hold
  <2>3. sess[s] \in Session
    BY SessionIs DEF JInv, IInv
  <2>4. x.call = sess[s].call /\ x.view = v /\ x.held = {FirstLock(s)}
    BY <2>3 DEF Session
  <2> HIDE DEF x
  <2>5. sess'[s] = x
    BY <2>2 DEF JInv, IInv, TypeOK
  <2>6. Door(s)' = Door(s) /\ To(s)' = To(s) /\ By(s)' = By(s)
    BY <2>4, <2>5 DEF Door, To, By
  <2>7. (Fresh(s) \/ Late(s))'
    <3>1. CASE v = Bare(row)
      BY <2>2, <2>4, <2>5, <3>1 DEF Fresh
    <3>2. CASE v # Bare(row)
      BY <2>1, <2>2, <2>4, <2>5, <2>6, <3>2 DEF Late
    <3>3. QED
      BY <3>1, <3>2
  <2>8. Sure(s)'
    <3>1. Sure(s)
      BY DEF JInv
    <3>2. Trips' = Trips
      BY <2>2 DEF Trips
    <3>3. Admitted(Door(s), To(s), By(s))' <=> Admitted(Door(s), To(s), By(s))
      BY <2>2, <2>6 DEF Admitted
    <3>4. QED
      BY <2>6, <3>1, <3>2, <3>3 DEF Sure
  <2>9. Apart'
    BY <1>2, <2>6 DEF JInv, Apart
  <2>10. OneHolder'
    <3>1. "pay" \in sess'[s].held =>
            \A t \in Sessions : "pay" \notin sess[t].held
      BY <2>1, <2>4, <2>5 DEF Free
    <3>2. QED
      BY <1>2, <3>1 DEF JInv, OneHolder
  <2>11. QED
    BY <1>3, <2>7, <2>8, <2>9, <2>10 DEF JInv
<1>6. QED
  BY <1>4, <1>5 DEF Stepped

LEMMA BeginJoins ==
  ASSUME JInv, IInv', NEW s \in Sessions, NEW call \in Calls, Begin(s, call)
  PROVE  JInv'
<1> DEFINE x == [call |-> call, view |-> Bare(row), held |-> {}]
<1>1. /\ ~Busy(s) /\ MayOverlap(call[1]) /\ Room(call[2])
      /\ Admitted(call[1], call[2], call[3])
      /\ sess' = [sess EXCEPT ![s] = x] /\ row' = row /\ inbox' = inbox
  BY DEF Begin, Bare
<1>2. sess'[s] = x /\ \A t \in Sessions : t # s => sess'[t] = sess[t]
  BY <1>1 DEF JInv, IInv, TypeOK
<1>3. x.call = call /\ x.view = Bare(row) /\ x.held = {}
  OBVIOUS
<1> HIDE DEF x
<1>4. /\ Door(s)' = call[1] /\ To(s)' = call[2] /\ By(s)' = call[3]
  BY <1>2, <1>3 DEF Door, To, By
<1>5. \A t \in Sessions : t # s /\ Busy(t)' =>
        Busy(t) /\ Door(t)' = Door(t) /\ To(t)' = To(t) /\ By(t)' = By(t)
  BY <1>2 DEF Busy, Door, To, By
<1>6. \A d, to, by : Admitted(d, to, by)' <=> Admitted(d, to, by)
  BY <1>1 DEF Admitted
<1>7. Trips' = Trips
  BY <1>1 DEF Trips
<1>8. ASSUME NEW t \in Sessions, t # s, Busy(t)' PROVE (Fresh(t) \/ Late(t))' /\ Sure(t)'
  <2>1. /\ Busy(t) /\ Door(t)' = Door(t) /\ To(t)' = To(t) /\ By(t)' = By(t)
        /\ sess'[t] = sess[t]
    BY <1>2, <1>5, <1>8
  <2>2. Sure(t)'
    BY <1>6, <1>7, <2>1 DEF JInv, Sure
  <2>3. (Fresh(t) \/ Late(t))'
    BY <1>1, <2>1 DEF JInv, Fresh, Late
  <2>4. QED
    BY <2>2, <2>3
<1>9. Fresh(s)'
  BY <1>1, <1>2, <1>3 DEF Fresh
<1>10. Sure(s)'
  BY <1>1, <1>4, <1>6, <1>7 DEF Sure, Room
<1>11. Apart'
  BY <1>1, <1>4, <1>5 DEF JInv, Apart, MayOverlap
<1>12. OneHolder'
  BY <1>2, <1>3, <1>5 DEF JInv, OneHolder
<1>13. QED
  BY <1>8, <1>9, <1>10, <1>11, <1>12 DEF JInv

LEMMA RecordJoins ==
  ASSUME JInv, IInv', NEW c \in Callbacks, RecordCallback(c)
  PROVE  JInv'
<1>1. PICK claim \in Claims, fits \in BOOLEAN :
        inbox' = [inbox EXCEPT ![c] = [claim |-> claim, fits |-> fits, verdict |-> "new"]]
  BY DEF RecordCallback
<1>2. row' = row /\ sess' = sess /\ inbox[c] = NoCallback
  BY DEF RecordCallback
<1>3. ASSUME NEW t \in Sessions, Busy(t)' PROVE (Fresh(t) \/ Late(t))' /\ Sure(t)'
  <2>1. /\ Busy(t) /\ Door(t)' = Door(t) /\ To(t)' = To(t) /\ By(t)' = By(t)
    BY <1>2, <1>3 DEF Busy, Door, To, By
  <2>2. (Fresh(t) \/ Late(t))'
    BY <1>2, <2>1 DEF JInv, Fresh, Late
  <2>3. Trips' = Trips
    BY <1>2 DEF Trips
  <2>4. ASSUME Admitted(Door(t), To(t), By(t)) PROVE Admitted(Door(t), To(t), By(t))'
    <3>1. CASE Door(t) # "bank"
      <4>1. \A d \in Doors \ {"bank"} : \A to, by : Admitted(d, to, by)' <=> Admitted(d, to, by)
        BY <1>2 DEF Admitted, Doors
      <4>2. Door(t) \in Doors
        BY <2>1, SessionKnows
      <4>3. QED
        BY <2>1, <2>4, <3>1, <4>1, <4>2
    <3>2. CASE Door(t) = "bank"
      <4>1. inbox[By(t)].verdict = "new" /\ inbox[By(t)].claim = To(t)
        BY <2>4, <3>2 DEF Admitted
      <4>2. By(t) # c
        BY <1>2, <4>1 DEF NoCallback
      <4>3. By(t) \in Callbacks
        BY <2>1, <3>2, SessionIs DEF JInv, IInv
      <4>4. inbox'[By(t)] = inbox[By(t)]
        BY <1>1, <4>2, <4>3 DEF JInv, IInv, TypeOK
      <4>5. QED
        BY <2>1, <3>2, <4>1, <4>4 DEF Admitted
    <3>3. QED
      BY <3>1, <3>2
  <2>5. Sure(t)'
    BY <2>1, <2>3, <2>4 DEF JInv, Sure
  <2>6. QED
    BY <2>2, <2>5
<1>4. Apart' /\ OneHolder'
  BY <1>2 DEF JInv, Apart, OneHolder, Busy, Door
<1>5. QED
  BY <1>3, <1>4 DEF JInv

LEMMA InitJoins == Init => JInv
<1> SUFFICES ASSUME Init PROVE JInv
  OBVIOUS
<1>1. IInv
  BY InitHolds
<1>2. \A s \in Sessions : ~Busy(s)
  BY DEF Init, Busy
<1>3. QED
  BY <1>1, <1>2 DEF JInv, Apart, OneHolder

LEMMA NextJoins ==
  ASSUME BankAtMost, JInv, [Next]_vars
  PROVE  JInv'
<1>1. IInv'
  BY StepHolds DEF JInv, Kept
<1>2. ASSUME OpenDeal \/ AdapterNamesRef PROVE JInv'
  <2>1. \A s \in Sessions : ~Busy(s)'
    <3>1. CASE OpenDeal
      BY <3>1 DEF OpenDeal, JInv, IInv, Knows, Busy
    <3>2. CASE AdapterNamesRef
      BY <3>2 DEF AdapterNamesRef, Busy
    <3>3. QED
      BY <1>2, <3>1, <3>2
  <2>2. QED
    BY <1>1, <2>1 DEF JInv, Apart, OneHolder
<1>3. ASSUME UNCHANGED vars PROVE JInv'
  <2>1. row' = row /\ inbox' = inbox /\ sess' = sess
    BY <1>3 DEF vars
  <2>2. Trips' = Trips /\ \A d, to, by : Admitted(d, to, by)' <=> Admitted(d, to, by)
    BY <2>1 DEF Trips, Admitted
  <2>3. ASSUME NEW t \in Sessions, Busy(t)' PROVE (Fresh(t) \/ Late(t))' /\ Sure(t)'
    <3>1. /\ Busy(t) /\ Door(t)' = Door(t) /\ To(t)' = To(t) /\ By(t)' = By(t)
      BY <2>1, <2>3 DEF Busy, Door, To, By
    <3>2. Sure(t)'
      BY <2>2, <3>1 DEF JInv, Sure
    <3>3. (Fresh(t) \/ Late(t))'
      BY <2>1, <3>1 DEF JInv, Fresh, Late
    <3>4. QED
      BY <3>2, <3>3
  <2>4. Apart' /\ OneHolder'
    BY <2>1 DEF JInv, Apart, OneHolder, Busy, Door
  <2>5. QED
    BY <1>1, <2>3, <2>4 DEF JInv
<1>4. ASSUME NEW s \in Sessions, Proceed(s) \/ AbortDeadlock(s) PROVE JInv'
  BY <1>1, <1>4, SessionSteps, SessionKeeps
<1>5. QED
  BY <1>1, <1>2, <1>3, <1>4, BeginJoins, RecordJoins DEF Next

-----------------------------------------------------------------------------
(* The history is one walk                                                   *)

\* Every move of the history starts where the one before it ended.
Chained(r) == \A i \in 2..Len(r.log) : r.log[i].from = r.log[i - 1].to

\* The moves the system made on its own into a status.
SystemMoves(r, to) == { i \in 1..Len(r.log) : r.log[i].to = to /\ r.log[i].actor = "system" }

\* The history of a deal that moved one step at a time.
Walked(r) ==
  /\ Chained(r)
  /\ EndsAt(r)
  /\ \A to \in {"paid_escrow", "completed"} : \A i, j \in SystemMoves(r, to) : i = j
  /\ SystemMoves(r, "completed") # {} => r.status = "completed"

\* A deal that was moved for money that came has a payment that says so.
Received(r) == SystemMoves(r, "paid_escrow") # {} => r.pay \notin {"none", "pending"}

\* The inductive invariant of the history.
WalkInv == JInv /\ Walked(row) /\ Received(row)

\* A row with the same status and history.
LEMMA SameWalk ==
  ASSUME NEW r, NEW q, q.status = r.status, q.log = r.log
  PROVE  /\ Walked(r) => Walked(q)
         /\ \A to : SystemMoves(q, to) = SystemMoves(r, to)
  BY DEF Walked, Chained, EndsAt, SystemMoves

\* One more move from where the deal is.
LEMMA MoveWalks ==
  ASSUME NEW r \in Row, Walked(r), r.status \in DealStatuses, r.status # "completed",
         NEW to \in DealStatuses, NEW actor \in Actors,
         actor = "system" /\ to = "paid_escrow" => SystemMoves(r, "paid_escrow") = {}
  PROVE  /\ Walked(Moved(r, to, actor))
         /\ SystemMoves(Moved(r, to, actor), "paid_escrow") # {} =>
              SystemMoves(r, "paid_escrow") # {} \/ (actor = "system" /\ to = "paid_escrow")
<1> DEFINE e == [from |-> r.status, to |-> to, actor |-> actor]
           m == Moved(r, to, actor)
           n == Len(r.log)
<1>1. /\ m \in Row /\ m.status = to /\ EndsAt(m)
  BY MovedIs
<1>2. e \in LogRow /\ e.from = r.status /\ e.to = to /\ e.actor = actor
  BY DEF LogRow
<1>3. m.log = Append(r.log, e)
  <2>1. m = [r EXCEPT !.status = to, !.log = Append(r.log, e)]
    BY DEF Moved
  <2> HIDE DEF m, e
  <2>2. QED
    BY <2>1 DEF Row
<1> HIDE DEF m, e
<1>4. /\ Len(m.log) = n + 1 /\ n \in Nat
      /\ \A i \in 1..n : m.log[i] = r.log[i]
      /\ m.log[n + 1] = e
  BY <1>2, <1>3, RowIs, AppendProperties, LenProperties
<1>5. r.log # <<>> => r.log[n].to = r.status
  BY DEF Walked, EndsAt
<1>6. Chained(m)
  <2> SUFFICES ASSUME NEW i \in 2..(n + 1)
               PROVE  m.log[i].from = m.log[i - 1].to
    BY <1>4 DEF Chained
  <2>1. CASE i \in 2..n
    <3>1. i \in 1..n /\ i - 1 \in 1..n
      BY <1>4, <2>1
    <3>2. r.log[i].from = r.log[i - 1].to
      BY <2>1 DEF Walked, Chained
    <3>3. QED
      BY <1>4, <3>1, <3>2
  <2>2. CASE i = n + 1
    <3>1. n \in 1..n /\ i - 1 = n /\ n # 0
      BY <1>4, <2>2
    <3>2. r.log # <<>>
      BY <3>1, RowIs, EmptySeq
    <3>3. QED
      BY <1>2, <1>4, <1>5, <2>2, <3>1, <3>2
  <2>3. QED
    BY <1>4, <2>1, <2>2
<1>7. ASSUME NEW s
      PROVE  \A i \in SystemMoves(m, s) :
               i \in SystemMoves(r, s) \/ (i = n + 1 /\ to = s /\ actor = "system")
  <2> SUFFICES ASSUME NEW i \in SystemMoves(m, s)
               PROVE  i \in SystemMoves(r, s) \/ (i = n + 1 /\ to = s /\ actor = "system")
    OBVIOUS
  <2>1. i \in 1..(n + 1) /\ m.log[i].to = s /\ m.log[i].actor = "system"
    BY <1>4 DEF SystemMoves
  <2>2. CASE i \in 1..n
    BY <1>4, <2>1, <2>2 DEF SystemMoves
  <2>3. CASE i = n + 1
    BY <1>2, <1>4, <2>1, <2>3
  <2>4. QED
    BY <1>4, <2>1, <2>2, <2>3
<1>8. SystemMoves(r, "completed") = {}
  BY DEF Walked
<1>9. \A s \in {"paid_escrow", "completed"} : \A i, j \in SystemMoves(m, s) : i = j
  BY <1>7, <1>8 DEF Walked
<1>10. SystemMoves(m, "completed") # {} => m.status = "completed"
  BY <1>1, <1>7, <1>8
<1>11. SystemMoves(m, "paid_escrow") # {} =>
         SystemMoves(r, "paid_escrow") # {} \/ (actor = "system" /\ to = "paid_escrow")
  BY <1>7
<1>12. QED
  BY <1>1, <1>6, <1>9, <1>10, <1>11 DEF Walked, m

\* Each operator keeps the walk, given what its door checked.
LEMMA SettleWalks ==
  ASSUME NEW r \in Row, Walked(r), Received(r)
  PROVE  Walked(SettleDirect(r)) /\ Received(SettleDirect(r))
<1> DEFINE q == [r EXCEPT !.pay = "released"]
           m == Moved(q, "completed", "system")
<1>1. q \in Row /\ q.status = r.status /\ q.pay = "released" /\ q.log = r.log
  BY DEF Row, EscrowStatuses
<1> HIDE DEF q
<1>2. CASE r.mode = "direct" /\ r.pay = "funded" /\ r.status = "delivered"
  <2>1. SettleDirect(r) = m
    BY <1>2 DEF SettleDirect, q
  <2>2. {"delivered", "completed"} \subseteq DealStatuses /\ "system" \in Actors
    BY DEF DealStatuses, Actors
  <2>3. Walked(q)
    BY <1>1, SameWalk
  <2>4. Walked(m)
    BY <1>1, <1>2, <2>2, <2>3, MoveWalks
  <2>5. m.pay = "released"
    BY <1>1, <1>2, <2>2, MovedIs
  <2>6. QED
    BY <2>1, <2>4, <2>5 DEF Received
<1>3. CASE ~(r.mode = "direct" /\ r.pay = "funded" /\ r.status = "delivered")
  BY <1>3 DEF SettleDirect
<1>4. QED
  BY <1>2, <1>3

LEMMA TransitionWalks ==
  ASSUME NEW r \in Row, Walked(r), Received(r), NEW to, <<r.status, to>> \in VALID_TRANSITIONS,
         NEW actor \in Actors, ~(actor = "system" /\ to = "paid_escrow")
  PROVE  Walked(Transitioned(r, to, actor)) /\ Received(Transitioned(r, to, actor))
<1> DEFINE m == Moved(r, to, actor)
<1>1. to \in DealStatuses /\ r.status \in DealStatuses /\ r.status # "completed"
  BY MoveFacts
<1>2. m \in Row /\ m.pay = r.pay
  BY <1>1, MovedIs
<1>3. Walked(m) /\ (SystemMoves(m, "paid_escrow") # {} => SystemMoves(r, "paid_escrow") # {})
  BY <1>1, MoveWalks
<1>4. Received(m)
  BY <1>2, <1>3 DEF Received
<1>5. Transitioned(r, to, actor) = IF to = "delivered" THEN SettleDirect(m) ELSE m
  BY DEF Transitioned
<1> HIDE DEF m
<1>6. QED
  BY <1>2, <1>3, <1>4, <1>5, SettleWalks

LEMMA MarkWalks ==
  ASSUME NEW r \in Row, Walked(r), Received(r), NEW to, Movable(r, to)
  PROVE  Walked(Marked(r, to)) /\ Received(Marked(r, to))
<1> DEFINE paid == [r EXCEPT !.pay = to]
           m == Moved(paid, DEAL_EFFECT[to], DragActor(to))
           dragged == IF DealStays(r, to) THEN paid ELSE m
<1>1. to \in {"funded", "released", "refunded"} /\ DragActor(to) \in Actors
  BY MarkFacts DEF Movable, DragActor, Actors
<1>2. paid \in Row /\ paid.status = r.status /\ paid.pay = to /\ paid.log = r.log
  BY <1>1 DEF Row, EscrowStatuses
<1>3. Marked(r, to) = IF to = "funded" THEN SettleDirect(dragged) ELSE dragged
  BY DEF Marked
<1> HIDE DEF paid
<1>4. Walked(paid) /\ SystemMoves(paid, "paid_escrow") = SystemMoves(r, "paid_escrow")
  BY <1>2, SameWalk
<1>5. dragged \in Row /\ Walked(dragged) /\ dragged.pay = to
  <2>1. CASE DealStays(r, to)
    BY <1>2, <1>4, <2>1
  <2>2. CASE ~DealStays(r, to)
    <3>1. <<r.status, DEAL_EFFECT[to]>> \in VALID_TRANSITIONS
      BY <2>2 DEF Movable
    <3>2. /\ r.status \in DealStatuses /\ DEAL_EFFECT[to] \in DealStatuses
          /\ r.status # "completed"
      BY <3>1, MoveFacts
    <3>3. m \in Row /\ m.pay = to
      BY <1>1, <1>2, <3>2, MovedIs
    <3>4. DEAL_EFFECT[to] = "paid_escrow" => r.pay = "pending"
      BY <1>1 DEF Movable, MovementExists, ESCROW_TRANSITIONS, DEAL_EFFECT
    <3>5. DEAL_EFFECT[to] = "paid_escrow" => SystemMoves(paid, "paid_escrow") = {}
      BY <1>4, <3>4 DEF Received
    <3>6. Walked(m)
      BY <1>1, <1>2, <1>4, <3>2, <3>5, MoveWalks
    <3> HIDE DEF m
    <3>7. QED
      BY <2>2, <3>3, <3>6
  <2>3. QED
    BY <2>1, <2>2
<1> HIDE DEF dragged
<1>6. Received(dragged)
  BY <1>1, <1>5 DEF Received
<1>7. QED
  BY <1>3, <1>5, <1>6, SettleWalks

LEMMA InvoiceWalks ==
  ASSUME NEW r \in Row, Walked(r), Received(r), r.pay = "none",
         <<r.status, "payment_pending">> \in VALID_TRANSITIONS, NEW mode \in Modes
  PROVE  Walked(Invoiced(r, mode)) /\ Received(Invoiced(r, mode))
<1> DEFINE q == [r EXCEPT !.pay = "pending", !.mode = mode]
           m == Moved(q, "payment_pending", "system")
<1>1. q \in Row /\ q.status = r.status /\ q.log = r.log
  BY DEF Row, EscrowStatuses
<1>2. Invoiced(r, mode) = m
  BY DEF Invoiced
<1> HIDE DEF q
<1>3. /\ r.status \in DealStatuses /\ "payment_pending" \in DealStatuses
      /\ r.status # "completed" /\ "system" \in Actors
  BY MoveFacts DEF Actors
<1>4. SystemMoves(q, "paid_escrow") = {} /\ Walked(q)
  BY <1>1, SameWalk DEF Received
<1>5. Walked(m) /\ SystemMoves(m, "paid_escrow") = {}
  BY <1>1, <1>3, <1>4, MoveWalks
<1>6. QED
  BY <1>2, <1>5 DEF Received

LEMMA OpenWalks ==
  ASSUME NEW priced \in BOOLEAN
  PROVE  Walked(Opened(priced)) /\ Received(Opened(priced))
<1> DEFINE e == [from |-> "none", to |-> "negotiation", actor |-> "buyer"]
           r == Opened(priced)
<1>1. e \in LogRow /\ e.to = "negotiation" /\ e.actor = "buyer"
  BY DEF LogRow, DealStatuses, Actors, Parties
<1>2. r.log = <<e>> /\ r.status = "negotiation"
  BY DEF Opened
<1> HIDE DEF e, r
<1>3. Len(r.log) = 1 /\ r.log[1] = e
  BY <1>1, <1>2
<1>4. Chained(r)
  BY <1>3 DEF Chained
<1>5. \A to \in {"paid_escrow", "completed"} : SystemMoves(r, to) = {}
  BY <1>1, <1>3 DEF SystemMoves
<1>6. EndsAt(r)
  BY <1>1, <1>2, <1>3 DEF EndsAt
<1>7. QED
  BY <1>4, <1>5, <1>6 DEF Walked, Received, r

\* The doors of the deal do not assert money.
LEMMA DealCalls ==
  ASSUME NEW c \in Calls, c[1] \in FromDeal
  PROVE  ~(c[3] = "system" /\ c[2] = "paid_escrow")
BY DEF Calls, FromDeal, Expected, Parties

LEMMA NextWalks ==
  ASSUME BankAtMost, WalkInv, [Next]_vars
  PROVE  WalkInv'
<1>1. JInv'
  BY NextJoins DEF WalkInv
<1>2. row \in Row
  BY DEF WalkInv, JInv, IInv, TypeOK
<1>3. ASSUME row' = row PROVE Walked(row)' /\ Received(row)'
  BY <1>3 DEF WalkInv, Walked, Chained, EndsAt, Received, SystemMoves
<1>4. ASSUME OpenDeal PROVE Walked(row') /\ Received(row')
  BY <1>4, OpenWalks DEF OpenDeal
<1>5. ASSUME AdapterNamesRef PROVE Walked(row') /\ Received(row')
  <2>1. row' = [row EXCEPT !.ref = TRUE]
    BY <1>5 DEF AdapterNamesRef
  <2>2. row'.status = row.status /\ row'.log = row.log /\ row'.pay = row.pay
    BY <1>2, <2>1 DEF Row
  <2>3. QED
    BY <2>2, SameWalk DEF WalkInv, Received
<1>6. ASSUME NEW s \in Sessions, Proceed(s) \/ AbortDeadlock(s)
      PROVE  Walked(row') /\ Received(row')
  <2>1. Busy(s) /\ FollowsOperators(s) /\ JInv /\ Walked(row) /\ Received(row)
    BY <1>6, SessionSteps DEF WalkInv, Stepped
  <2>2. Rightly(s) /\ (Door(s) # "bank" => Fresh(s)) /\ (Door(s) \in FromDeal => By(s) \in Actors)
    BY <2>1, SessionKnows
  <2>3. CASE row' = row
    BY <2>1, <2>3
  <2>4. CASE Door(s) \in FromDeal /\ row' = Transitioned(row, To(s), By(s))
    <3>1. sess[s].call \in Calls
      BY <2>1, SessionIs DEF JInv, IInv
    <3>2. ~(By(s) = "system" /\ To(s) = "paid_escrow")
      BY <2>4, <3>1, DealCalls DEF Door, To, By
    <3>3. <<row.status, To(s)>> \in VALID_TRANSITIONS
      BY <2>2, <2>4 DEF Rightly, FromDeal
    <3>4. QED
      BY <1>2, <2>1, <2>2, <2>4, <3>2, <3>3, TransitionWalks
  <2>5. CASE Door(s) \in {"mark", "confirm"} /\ row' = Marked(row, To(s))
    BY <1>2, <2>1, <2>2, <2>5, MarkWalks DEF Rightly
  <2>6. CASE Door(s) = "invoice" /\ \E mode \in Modes : row' = Invoiced(row, mode)
    BY <1>2, <2>1, <2>2, <2>6, InvoiceWalks DEF Rightly
  <2>7. CASE row' = Applied(row, To(s), inbox[By(s)].fits)
    <3> DEFINE fits == inbox[By(s)].fits
    <3>1. CASE Verdict(row, To(s), fits) = "applied"
      BY <1>2, <2>1, <2>7, <3>1, BankMarkIs, MarkWalks
    <3>2. CASE Verdict(row, To(s), fits) # "applied"
      BY <2>1, <2>7, <3>2 DEF Applied
    <3>3. QED
      BY <3>1, <3>2
  <2>8. QED
    BY <2>1, <2>3, <2>4, <2>5, <2>6, <2>7 DEF FollowsOperators
<1>7. ASSUME NEW s \in Sessions, NEW call \in Calls, Begin(s, call) PROVE row' = row
  BY <1>7 DEF Begin
<1>8. ASSUME NEW c \in Callbacks, RecordCallback(c) PROVE row' = row
  BY <1>8 DEF RecordCallback
<1>9. ASSUME UNCHANGED vars PROVE row' = row
  BY <1>9 DEF vars
<1>10. Walked(row') /\ Received(row')
  BY <1>3, <1>4, <1>5, <1>6, <1>7, <1>8, <1>9 DEF Next
<1>11. QED
  BY <1>1, <1>10 DEF WalkInv

LEMMA InitWalks == Init => WalkInv
<1> SUFFICES ASSUME Init PROVE WalkInv
  OBVIOUS
<1>1. JInv
  BY InitJoins
<1>2. row.log = <<>> /\ Len(row.log) = 0
  BY DEF Init, NoDeal
<1>3. \A to : SystemMoves(row, to) = {}
  BY <1>2 DEF SystemMoves
<1>4. Chained(row) /\ EndsAt(row)
  BY <1>2 DEF Chained, EndsAt
<1>5. QED
  BY <1>1, <1>3, <1>4 DEF WalkInv, Walked, Received

\* Where only the tasks that apply bank callbacks overlap, the history of the
\* deal is one walk: no two moves start from the same row (service.transition
\* takes the row lock "first so two concurrent transitions cannot both read the
\* same source status and both succeed").
THEOREM HistoryIsOneWalk ==
  ASSUME BankAtMost
  PROVE  Spec => []HistoryChains
<1>1. WalkInv => HistoryChains
  BY DEF WalkInv, Walked, Chained, HistoryChains
<1>2. WalkInv /\ [Next]_vars => WalkInv'
  BY NextWalks
<1>3. QED
  BY InitWalks, <1>1, <1>2, PTL DEF Spec

\* Where only those tasks overlap, the system moves the deal into paid_escrow and
\* into completed at most once each, however many callbacks assert it at the same
\* time (escrow.apply_provider_event takes the payment FOR UPDATE).
THEOREM TheBankMovesMoneyOnce ==
  ASSUME BankAtMost
  PROVE  Spec => []MoneyMovesOnce
<1>1. WalkInv => MoneyMovesOnce
  <2> SUFFICES ASSUME WalkInv, NEW to \in {"paid_escrow", "completed"}
               PROVE  Cardinality(SystemMoves(row, to)) <= 1
    BY DEF MoneyMovesOnce, SystemMoves
  <2>1. \A i, j \in SystemMoves(row, to) : i = j
    BY DEF WalkInv, Walked
  <2>2. CASE SystemMoves(row, to) = {}
    BY <2>2, FS_EmptySet
  <2>3. CASE SystemMoves(row, to) # {}
    <3>1. PICK i : i \in SystemMoves(row, to)
      BY <2>3
    <3>2. SystemMoves(row, to) = {i}
      BY <2>1, <3>1
    <3>3. QED
      BY <3>2, FS_Singleton
  <2>4. QED
    BY <2>2, <2>3
<1>2. WalkInv /\ [Next]_vars => WalkInv'
  BY NextWalks
<1>3. QED
  BY InitWalks, <1>1, <1>2, PTL DEF Spec

-----------------------------------------------------------------------------
(* One session at a time implements DealEscrow                               *)

\* Both modules speak of the same tables and operators.
LEMMA SameTables ==
  /\ Serial!VALID_TRANSITIONS = VALID_TRANSITIONS /\ Serial!DIRECT_ONLY = DIRECT_ONLY
  /\ Serial!ESCROW_TRANSITIONS = ESCROW_TRANSITIONS /\ Serial!DEAL_EFFECT = DEAL_EFFECT
  /\ Serial!DealStatuses = DealStatuses /\ Serial!EscrowStatuses = EscrowStatuses
  /\ Serial!Parties = Parties /\ Serial!Modes = Modes /\ Serial!Claims = Claims
  /\ Serial!AUTO_APPLIED = AUTO_APPLIED /\ Serial!DIRECT_PAYABLE = DIRECT_PAYABLE
  /\ \A actor, from, to : Serial!MayDrive(actor, from, to) <=> MayDrive(actor, from, to)
BY DEF Serial!VALID_TRANSITIONS, VALID_TRANSITIONS, Serial!DIRECT_ONLY, DIRECT_ONLY,
       Serial!ESCROW_TRANSITIONS, ESCROW_TRANSITIONS, Serial!DEAL_EFFECT, DEAL_EFFECT,
       Serial!DealStatuses, DealStatuses, Serial!EscrowStatuses, EscrowStatuses,
       Serial!Parties, Parties, Serial!Modes, Modes, Serial!Claims, Claims,
       Serial!AUTO_APPLIED, AUTO_APPLIED, Serial!DIRECT_PAYABLE, DIRECT_PAYABLE,
       Serial!Restorable, Restorable, Serial!ACTOR_RULES, ACTOR_RULES,
       Serial!MayDrive, MayDrive

LEMMA SameChecks ==
  ASSUME NEW r, NEW to, NEW actor
  PROVE  /\ Serial!CanMove(r, to, actor) <=> CanMove(r, to, actor)
         /\ Serial!CanMark(r, to, actor) <=> CanMark(r, to, actor)
         /\ Serial!CanConfirm(r) <=> CanConfirm(r)
         /\ Serial!CanInvoice(r) <=> CanInvoice(r)
         /\ Serial!Verdict(r, to, actor) = Verdict(r, to, actor)
<1>1. \A a, t : Serial!CanMove(r, t, a) <=> CanMove(r, t, a)
  BY SameTables DEF Serial!CanMove, CanMove
<1>2. \A t : /\ Serial!DealStays(r, t) <=> DealStays(r, t)
             /\ Serial!MovementExists(r, t) <=> MovementExists(r, t)
             /\ Serial!ReleaseIsDue(r, t) <=> ReleaseIsDue(r, t)
             /\ Serial!DragActor(t) = DragActor(t)
  BY SameTables DEF Serial!DealStays, DealStays, Serial!MovementExists, MovementExists,
       Serial!ReleaseIsDue, ReleaseIsDue, Serial!DragActor, DragActor
<1>3. \A t, a : Serial!DealFollows(r, t, a) <=> DealFollows(r, t, a)
  BY <1>1, <1>2, SameTables DEF Serial!DealFollows, DealFollows
<1>4. \A t, a : Serial!CanMark(r, t, a) <=> CanMark(r, t, a)
  BY <1>2, <1>3 DEF Serial!CanMark, CanMark
<1>5. Serial!CanConfirm(r) <=> CanConfirm(r)
  BY <1>4, SameTables DEF Serial!CanConfirm, CanConfirm
<1>6. Serial!CanInvoice(r) <=> CanInvoice(r)
  BY <1>1 DEF Serial!CanInvoice, CanInvoice
<1>7. Serial!Verdict(r, to, actor) = Verdict(r, to, actor)
  BY <1>2, <1>3, SameTables DEF Serial!Verdict, Verdict
<1>8. QED
  BY <1>1, <1>4, <1>5, <1>6, <1>7

LEMMA SameMoves ==
  /\ \A r, to, actor : Serial!Moved(r, to, actor) = Moved(r, to, actor)
  /\ \A r : Serial!SettleDirect(r) = SettleDirect(r)
  /\ \A r, to, actor : Serial!Transitioned(r, to, actor) = Transitioned(r, to, actor)
  /\ \A r, to : Serial!Marked(r, to) = Marked(r, to)
  /\ \A r, mode : Serial!Invoiced(r, mode) = Invoiced(r, mode)
  /\ \A r, claim, fits : Serial!Applied(r, claim, fits) = Applied(r, claim, fits)
  /\ \A priced : Serial!Opened(priced) = Opened(priced)
<1>1. \A r, to, actor : Serial!Moved(r, to, actor) = Moved(r, to, actor)
  BY DEF Serial!Moved, Moved
<1>2. \A r : Serial!SettleDirect(r) = SettleDirect(r)
  BY DEF Serial!SettleDirect, SettleDirect, Serial!Moved, Moved
<1>3. \A r, to, actor : Serial!Transitioned(r, to, actor) = Transitioned(r, to, actor)
  BY <1>1, <1>2 DEF Serial!Transitioned, Transitioned
<1>4. \A r, to : Serial!Marked(r, to) = Marked(r, to)
  BY <1>1, <1>2, SameTables
     DEF Serial!Marked, Marked, Serial!DealStays, DealStays, Serial!DragActor, DragActor
<1>5. \A r, mode : Serial!Invoiced(r, mode) = Invoiced(r, mode)
  BY DEF Serial!Invoiced, Invoiced, Serial!Moved, Moved
<1>6. \A r, claim, fits : Serial!Applied(r, claim, fits) = Applied(r, claim, fits)
  BY <1>4, SameChecks DEF Serial!Applied, Applied
<1>7. \A priced : Serial!Opened(priced) = Opened(priced)
  BY DEF Serial!Opened, Opened
<1>8. QED
  BY <1>1, <1>2, <1>3, <1>4, <1>5, <1>6, <1>7

LEMMA WriteIs ==
  ASSUME NEW r, row' = r, inbox' = inbox
  PROVE  Serial!Write("deal", r)
BY DEF Serial!Write

LEMMA RoomIs == Serial!Room("deal") <=> Cardinality(Trips) < MaxTrips
<1>1. Serial!Trips(row) = Trips
  BY DEF Serial!Trips, Trips
<1>2. Serial!Cardinality(Trips) = Cardinality(Trips)
  BY DEF Serial!Cardinality, Cardinality
<1>3. QED
  BY <1>1, <1>2 DEF Serial!Room

LEMMA DealSteps == Serial!DealStep("deal") => Serial!Next
BY DEF Serial!Next

LEMMA CallbackSteps ==
  ASSUME NEW c \in Callbacks, Serial!CallbackStep(c)
  PROVE  Serial!Next
BY DEF Serial!Next

\* The callbacks as DealEscrow sees them, all of the one deal.
Seen(event) ==
  IF event = NoCallback THEN NoCallback
  ELSE [deal |-> "deal", claim |-> event.claim, fits |-> event.fits, verdict |-> event.verdict]

SeenInbox == [c \in Callbacks |-> Seen(inbox[c])]

\* The calls by door.
LEMMA CallsAre ==
  ASSUME NEW c \in Calls
  PROVE  /\ c[1] = "party" => c[2] \in DealStatuses /\ c[3] \in Parties
         /\ c[1] = "resolve" => c[2] \in DealStatuses /\ c[3] = "staff"
         /\ c[1] = "contract" => c[2] \in DOMAIN Expected /\ c[3] = "system"
         /\ c[1] = "mark" => c[2] \in EscrowStatuses /\ c[3] = "staff"
         /\ c[1] = "confirm" => c[2] = "funded"
         /\ c[1] = "bank" => c[2] \in Claims /\ c[3] \in Callbacks
BY DEF Calls

LEMMA OpenImplements ==
  ASSUME OpenDeal \/ AdapterNamesRef
  PROVE  Serial!Next
<1>1. CASE OpenDeal
  <2>1. PICK priced \in BOOLEAN : row' = Opened(priced)
    BY <1>1 DEF OpenDeal
  <2>2. row.status = "none" /\ inbox' = inbox
    BY <1>1 DEF OpenDeal
  <2>3. Serial!Write("deal", Serial!Opened(priced))
    BY <2>1, <2>2, SameMoves, WriteIs
  <2>4. Serial!OpenDeal("deal")
    BY <2>2, <2>3 DEF Serial!OpenDeal
  <2>5. QED
    BY <2>4, DealSteps DEF Serial!DealStep
<1>2. CASE AdapterNamesRef
  <2>1. row' = [row EXCEPT !.ref = TRUE] /\ inbox' = inbox /\ row.mode = "live" /\ ~row.ref
    BY <1>2 DEF AdapterNamesRef
  <2>2. Serial!Write("deal", [row EXCEPT !.ref = TRUE])
    BY <2>1, WriteIs
  <2>3. Serial!AdapterNamesRef("deal")
    BY <2>1, <2>2 DEF Serial!AdapterNamesRef
  <2>4. QED
    BY <2>3, DealSteps DEF Serial!DealStep
<1>3. QED
  BY <1>1, <1>2

LEMMA RecordImplements ==
  ASSUME TypeOK, NEW c \in Callbacks, RecordCallback(c)
  PROVE  Serial!Next
<1>1. PICK claim \in Claims, fits \in BOOLEAN :
        inbox' = [inbox EXCEPT ![c] = [claim |-> claim, fits |-> fits, verdict |-> "new"]]
  BY DEF RecordCallback
<1>2. row' = row /\ inbox[c] = NoCallback
  BY DEF RecordCallback
<1> DEFINE x == [claim |-> claim, fits |-> fits, verdict |-> "new"]
           y == [deal |-> "deal", claim |-> claim, fits |-> fits, verdict |-> "new"]
<1>3. Seen(x) = y /\ Seen(inbox[c]) = Serial!NoCallback
  BY <1>2 DEF Seen, NoCallback, Serial!NoCallback
<1> HIDE DEF x, y
<1>4. SeenInbox' = [SeenInbox EXCEPT ![c] = y]
  <2>1. inbox' = [inbox EXCEPT ![c] = x]
    BY <1>1 DEF x
  <2>2. inbox'[c] = x /\ \A d \in Callbacks : d # c => inbox'[d] = inbox[d]
    BY <2>1 DEF TypeOK
  <2>3. QED
    BY <1>3, <2>2 DEF SeenInbox
<1>5. SeenInbox[c] = Serial!NoCallback
  BY <1>3 DEF SeenInbox
<1>6. Serial!RecordCallback(c)
  BY <1>2, <1>4, <1>5, SameTables DEF Serial!RecordCallback, SeenInbox, Seen, y
<1>7. QED
  BY <1>6, CallbackSteps DEF Serial!CallbackStep

LEMMA SessionImplements ==
  ASSUME Overlap = {}, JInv, NEW s \in Sessions, Busy(s), FollowsOperators(s)
  PROVE  Serial!Next \/ (row' = row /\ inbox' = inbox)
<1>1. /\ sess[s].call \in Calls /\ TypeOK
  BY SessionIs DEF JInv, IInv
<1>2. /\ Admitted(Door(s), To(s), By(s))
      /\ To(s) \in {"disputed", "negotiation"} => Cardinality(Trips) < MaxTrips
  BY DEF JInv, Sure
<1>3. CASE row' = row /\ inbox' = inbox
  BY <1>3
<1>4. CASE Door(s) \in FromDeal /\ row' = Transitioned(row, To(s), By(s)) /\ inbox' = inbox
  <2>1. Serial!Write("deal", Serial!Transitioned(row, To(s), By(s)))
    BY <1>4, SameMoves, WriteIs
  <2>2. To(s) \in {"disputed", "negotiation"} => Serial!Room("deal")
    BY <1>2, RoomIs
  <2>3. ASSUME Door(s) = "party" PROVE Serial!DealStep("deal")
    <3>1. /\ Serial!CanMove(row, To(s), By(s))
          /\ To(s) \in Serial!DealStatuses /\ By(s) \in Serial!Parties
      BY <1>1, <1>2, <2>3, CallsAre, SameChecks, SameTables DEF Admitted, Door, To, By
    <3>2. Serial!PartyMove("deal", By(s), To(s))
      BY <2>1, <2>2, <3>1 DEF Serial!PartyMove
    <3>3. QED
      BY <3>1, <3>2 DEF Serial!DealStep
  <2>4. ASSUME Door(s) = "resolve" PROVE Serial!DealStep("deal")
    <3>1. /\ Serial!CanMove(row, To(s), "staff") /\ row.status = "disputed"
          /\ To(s) \in Serial!DealStatuses /\ By(s) = "staff"
      BY <1>1, <1>2, <2>4, CallsAre, SameChecks, SameTables DEF Admitted, Door, To, By
    <3>2. Serial!ResolveDispute("deal", To(s))
      BY <2>1, <3>1 DEF Serial!ResolveDispute
    <3>3. QED
      BY <3>1, <3>2 DEF Serial!DealStep
  <2>5. ASSUME Door(s) = "contract" PROVE Serial!DealStep("deal")
    <3>1. /\ Serial!CanMove(row, To(s), "system") /\ row.status = Expected[To(s)]
          /\ To(s) \in DOMAIN Expected /\ By(s) = "system"
      BY <1>1, <1>2, <2>5, CallsAre, SameChecks DEF Admitted, Door, To, By
    <3>2. Serial!Advance("deal", To(s), Expected[To(s)])
      BY <2>1, <3>1 DEF Serial!Advance
    <3>3. To(s) \in {"contract_pending", "contract_signed", "negotiation"}
      BY <3>1 DEF Expected
    <3>4. \/ Serial!ContractSent("deal")
          \/ Serial!ContractActivated("deal")
          \/ Serial!ContractClosed("deal")
      BY <2>2, <3>2, <3>3
         DEF Expected, Serial!ContractSent, Serial!ContractActivated, Serial!ContractClosed
    <3>5. QED
      BY <3>4 DEF Serial!DealStep
  <2>6. QED
    BY <1>4, <2>3, <2>4, <2>5, DealSteps DEF FromDeal
<1>5. CASE Door(s) \in {"mark", "confirm"} /\ row' = Marked(row, To(s)) /\ inbox' = inbox
  <2>1. Serial!Write("deal", Serial!Marked(row, To(s)))
    BY <1>5, SameMoves, WriteIs
  <2>2. ASSUME Door(s) = "mark" PROVE Serial!DealStep("deal")
    <3>1. Serial!CanMark(row, To(s), "staff") /\ To(s) \in Serial!EscrowStatuses
      BY <1>1, <1>2, <2>2, CallsAre, SameChecks, SameTables DEF Admitted, Door, To, By
    <3>2. Serial!OperatorMark("deal", To(s))
      BY <2>1, <3>1 DEF Serial!OperatorMark
    <3>3. QED
      BY <3>1, <3>2 DEF Serial!DealStep
  <2>3. ASSUME Door(s) = "confirm" PROVE Serial!DealStep("deal")
    <3>1. Serial!CanConfirm(row) /\ To(s) = "funded"
      BY <1>1, <1>2, <2>3, CallsAre, SameChecks DEF Admitted, Door, To, By
    <3>2. Serial!SellerConfirms("deal")
      BY <2>1, <3>1 DEF Serial!SellerConfirms
    <3>3. QED
      BY <3>2 DEF Serial!DealStep
  <2>4. QED
    BY <1>5, <2>2, <2>3, DealSteps
<1>6. CASE /\ Door(s) = "invoice" /\ inbox' = inbox
           /\ \E mode \in Modes : row' = Invoiced(row, mode)
  <2>1. PICK mode \in Modes : row' = Invoiced(row, mode)
    BY <1>6
  <2>2. Serial!Write("deal", Serial!Invoiced(row, mode)) /\ mode \in Serial!Modes
    BY <1>6, <2>1, SameMoves, SameTables, WriteIs
  <2>3. row.status = "contract_signed" /\ Serial!CanInvoice(row)
    BY <1>2, <1>6, SameChecks DEF Admitted
  <2>4. Serial!OpenEscrow("deal")
    BY <2>2, <2>3 DEF Serial!OpenEscrow
  <2>5. QED
    BY <2>4, DealSteps DEF Serial!DealStep
<1>7. CASE /\ Door(s) = "bank"
           /\ row' = Applied(row, To(s), inbox[By(s)].fits)
           /\ inbox' = [inbox EXCEPT ![By(s)] =
                          Decided(@, Verdict(row, To(s), inbox[By(s)].fits))]
  <2>1. By(s) \in Callbacks
    BY <1>1, <1>7, CallsAre DEF Door, By
  <2>2. PICK c \in Callbacks : c = By(s)
    BY <2>1
  <2> DEFINE event == inbox[c]
             verdict == Verdict(row, To(s), event.fits)
             decided == [event EXCEPT !.verdict = verdict]
             seen == [deal |-> "deal", claim |-> event.claim, fits |-> event.fits,
                      verdict |-> event.verdict]
  <2>3. c \in Callbacks /\ event.verdict = "new" /\ event.claim = To(s)
    BY <1>1, <1>2, <1>7, <2>2 DEF Admitted, Door, To, By
  <2>4. event # NoCallback /\ event \in Callback
    BY <1>1, <2>3 DEF NoCallback, TypeOK
  <2>5. /\ decided # NoCallback /\ decided.claim = event.claim /\ decided.fits = event.fits
        /\ decided.verdict = verdict
    BY <2>4 DEF Callback, NoCallback
  <2>6. row' = Applied(row, event.claim, event.fits) /\ inbox' = [inbox EXCEPT ![c] = decided]
    BY <1>7, <2>2, <2>3 DEF Decided
  <2>7. verdict = Verdict(row, event.claim, event.fits)
    BY <2>3
  <2> HIDE DEF verdict, decided
  <2>8. inbox'[c] = decided /\ \A d \in Callbacks : d # c => inbox'[d] = inbox[d]
    BY <1>1, <2>3, <2>6 DEF TypeOK
  <2>9. SeenInbox[c] = seen /\ seen.claim = event.claim /\ seen.fits = event.fits
        /\ seen.verdict = "new" /\ seen.deal = "deal" /\ seen # Serial!NoCallback
    BY <2>3, <2>4 DEF SeenInbox, Seen, Serial!NoCallback
  <2>10. Seen(decided) = [seen EXCEPT !.verdict = verdict]
    BY <2>5 DEF Seen
  <2>11. SeenInbox' = [SeenInbox EXCEPT ![c] = Serial!Decided(@, verdict)]
    <3>1. SeenInbox' = [SeenInbox EXCEPT ![c] = Seen(decided)]
      BY <2>3, <2>8 DEF SeenInbox
    <3>2. Serial!Decided(SeenInbox[c], verdict) = Seen(decided)
      BY <2>9, <2>10 DEF Serial!Decided
    <3>3. QED
      BY <3>1, <3>2
  <2>12. verdict = Serial!Verdict(row, seen.claim, seen.fits)
    BY <2>7, <2>9, SameChecks
  <2>13. row' = Serial!Applied(row, seen.claim, seen.fits)
    BY <2>6, <2>9, SameMoves
  <2>14. Serial!SweepCallback(c)
    <3> DEFINE rows == [d \in {"deal"} |-> row]
    <3>1. rows' = [rows EXCEPT !["deal"] = Serial!Applied(@, seen.claim, seen.fits)]
      BY <2>13
    <3>2. rows["deal"] = row
      OBVIOUS
    <3> HIDE DEF seen
    <3>3. QED
      BY <2>3, <2>9, <2>11, <2>12, <3>1, <3>2
         DEF Serial!SweepCallback, Serial!ApplyCallback, SeenInbox, Seen
  <2>15. QED
    <3>1. Serial!CallbackStep(c)
      BY <2>14 DEF Serial!CallbackStep
    <3>2. QED
      BY <2>3, <3>1, CallbackSteps
<1>8. QED
  BY <1>3, <1>4, <1>5, <1>6, <1>7 DEF FollowsOperators

\* Sessions that run one at a time are DealEscrow: the row, the callbacks and the
\* verdicts that their locks, loads and flushes leave behind are those of its
\* actions, for any sessions and callbacks.
THEOREM SerialSessionsImplementDealEscrow ==
  ASSUME Overlap = {}
  PROVE  Spec => ImplementsDealEscrow
<1>1. Init => Serial!Init
  BY SameTables DEF Init, Serial!Init, NoDeal, Serial!NoDeal, NoCallback, Serial!NoCallback
<1>2. JInv /\ [Next]_vars => [Serial!Next]_(Serial!vars)
  <2> SUFFICES ASSUME JInv, [Next]_vars
               PROVE  Serial!Next \/ (row' = row /\ inbox' = inbox)
    BY DEF Serial!vars
  <2>1. ASSUME NEW s \in Sessions, NEW call \in Calls, Begin(s, call)
        PROVE  row' = row /\ inbox' = inbox
    BY <2>1 DEF Begin
  <2>2. ASSUME UNCHANGED vars PROVE row' = row /\ inbox' = inbox
    BY <2>2 DEF vars
  <2>3. ASSUME NEW s \in Sessions, Proceed(s) \/ AbortDeadlock(s)
        PROVE  Serial!Next \/ (row' = row /\ inbox' = inbox)
    BY <2>3, SessionSteps, SessionImplements DEF Stepped
  <2>4. ASSUME NEW c \in Callbacks, RecordCallback(c) PROVE Serial!Next
    BY <2>4, RecordImplements DEF JInv, IInv
  <2>5. QED
    BY <2>1, <2>2, <2>3, <2>4, OpenImplements DEF Next
<1>3. JInv /\ [Next]_vars => JInv'
  BY NextJoins DEF BankAtMost
<1>4. QED
  BY InitJoins, <1>1, <1>2, <1>3, PTL DEF Spec, ImplementsDealEscrow, Serial!Spec

=============================================================================
