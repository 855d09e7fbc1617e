---------------------------- MODULE ContractProofs ----------------------------
(****************************************************************************)
(* What ContractSigning promises of a contract and of its deal, proved for   *)
(* any contracts, sessions, schedules and number of renders.                 *)
(*                                                                           *)
(* The argument is an inductive invariant in three parts.  Orderly says what *)
(* a session in progress may still rely on although it locked nothing when   *)
(* it loaded the contract; Earned says what an activation and its event      *)
(* stand for; Followed says what the deal makes of it.                       *)
(****************************************************************************)
EXTENDS ContractSigning, SequenceTheorems, TLAPS

Alone(s) == \A t \in Sessions : Busy(t) => t = s

\* Statuses in which nobody can have signed.
Unsent == {"none", "draft"}

\* What a session knows of a contract that ended while the session had it: its
\* door overlaps, and only an unlocked door ends a contract without activating it.
Overtaken(s) ==
  contract[sess[s].c].status \in Final =>
    /\ sess[s].door \in world.overlap
    /\ contract[sess[s].c].status = "active" \/ world.overlap \cap Unlocked # {}

Orderly ==
  /\ \A c \in Contracts : contract[c].status = "none" => ~contract[c].stamped
  /\ \A c \in Contracts : contract[c].status \in Unsent => Signatures(contract[c]) = {}
  /\ \A s \in Sessions : sess[s].door = "create" =>
       /\ contract[sess[s].c].status = "none"
       /\ \A t \in Sessions : Busy(t) /\ sess[t].c = sess[s].c => t = s
       /\ "create" \notin world.overlap => Alone(s) /\ deal.contract = {}
  /\ \A s \in Sessions : sess[s].door = "provider" => contract[sess[s].c].rail = "didox"
  /\ \A s \in Sessions : sess[s].door = "sign" =>
       /\ sess[s].by \in Sides
       /\ contract[sess[s].c].status \notin Unsent
       /\ "edit" \notin world.overlap => sess[s].seen.doc = contract[sess[s].c].doc
  /\ \A s \in Sessions : sess[s].door = "edit" /\ "edit" \notin world.overlap =>
       Alone(s) /\ contract[sess[s].c].status = "draft"
  /\ \A s, t \in Sessions : Busy(s) /\ Busy(t) /\ t # s => sess[s].door \in world.overlap
  /\ \A s \in Sessions : Busy(s) => sess[s].seen.status \notin Final /\ Overtaken(s)

Earned ==
  /\ ActivationIsEarned
  /\ PairActivates
  /\ SignaturesCoverTheDocument
  /\ ActivatesOnce
  /\ \A i \in DOMAIN outbox : outbox[i].kind = "activated" =>
       /\ contract[outbox[i].c].stamped
       /\ contract[outbox[i].c].rail = "eimzo" => Signatures(contract[outbox[i].c]) = Sides

Followed ==
  /\ deal.contract = {} => deal.status # "contract_signed"
  /\ ContractedDealHasItsContract

IInv == TypeOK /\ Orderly /\ Earned /\ Followed

-----------------------------------------------------------------------------
(* Lemmas about the operators                                                *)

LEMMA SidesAre == Sides = {"initiator", "counterparty"} /\ "system" \notin Sides
  BY DEF Sides

LEMMA AllSigned ==
  ASSUME NEW k \in Contract
  PROVE  /\ Signatures(k) = Sides <=> \A p \in Sides : k.signed[p] # 0
         /\ Signatures(k) = {} <=> \A p \in Sides : k.signed[p] = 0
  BY DEF Signatures

LEMMA DraftedType == ASSUME NEW rail \in Rails PROVE Drafted(rail) \in Contract
  BY MaxRendersAssumption DEF Drafted, Contract, Statuses

LEMMA NoContractType == NoContract \in Contract
<1>1. Drafted("eimzo") \in Contract
  BY DraftedType DEF Rails
<1>2. "none" \in Statuses /\ 0 \in 0..MaxRenders
  BY MaxRendersAssumption DEF Statuses
<1>3. [Drafted("eimzo") EXCEPT !.status = "none"] \in Contract
  BY <1>1, <1>2 DEF Contract
<1>4. QED
  BY <1>2, <1>3 DEF NoContract, Contract

\* A session in progress is a record of Session, whatever Idle looks like.
LEMMA BusySession ==
  ASSUME TypeOK, NEW s \in Sessions
  PROVE  /\ Busy(s) => sess[s] \in Session
         /\ sess[s].door # "none" => Busy(s)
<1>1. sess[s] \in Session \cup {Idle}
  BY DEF TypeOK
<1>2. Idle.door = "none"
  BY DEF Idle
<1>3. QED
  BY <1>1, <1>2 DEF Busy

\* An event is added at the end of the outbox.
LEMMA EmitAppends ==
  ASSUME outbox \in Seq(Events), NEW kind \in {"sent", "activated", "closed"},
         NEW c \in Contracts, Emit(kind, c)
  PROVE  /\ outbox' \in Seq(Events)
         /\ DOMAIN outbox' = DOMAIN outbox \cup {Len(outbox) + 1}
         /\ \A i \in DOMAIN outbox : outbox'[i] = outbox[i] /\ i # Len(outbox) + 1
         /\ outbox'[Len(outbox) + 1] = [kind |-> kind, c |-> c, new |-> TRUE]
<1>1. [kind |-> kind, c |-> c, new |-> TRUE] \in Events
  BY DEF Events
<1>2. QED
  BY <1>1, AppendProperties, LenProperties DEF Emit

-----------------------------------------------------------------------------
(* Types                                                                     *)

LEMMA InitTyped == Init => TypeOK
<1> SUFFICES ASSUME Init PROVE TypeOK
  OBVIOUS
<1>1. contract \in [Contracts -> Contract]
  BY NoContractType DEF Init
<1>2. challenge \in [Contracts -> [Sides -> 0..MaxRenders]]
  BY MaxRendersAssumption DEF Init
<1>3. deal \in [status : DealStatuses, contract : SUBSET Contracts]
  BY DEF Init, DealStatuses
<1>4. outbox \in Seq(Events) /\ tasks \subseteq DOMAIN outbox
  BY DEF Init
<1>5. QED
  BY <1>1, <1>2, <1>3, <1>4 DEF Init, TypeOK

LEMMA BeginTyped ==
  ASSUME TypeOK, NEW s \in Sessions, NEW door \in Doors, NEW c \in Contracts,
         NEW by \in Sides \cup {"system"}, Begin(s, door, c, by)
  PROVE  TypeOK'
<1>1. Loaded(door, c, by) \in Session
  BY DEF Loaded, Session, TypeOK
<1>2. sess' \in [Sessions -> Session \cup {Idle}]
  BY <1>1 DEF Begin, TypeOK
<1>3. QED
  BY <1>2 DEF Begin, TypeOK

\* A session that ends leaves no trace of its own.
LEMMA DoneTyped ==
  ASSUME sess \in [Sessions -> Session \cup {Idle}], NEW s \in Sessions, Done(s)
  PROVE  sess' \in [Sessions -> Session \cup {Idle}]
  BY DEF Done

LEMMA FinishTyped ==
  ASSUME TypeOK, NEW s \in Sessions, Goes(s)
  PROVE  TypeOK'
<1>1. sess[s] # Idle => sess[s] \in Session
  BY DEF TypeOK
<1>2. "none" \notin {"create", "edit", "send", "decline", "cancel", "expire", "sign", "provider"}
  OBVIOUS
<1>3. Idle.door = "none"
  BY DEF Idle
<1>4. CASE Rollback(s)
  BY <1>4, DoneTyped DEF Rollback, TypeOK
<1>5. CASE FinishCreate(s)
  <2>1. sess[s] \in Session
    BY <1>1, <1>3, <1>5 DEF FinishCreate
  <2>2. sess[s].c \in Contracts
    BY <2>1 DEF Session
  <2>3. contract' \in [Contracts -> Contract]
    BY <1>5, <2>2, DraftedType DEF FinishCreate, TypeOK
  <2>4. deal' \in [status : DealStatuses, contract : SUBSET Contracts]
    BY <1>5, <2>2 DEF FinishCreate, TypeOK
  <2>5. QED
    BY <1>5, <2>3, <2>4, DoneTyped DEF FinishCreate, TypeOK
<1>6. CASE FinishEdit(s)
  <2>1. sess[s].c \in Contracts
    BY <1>1, <1>3, <1>6 DEF FinishEdit, Session
  <2>2. contract[sess[s].c] \in Contract
    BY <2>1 DEF TypeOK
  <2>3. [contract[sess[s].c] EXCEPT !.doc = @ + 1] \in Contract
    BY <1>6, <2>2, MaxRendersAssumption DEF FinishEdit, Contract
  <2>4. contract' \in [Contracts -> Contract]
    BY <1>6, <2>1, <2>3 DEF FinishEdit, TypeOK
  <2>5. QED
    BY <1>6, <2>4, DoneTyped DEF FinishEdit, TypeOK
<1>7. CASE Move(s)
  <2>1. sess[s].door \in {"send", "decline", "cancel", "expire"}
    BY <1>7 DEF Move, Target
  <2>2. sess[s].c \in Contracts
    BY <1>1, <1>3, <2>1 DEF Session
  <2>3. Target[sess[s].door] \in Statuses
    BY <2>1 DEF Target, Statuses
  <2>4. [contract[sess[s].c] EXCEPT !.status = Target[sess[s].door]] \in Contract
    BY <2>2, <2>3 DEF TypeOK, Contract
  <2>5. contract' \in [Contracts -> Contract]
    BY <1>7, <2>2, <2>4 DEF Move, TypeOK
  <2>6. outbox' \in Seq(Events) /\ DOMAIN outbox \subseteq DOMAIN outbox'
    BY <1>7, <2>2, EmitAppends DEF Move, TypeOK
  <2>7. QED
    BY <1>7, <2>5, <2>6, DoneTyped DEF Move, TypeOK
<1>8. CASE TakeChallenge(s)
  <2>1. sess[s] \in Session
    BY <1>1, <1>3, <1>8 DEF TakeChallenge
  <2>2. [sess[s] EXCEPT !.step = "verified"] \in Session
    BY <2>1 DEF Session
  <2>3. sess' \in [Sessions -> Session \cup {Idle}]
    BY <1>8, <2>2 DEF TakeChallenge, TypeOK
  <2>4. sess[s].c \in Contracts /\ 0 \in 0..MaxRenders
    BY <2>1, MaxRendersAssumption DEF Session
  <2>5. [challenge[sess[s].c] EXCEPT ![sess[s].by] = 0] \in [Sides -> 0..MaxRenders]
    BY <2>4 DEF TypeOK
  <2>6. challenge' \in [Contracts -> [Sides -> 0..MaxRenders]]
    BY <1>8, <2>4, <2>5 DEF TakeChallenge, TypeOK
  <2>7. QED
    BY <1>8, <2>3, <2>6 DEF TakeChallenge, TypeOK
<1>9. CASE FinishSign(s)
  <2> DEFINE z == sess[s]
             k == AddSignature(z)
  <2>1. z \in Session
    BY <1>1, <1>3, <1>9 DEF FinishSign
  <2>2. z.c \in Contracts /\ z.seen.doc \in 0..MaxRenders /\ contract[z.c] \in Contract
    BY <2>1 DEF Session, Contract, TypeOK
  <2>3. k \in Contract
    BY <2>2 DEF AddSignature, Contract
  <2>4. Activated(k) \in Contract
    BY <2>3 DEF Activated, Contract, Statuses
  <2>5. contract' \in [Contracts -> Contract]
    BY <1>9, <2>2, <2>3, <2>4 DEF FinishSign, TypeOK
  <2>6. outbox' \in Seq(Events) /\ DOMAIN outbox \subseteq DOMAIN outbox'
    BY <1>9, <2>2, EmitAppends DEF FinishSign, TypeOK
  <2>7. QED
    BY <1>9, <2>5, <2>6, DoneTyped DEF FinishSign, TypeOK
<1>10. CASE FinishProvider(s)
  <2>1. sess[s].c \in Contracts
    BY <1>1, <1>3, <1>10 DEF FinishProvider, Session
  <2> DEFINE k == contract[sess[s].c]
  <2>2. k \in Contract
    BY <2>1 DEF TypeOK
  <2> HIDE DEF k
  <2>3. Activated(k) \in Contract
    BY <2>2 DEF Activated, Contract, Statuses
  <2>4. [Activated(k) EXCEPT !.evidence = TRUE] \in Contract
    BY <2>3 DEF Contract
  <2>5. contract' \in [Contracts -> Contract]
    BY <1>10, <2>1, <2>4 DEF FinishProvider, TypeOK, k
  <2>6. outbox' \in Seq(Events) /\ DOMAIN outbox \subseteq DOMAIN outbox'
    BY <1>10, <2>1, EmitAppends DEF FinishProvider, TypeOK
  <2>7. QED
    BY <1>10, <2>5, <2>6, DoneTyped DEF FinishProvider, TypeOK
<1>11. QED
  BY <1>4, <1>5, <1>6, <1>7, <1>8, <1>9, <1>10 DEF Goes

\* A tick restamps the outbox and keeps every event.
LEMMA DispatchKeeps ==
  ASSUME TypeOK, NEW enqueued, NEW stamped, enqueued \subseteq Due, Dispatch(enqueued, stamped)
  PROVE  /\ TypeOK'
         /\ DOMAIN outbox' = DOMAIN outbox
         /\ \A i \in DOMAIN outbox :
              outbox'[i].kind = outbox[i].kind /\ outbox'[i].c = outbox[i].c
<1>1. /\ Len(outbox) \in Nat
      /\ DOMAIN outbox = 1..Len(outbox)
      /\ \A i \in DOMAIN outbox : outbox[i] \in Events
  BY LenProperties, ElementOfSeq DEF TypeOK
<1>2. \A i \in DOMAIN outbox : [outbox[i] EXCEPT !.new = @ /\ i \notin stamped] \in Events
  BY <1>1 DEF Events
<1>3. outbox' \in [1..Len(outbox) -> Events]
  BY <1>1, <1>2 DEF Dispatch
<1>4. outbox' \in Seq(Events)
  BY <1>1, <1>3, SeqDef
<1>5. tasks' \subseteq DOMAIN outbox'
  BY <1>1, <1>3 DEF Dispatch, Due, TypeOK
<1>6. \A i \in DOMAIN outbox :
        outbox'[i].kind = outbox[i].kind /\ outbox'[i].c = outbox[i].c
  BY <1>1 DEF Dispatch, Events
<1>7. QED
  BY <1>1, <1>3, <1>4, <1>5, <1>6 DEF Dispatch, TypeOK

LEMMA AdvancedType ==
  ASSUME TypeOK, NEW i \in DOMAIN outbox
  PROVE  Advanced(outbox[i]) \in [status : DealStatuses, contract : SUBSET Contracts]
<1>1. outbox[i] \in Events
  BY ElementOfSeq, LenProperties DEF TypeOK
<1>2. Leads[outbox[i].kind].to \in DealStatuses
  BY <1>1 DEF Leads, Events, DealStatuses
<1>3. QED
  BY <1>2 DEF Advanced, TypeOK

LEMMA OtherTyped ==
  ASSUME TypeOK,
         \/ \E c \in Contracts, p \in Sides : IssueChallenge(c, p) \/ ChallengeLapses(c, p)
         \/ Tick
         \/ \E i \in DOMAIN outbox : Consume(i) \/ ConsumeUnacked(i) \/ ConsumerFails(i)
         \/ PartyCancelsDeal
  PROVE  TypeOK'
<1>1. ASSUME NEW c \in Contracts, NEW p \in Sides, IssueChallenge(c, p) \/ ChallengeLapses(c, p)
      PROVE  TypeOK'
  <2>1. contract[c].doc \in 0..MaxRenders /\ 0 \in 0..MaxRenders
    BY MaxRendersAssumption DEF TypeOK, Contract
  <2>2. ASSUME NEW n \in 0..MaxRenders
        PROVE  [challenge EXCEPT ![c][p] = n] \in [Contracts -> [Sides -> 0..MaxRenders]]
    BY DEF TypeOK
  <2>3. challenge' \in [Contracts -> [Sides -> 0..MaxRenders]]
    BY <1>1, <2>1, <2>2 DEF IssueChallenge, ChallengeLapses
  <2>4. QED
    BY <1>1, <2>3 DEF IssueChallenge, ChallengeLapses, TypeOK
<1>2. CASE Tick
  BY <1>2, DispatchKeeps DEF Tick, CleanTick
<1>3. ASSUME NEW i \in DOMAIN outbox, Consume(i) \/ ConsumeUnacked(i) \/ ConsumerFails(i)
      PROVE  TypeOK'
  BY <1>3, AdvancedType DEF Consume, ConsumeUnacked, ConsumerFails, TypeOK
<1>4. CASE PartyCancelsDeal
  BY <1>4 DEF PartyCancelsDeal, TypeOK, DealStatuses
<1>5. QED
  BY <1>1, <1>2, <1>3, <1>4

\* Whatever the door, a session that begins has passed its guard.
LEMMA BeginsPass ==
  ASSUME NEW s \in Sessions, Begins(s)
  PROVE  \E door \in Doors, c \in Contracts, by \in Sides \cup {"system"} :
           /\ Begin(s, door, c, by)
           /\ contract[c].status \notin Final
           /\ door = "create" =>
                /\ contract[c].status = "none"
                /\ \A t \in Sessions : Busy(t) => sess[t].c # c
                /\ deal.contract = {}
           /\ door # "create" => contract[c].status # "none"
           /\ door = "edit" => contract[c].status = "draft"
           /\ door = "sign" => by \in Sides /\ contract[c].status \notin Unsent
           /\ door = "provider" => contract[c].rail = "didox"
<1>1. PICK c \in Contracts :
        \/ BeginCreate(s, c) \/ BeginEdit(s, c) \/ BeginSend(s, c) \/ BeginDecline(s, c)
        \/ BeginCancel(s, c) \/ BeginExpire(s, c)
        \/ \E p \in Sides : BeginSign(s, c, p)
        \/ BeginProvider(s, c)
  BY DEF Begins
<1>2. "initiator" \in Sides /\ "counterparty" \in Sides
  BY DEF Sides
<1>3. \A to : <<contract[c].status, to>> \in Transitions =>
        contract[c].status \in {"draft", "pending_signatures"}
  BY DEF Transitions
<1>4. CASE BeginCreate(s, c)
  BY <1>2, <1>4 DEF BeginCreate, Doors, Final
<1>5. CASE BeginEdit(s, c)
  BY <1>2, <1>5 DEF BeginEdit, Doors, Final
<1>6. CASE BeginSend(s, c)
  BY <1>2, <1>3, <1>6 DEF BeginSend, Doors, Final
<1>7. CASE BeginDecline(s, c)
  BY <1>2, <1>3, <1>7 DEF BeginDecline, Doors, Final
<1>8. CASE BeginCancel(s, c)
  BY <1>2, <1>3, <1>8 DEF BeginCancel, Doors, Final
<1>9. CASE BeginExpire(s, c)
  BY <1>3, <1>9 DEF BeginExpire, Doors, Final
<1>10. CASE \E p \in Sides : BeginSign(s, c, p)
  BY <1>10 DEF BeginSign, Doors, Final, Unsent
<1>11. CASE BeginProvider(s, c)
  BY <1>11 DEF BeginProvider, Doors, Final
<1>12. QED
  BY <1>1, <1>4, <1>5, <1>6, <1>7, <1>8, <1>9, <1>10, <1>11

-----------------------------------------------------------------------------
(* Sessions in progress                                                      *)

LEMMA BeginOrderly ==
  ASSUME TypeOK, Orderly, NEW s \in Sessions, Begins(s)
  PROVE  Orderly' /\ TypeOK' /\ UNCHANGED <<world, contract, outbox, deal>>
<1>1. PICK door \in Doors, c \in Contracts, by \in Sides \cup {"system"} :
           /\ Begin(s, door, c, by)
           /\ contract[c].status \notin Final
           /\ door = "create" =>
                /\ contract[c].status = "none"
                /\ \A t \in Sessions : Busy(t) => sess[t].c # c
                /\ deal.contract = {}
           /\ door # "create" => contract[c].status # "none"
           /\ door = "edit" => contract[c].status = "draft"
           /\ door = "sign" => by \in Sides /\ contract[c].status \notin Unsent
           /\ door = "provider" => contract[c].rail = "didox"
  BY BeginsPass
<1>2. /\ UNCHANGED <<world, contract, outbox, deal>>
      /\ sess' = [sess EXCEPT ![s] = Loaded(door, c, by)]
      /\ ~Busy(s)
      /\ \A t \in Sessions : Busy(t) => {door, sess[t].door} \subseteq world.overlap
  BY <1>1 DEF Begin, MayOverlap
<1>3. TypeOK'
  BY <1>1, BeginTyped
<1>4. /\ sess'[s] = [door |-> door, c |-> c, by |-> by, seen |-> contract[c], step |-> "loaded"]
      /\ \A t \in Sessions : t # s => sess'[t] = sess[t]
  BY <1>2 DEF Loaded, TypeOK
<1>5. \A t \in Sessions : Busy(t)' <=> Busy(t) \/ t = s
  BY <1>2, <1>4, <1>1, BusySession DEF Busy, Idle, Doors
<1>6. \A t \in Sessions : sess[t].door # "none" => Busy(t)
  BY BusySession
<1>7. ASSUME NEW t \in Sessions, sess'[t].door = "create"
      PROVE  /\ contract[sess'[t].c].status = "none"
             /\ \A u \in Sessions : Busy(u)' /\ sess'[u].c = sess'[t].c => u = t
             /\ "create" \notin world.overlap => Alone(t)' /\ deal.contract = {}
  <2>1. CASE t = s
    BY <1>1, <1>2, <1>4, <1>5, <1>7, <2>1 DEF Alone
  <2>2. CASE t # s
    BY <1>1, <1>2, <1>4, <1>5, <1>6, <1>7, <2>2 DEF Orderly, Alone
  <2>3. QED
    BY <2>1, <2>2
<1>8. ASSUME NEW t \in Sessions, sess'[t].door = "edit", "edit" \notin world.overlap
      PROVE  Alone(t)' /\ contract[sess'[t].c].status = "draft"
  <2>1. CASE t = s
    BY <1>1, <1>2, <1>4, <1>5, <1>8, <2>1 DEF Alone
  <2>2. CASE t # s
    BY <1>1, <1>2, <1>4, <1>5, <1>6, <1>8, <2>2 DEF Orderly, Alone
  <2>3. QED
    BY <2>1, <2>2
<1>9. ASSUME NEW t \in Sessions, Busy(t)'
      PROVE  sess'[t].seen.status \notin Final /\ Overtaken(t)'
  <2>1. CASE t = s
    BY <1>1, <1>2, <1>4, <2>1 DEF Overtaken
  <2>2. CASE t # s
    BY <1>2, <1>4, <1>5, <1>9, <2>2 DEF Orderly, Overtaken
  <2>3. QED
    BY <2>1, <2>2
<1>12. ASSUME NEW t \in Sessions, NEW u \in Sessions, Busy(t)', Busy(u)', u # t
       PROVE  sess'[t].door \in world.overlap
  BY <1>2, <1>4, <1>5, <1>12 DEF Orderly
<1>10. ASSUME NEW t \in Sessions, sess'[t].door = "sign"
       PROVE  /\ sess'[t].by \in Sides
              /\ contract[sess'[t].c].status \notin Unsent
              /\ "edit" \notin world.overlap => sess'[t].seen.doc = contract[sess'[t].c].doc
  BY <1>1, <1>4, <1>10 DEF Orderly
<1>11. ASSUME NEW t \in Sessions, sess'[t].door = "provider"
       PROVE  contract[sess'[t].c].rail = "didox"
  BY <1>1, <1>4, <1>11 DEF Orderly
<1>13. QED
  BY <1>2, <1>3, <1>7, <1>8, <1>9, <1>10, <1>11, <1>12 DEF Orderly

\* What every commit but a creation keeps of the row.
Kept(k, q) ==
  /\ q.rail = k.rail
  /\ q.stamped => k.stamped \/ q.status = "active"
  /\ k.stamped => q.stamped
  /\ q.status \in Unsent => q.status = k.status /\ Signatures(q) = Signatures(k)

\* What a session changes as it goes on.
LEMMA GoesChange ==
  ASSUME TypeOK, Orderly, NEW s \in Sessions, Goes(s)
  PROVE  /\ world' = world
         /\ Busy(s)
         /\ \A t \in Sessions : t # s => sess'[t] = sess[t]
         /\ \/ sess'[s] = Idle
            \/ /\ sess'[s] = [sess[s] EXCEPT !.step = "verified"]
               /\ sess[s] \in Session
               /\ UNCHANGED <<contract, outbox, deal>>
         /\ sess[s].door = "create" \/ deal' = deal
         /\ \A d \in Contracts : d # sess[s].c => contract'[d] = contract[d]
         /\ \A d \in Contracts : d = sess[s].c =>
              \/ contract'[d] = contract[d]
              \/ sess[s].door = "create" /\ ~contract'[d].stamped /\ Signatures(contract'[d]) = {}
              \/ /\ Kept(contract[d], contract'[d])
                 /\ contract'[d].doc = contract[d].doc \/ sess[s].door = "edit"
         /\ \/ sess[s].door \in Unlocked \cup {"create"}
            \/ \A d \in Contracts : contract'[d].status \in {contract[d].status, "active"}
         /\ sess[s].door = "create" => \A d \in Contracts :
              contract'[d].status \in {contract[d].status, "draft"}
<1>1. Busy(s)
  BY BusySession DEF Goes, Rollback, FinishCreate, FinishEdit, Move, Target, TakeChallenge,
     FinishSign, FinishProvider
<1>2. sess[s] \in Session /\ sess[s].c \in Contracts
  BY <1>1, BusySession DEF Session
<1> DEFINE c == sess[s].c
           k == contract[c]
<1>3. k \in Contract
  BY <1>2 DEF TypeOK
<1> HIDE DEF k
<1>4. CASE Rollback(s)
  BY <1>1, <1>4 DEF Rollback, Done, TypeOK
<1>5. CASE TakeChallenge(s)
  BY <1>1, <1>2, <1>5 DEF TakeChallenge, TypeOK
<1>6. CASE FinishCreate(s)
  <2>1. PICK rail \in Rails : contract' = [contract EXCEPT ![c] = Drafted(rail)]
    BY <1>6 DEF FinishCreate
  <2>2. /\ ~Drafted(rail).stamped /\ Signatures(Drafted(rail)) = {}
        /\ Drafted(rail).status = "draft"
    BY DEF Drafted, Signatures
  <2>3. QED
    BY <1>1, <1>2, <1>6, <2>1, <2>2 DEF FinishCreate, Done, TypeOK
<1>7. CASE FinishEdit(s)
  <2>1. contract' = [contract EXCEPT ![c] = [k EXCEPT !.doc = @ + 1]]
    BY <1>7 DEF FinishEdit, k
  <2>2. Kept(k, [k EXCEPT !.doc = @ + 1]) /\ [k EXCEPT !.doc = @ + 1].status = k.status
    BY <1>3 DEF Kept, Signatures, Contract
  <2>3. QED
    BY <1>1, <1>2, <1>7, <2>1, <2>2 DEF FinishEdit, Done, TypeOK, k
<1>8. CASE Move(s)
  <2>1. contract' = [contract EXCEPT ![c] = [k EXCEPT !.status = Target[sess[s].door]]]
    BY <1>8 DEF Move, k
  <2>2. Target[sess[s].door] \notin Unsent
    BY <1>8 DEF Move, Target, Unsent
  <2>3. Kept(k, [k EXCEPT !.status = Target[sess[s].door]])
    BY <1>3, <2>2 DEF Kept, Contract
  <2>4. [k EXCEPT !.status = Target[sess[s].door]].doc = k.doc
    BY <1>3 DEF Contract
  <2>5. sess[s].door \in Unlocked
    BY <1>8 DEF Move, Target, Unlocked
  <2>6. "create" \notin Unlocked
    BY DEF Unlocked
  <2>7. QED
    BY <1>1, <1>2, <1>8, <2>1, <2>3, <2>4, <2>5, <2>6 DEF Move, Done, TypeOK, k
<1>9. CASE FinishSign(s)
  <2> DEFINE q == AddSignature(sess[s])
  <2>1. q = [k EXCEPT !.signed = [k.signed EXCEPT ![sess[s].by] = sess[s].seen.doc]]
    BY DEF AddSignature, k
  <2>2. k.status \notin Unsent
    BY <1>9 DEF FinishSign, Orderly, k
  <2>3. q.status = k.status /\ q.rail = k.rail /\ q.stamped = k.stamped /\ q.doc = k.doc
    BY <1>3, <2>1 DEF Contract
  <2>4. q \in Contract
    BY <1>2, <1>3 DEF AddSignature, Contract, Session, k
  <2> HIDE DEF q
  <2>5. Kept(k, q)
    BY <2>2, <2>3 DEF Kept
  <2>6. /\ Kept(k, Activated(q)) /\ Activated(q).doc = k.doc
        /\ Activated(q).status = "active"
    BY <2>3, <2>4 DEF Kept, Activated, Unsent, Contract
  <2>7. contract' = [contract EXCEPT ![c] = IF Completes(sess[s], q) THEN Activated(q) ELSE q]
    BY <1>9 DEF FinishSign, q
  <2>8. QED
    BY <1>1, <1>2, <1>9, <2>3, <2>5, <2>6, <2>7 DEF FinishSign, Done, TypeOK, k
<1>10. CASE FinishProvider(s)
  <2> DEFINE q == [Activated(k) EXCEPT !.evidence = TRUE]
  <2>1. contract' = [contract EXCEPT ![c] = q]
    BY <1>10 DEF FinishProvider, k
  <2>2. Kept(k, q) /\ q.doc = k.doc /\ q.status = "active"
    BY <1>3 DEF Kept, Activated, Unsent, Contract
  <2>3. QED
    BY <1>1, <1>2, <1>10, <2>1, <2>2 DEF FinishProvider, Done, TypeOK, k
<1>11. QED
  BY <1>4, <1>5, <1>6, <1>7, <1>8, <1>9, <1>10 DEF Goes

LEMMA GoesOrderly ==
  ASSUME TypeOK, Orderly, NEW s \in Sessions, Goes(s)
  PROVE  Orderly'
<1> DEFINE c == sess[s].c
<1>1. /\ world' = world
      /\ Busy(s)
      /\ \A t \in Sessions : t # s => sess'[t] = sess[t]
      /\ \/ sess'[s] = Idle
         \/ /\ sess'[s] = [sess[s] EXCEPT !.step = "verified"]
            /\ sess[s] \in Session
            /\ UNCHANGED <<contract, outbox, deal>>
      /\ sess[s].door = "create" \/ deal' = deal
      /\ \A d \in Contracts : d # c => contract'[d] = contract[d]
      /\ \A d \in Contracts : d = c =>
           \/ contract'[d] = contract[d]
           \/ sess[s].door = "create" /\ ~contract'[d].stamped /\ Signatures(contract'[d]) = {}
           \/ /\ Kept(contract[d], contract'[d])
              /\ contract'[d].doc = contract[d].doc \/ sess[s].door = "edit"
      /\ \/ sess[s].door \in Unlocked \cup {"create"}
         \/ \A d \in Contracts : contract'[d].status \in {contract[d].status, "active"}
      /\ sess[s].door = "create" => \A d \in Contracts :
           contract'[d].status \in {contract[d].status, "draft"}
  BY GoesChange
<1>2. /\ Idle.door = "none"
      /\ \A t \in Sessions : sess[t].door # "none" => Busy(t)
      /\ \A t \in Sessions : Busy(t) => sess[t] \in Session
  BY BusySession DEF Idle
<1>3. \A t \in Sessions : Busy(t)' => Busy(t)
  BY <1>1 DEF Busy
\* A session that is in progress afterwards was so before, with the same contract.
<1>4. ASSUME NEW t \in Sessions, sess'[t].door # "none"
      PROVE  /\ Busy(t)
             /\ sess'[t].door = sess[t].door /\ sess'[t].c = sess[t].c /\ sess[t].c \in Contracts
             /\ sess'[t].by = sess[t].by /\ sess'[t].seen = sess[t].seen
             /\ t = s => UNCHANGED <<contract, deal>>
  <2>1. CASE t = s
    BY <1>1, <1>2, <1>4, <2>1 DEF Session
  <2>2. CASE t # s
    BY <1>1, <1>2, <1>4, <2>2 DEF Session
  <2>3. QED
    BY <2>1, <2>2
\* Its contract is not one that another session has just created.
<1>5. ASSUME NEW t \in Sessions, sess'[t].door # "none"
      PROVE  /\ \/ contract'[sess[t].c] = contract[sess[t].c]
                \/ Kept(contract[sess[t].c], contract'[sess[t].c])
             /\ contract'[sess[t].c].doc = contract[sess[t].c].doc \/ (t # s /\ sess[s].door = "edit")
             /\ sess[t].door = "create" => contract'[sess[t].c] = contract[sess[t].c]
  BY <1>1, <1>2, <1>4, <1>5 DEF Orderly
<1>6. ASSUME NEW d \in Contracts
      PROVE  /\ contract'[d].status = "none" => ~contract'[d].stamped
             /\ contract'[d].status \in Unsent => Signatures(contract'[d]) = {}
  BY <1>1 DEF Orderly, Kept, Unsent
<1>7. ASSUME NEW t \in Sessions, sess'[t].door = "create"
      PROVE  /\ contract'[sess'[t].c].status = "none"
             /\ \A u \in Sessions : Busy(u)' /\ sess'[u].c = sess'[t].c => u = t
             /\ "create" \notin world.overlap => Alone(t)' /\ deal'.contract = {}
  <2>1. sess[t].door = "create" /\ sess'[t].c = sess[t].c
    BY <1>4, <1>7
  <2>2. contract'[sess'[t].c].status = "none"
    BY <1>5, <1>7, <2>1 DEF Orderly
  <2>3. ASSUME NEW u \in Sessions, Busy(u)', sess'[u].c = sess'[t].c
        PROVE  u = t
    <3>1. sess[u].c = sess'[u].c /\ Busy(u)
      BY <1>1, <1>3, <2>3 DEF Busy, Session
    <3>2. QED
      BY <2>1, <2>3, <3>1 DEF Orderly
  <2>4. ASSUME "create" \notin world.overlap
        PROVE  Alone(t)' /\ deal'.contract = {}
    BY <1>1, <1>3, <1>4, <1>7, <2>1, <2>4 DEF Orderly, Alone
  <2>5. QED
    BY <2>2, <2>3, <2>4
<1>8. ASSUME NEW t \in Sessions, sess'[t].door = "provider"
      PROVE  contract'[sess'[t].c].rail = "didox"
  BY <1>4, <1>5, <1>8 DEF Orderly, Kept
<1>9. ASSUME NEW t \in Sessions, sess'[t].door = "sign"
      PROVE  /\ sess'[t].by \in Sides
             /\ contract'[sess'[t].c].status \notin Unsent
             /\ "edit" \notin world.overlap => sess'[t].seen.doc = contract'[sess'[t].c].doc
  <2>1. sess[t].door = "sign" /\ sess'[t].c = sess[t].c /\ sess'[t].seen = sess[t].seen
        /\ sess'[t].by = sess[t].by /\ Busy(t)
    BY <1>4, <1>9
  <2>2. contract'[sess'[t].c].status \notin Unsent
    BY <1>5, <1>9, <2>1 DEF Orderly, Kept
  <2>3. "edit" \notin world.overlap => contract'[sess[t].c].doc = contract[sess[t].c].doc
    BY <1>5, <1>9, <2>1 DEF Orderly, Alone
  <2>4. QED
    BY <2>1, <2>2, <2>3 DEF Orderly
<1>10. ASSUME NEW t \in Sessions, sess'[t].door = "edit", "edit" \notin world.overlap
       PROVE  Alone(t)' /\ contract'[sess'[t].c].status = "draft"
  <2>1. t = s
    BY <1>1, <1>4, <1>10 DEF Orderly, Alone
  <2>2. QED
    BY <1>1, <1>3, <1>4, <1>10, <2>1 DEF Orderly, Alone
<1>11. ASSUME NEW t \in Sessions, Busy(t)'
       PROVE  sess'[t].seen.status \notin Final /\ Overtaken(t)'
  <2>1. /\ Busy(t) /\ sess[t] \in Session
        /\ sess'[t].door = sess[t].door /\ sess'[t].c = sess[t].c /\ sess[t].c \in Contracts
        /\ sess'[t].seen = sess[t].seen
        /\ t = s => contract' = contract
    <3>1. CASE t = s
      BY <1>1, <1>2, <1>11, <3>1 DEF Busy, Session
    <3>2. CASE t # s
      BY <1>1, <1>2, <1>3, <1>11, <3>2 DEF Session
    <3>3. QED
      BY <3>1, <3>2
  <2> DEFINE old == contract[sess[t].c].status
             new == contract'[sess[t].c].status
  <2>2. CASE new = old
    BY <1>1, <2>1, <2>2 DEF Orderly, Overtaken
  <2>3. CASE new # old
    <3>1. t # s /\ sess[t].door \in world.overlap /\ sess[s].door \in world.overlap
      BY <1>1, <2>1, <2>3 DEF Orderly
    <3>2. new \in Final => new = "active" \/ sess[s].door \in Unlocked
      BY <1>1, <2>1, <2>3 DEF Final
    <3>3. QED
      BY <1>1, <2>1, <3>1, <3>2 DEF Orderly, Overtaken
  <2>4. QED
    BY <2>2, <2>3
<1>12. ASSUME NEW t \in Sessions, NEW u \in Sessions, Busy(t)', Busy(u)', u # t
       PROVE  sess'[t].door \in world.overlap
  <2>1. Busy(t) /\ Busy(u)
    BY <1>3, <1>12
  <2>2. sess'[t].door = sess[t].door
    BY <1>1, <1>2, <1>12, <2>1 DEF Busy, Session
  <2>3. QED
    BY <1>1, <1>12, <2>1, <2>2 DEF Orderly
<1>13. QED
  BY <1>1, <1>6, <1>7, <1>8, <1>9, <1>10, <1>11, <1>12 DEF Orderly

-----------------------------------------------------------------------------
(* Activations                                                               *)

\* What an activation event stands for.
EventsEarned ==
  \A i \in DOMAIN outbox : outbox[i].kind = "activated" =>
    /\ contract[outbox[i].c].stamped
    /\ contract[outbox[i].c].rail = "eimzo" => Signatures(contract[outbox[i].c]) = Sides

\* The events have contracts.
LEMMA EventsTyped == ASSUME TypeOK PROVE \A i \in DOMAIN outbox : outbox[i] \in Events
  BY ElementOfSeq, LenProperties DEF TypeOK

LEMMA CreateEarned ==
  ASSUME TypeOK, Orderly, Earned, NEW s \in Sessions, FinishCreate(s)
  PROVE  Earned'
<1> DEFINE c == sess[s].c
<1>1. c \in Contracts /\ contract[c] \in Contract /\ contract[c].status = "none"
  BY BusySession DEF FinishCreate, Session, TypeOK, Orderly
<1>2. PICK rail \in Rails : contract' = [contract EXCEPT ![c] = Drafted(rail)]
  BY DEF FinishCreate
<1>3. contract'[c] = Drafted(rail) /\ \A d \in Contracts : d # c => contract'[d] = contract[d]
  BY <1>1, <1>2 DEF TypeOK
<1>4. Drafted(rail).stamped = FALSE /\ Signatures(Drafted(rail)) = {}
      /\ \A p \in Sides : Drafted(rail).signed[p] = 0
  BY DEF Drafted, Signatures
<1>5. outbox' = outbox /\ world' = world
  BY DEF FinishCreate
<1>6. \A i \in DOMAIN outbox : outbox[i].kind = "activated" => outbox[i].c # c
  BY <1>1 DEF Earned, Orderly
<1>7. {} # Sides
  BY SidesAre
<1>8. ActivationIsEarned'
  BY <1>3, <1>4 DEF Earned, ActivationIsEarned
<1>9. PairActivates'
  BY <1>3, <1>4, <1>7 DEF Earned, PairActivates
<1>10. SignaturesCoverTheDocument'
  BY <1>3, <1>4, <1>5 DEF Earned, SignaturesCoverTheDocument
<1>11. ActivatesOnce'
  BY <1>3, <1>5, <1>6 DEF Earned, ActivatesOnce
<1>12. EventsEarned'
  BY <1>3, <1>5, <1>6, EventsTyped DEF Earned, EventsEarned, Events
<1>13. QED
  BY <1>8, <1>9, <1>10, <1>11, <1>12 DEF Earned, EventsEarned

LEMMA EditEarned ==
  ASSUME TypeOK, Orderly, Earned, NEW s \in Sessions, FinishEdit(s)
  PROVE  Earned'
<1> DEFINE c == sess[s].c
           k == contract[c]
           q == [k EXCEPT !.doc = @ + 1]
<1>1. c \in Contracts /\ k \in Contract
  BY BusySession DEF FinishEdit, Session, TypeOK
<1>2. contract'[c] = q /\ \A d \in Contracts : d # c => contract'[d] = contract[d]
  BY <1>1 DEF FinishEdit, TypeOK
<1>3. q.stamped = k.stamped /\ q.evidence = k.evidence /\ q.rail = k.rail /\ q.signed = k.signed
  BY <1>1 DEF Contract
<1>4. Signatures(q) = Signatures(k)
  BY <1>3 DEF Signatures
<1>5. outbox' = outbox /\ world' = world
  BY DEF FinishEdit
<1>6. "edit" \notin world.overlap => \A p \in Sides : k.signed[p] = 0
  BY <1>1, AllSigned DEF Orderly, FinishEdit, Unsent
<1> HIDE DEF c, k, q
<1>7. ActivationIsEarned'
  BY <1>1, <1>2, <1>3, <1>4 DEF Earned, ActivationIsEarned, k
<1>8. PairActivates'
  BY <1>1, <1>2, <1>3, <1>4 DEF Earned, PairActivates, k
<1>9. SignaturesCoverTheDocument'
  BY <1>2, <1>3, <1>5, <1>6 DEF Earned, SignaturesCoverTheDocument
<1>10. ActivatesOnce'
  BY <1>1, <1>2, <1>3, <1>5 DEF Earned, ActivatesOnce, k
<1>11. EventsEarned'
  BY <1>1, <1>2, <1>3, <1>4, <1>5, EventsTyped DEF Earned, EventsEarned, Events, k
<1>12. QED
  BY <1>7, <1>8, <1>9, <1>10, <1>11 DEF Earned, EventsEarned

LEMMA MoveEarned ==
  ASSUME TypeOK, Orderly, Earned, NEW s \in Sessions, Move(s)
  PROVE  Earned'
<1> DEFINE c == sess[s].c
           k == contract[c]
           q == [k EXCEPT !.status = Target[sess[s].door]]
           n == Len(outbox) + 1
<1>1. c \in Contracts /\ k \in Contract
  BY BusySession DEF Move, Target, Session, TypeOK
<1>2. contract'[c] = q /\ \A d \in Contracts : d # c => contract'[d] = contract[d]
  BY <1>1 DEF Move, TypeOK
<1>3. q.stamped = k.stamped /\ q.evidence = k.evidence /\ q.rail = k.rail
      /\ q.signed = k.signed /\ q.doc = k.doc
  BY <1>1 DEF Contract
<1>4. Signatures(q) = Signatures(k)
  BY <1>3 DEF Signatures
<1>5. PICK kind \in {"sent", "closed"} : Emit(kind, c)
  BY DEF Move
<1>6. /\ DOMAIN outbox' = DOMAIN outbox \cup {n}
      /\ \A i \in DOMAIN outbox : outbox'[i] = outbox[i]
      /\ outbox'[n].kind # "activated"
      /\ world' = world
  <2>1. outbox \in Seq(Events) /\ kind \in {"sent", "activated", "closed"} /\ kind # "activated"
    BY DEF TypeOK
  <2>2. world' = world
    BY DEF Move
  <2>3. /\ DOMAIN outbox' = DOMAIN outbox \cup {n}
        /\ \A i \in DOMAIN outbox : outbox'[i] = outbox[i]
        /\ outbox'[n] = [kind |-> kind, c |-> c, new |-> TRUE]
    BY <1>1, <1>5, <2>1, EmitAppends
  <2>4. QED
    BY <2>1, <2>2, <2>3
<1> HIDE DEF c, k, q, n
<1>7. ActivationIsEarned'
  BY <1>1, <1>2, <1>3, <1>4 DEF Earned, ActivationIsEarned, k
<1>8. PairActivates'
  BY <1>1, <1>2, <1>3, <1>4 DEF Earned, PairActivates, k
<1>9. SignaturesCoverTheDocument'
  BY <1>1, <1>2, <1>3, <1>6 DEF Earned, SignaturesCoverTheDocument, k
<1>10. ActivatesOnce'
  BY <1>1, <1>2, <1>3, <1>6 DEF Earned, ActivatesOnce, k
<1>11. EventsEarned'
  BY <1>1, <1>2, <1>3, <1>4, <1>6, EventsTyped DEF Earned, EventsEarned, Events, k
<1>12. QED
  BY <1>7, <1>8, <1>9, <1>10, <1>11 DEF Earned, EventsEarned

\* An activation, by the second signature or by the provider.
LEMMA ActivationEarned ==
  ASSUME TypeOK, Earned, NEW c \in Contracts, NEW q \in Contract,
         contract' = [contract EXCEPT ![c] = q], UNCHANGED world,
         Emit("activated", c),
         q.stamped, q.rail = contract[c].rail, q.doc = contract[c].doc,
         \/ Signatures(q) = Sides
         \/ q.evidence /\ q.rail = "didox",
         "edit" \notin world.overlap => \A p \in Sides : q.signed[p] \in {0, q.doc},
         q.rail = "eimzo" => Signatures(contract[c]) # Sides
  PROVE  Earned'
<1> DEFINE n == Len(outbox) + 1
<1>1. contract'[c] = q /\ \A d \in Contracts : d # c => contract'[d] = contract[d]
  BY DEF TypeOK
<1>2. /\ DOMAIN outbox' = DOMAIN outbox \cup {n}
      /\ \A i \in DOMAIN outbox : outbox'[i] = outbox[i] /\ i # n
      /\ outbox'[n].kind = "activated" /\ outbox'[n].c = c
  <2>1. outbox \in Seq(Events) /\ "activated" \in {"sent", "activated", "closed"}
    BY DEF TypeOK
  <2>2. /\ DOMAIN outbox' = DOMAIN outbox \cup {n}
        /\ \A i \in DOMAIN outbox : outbox'[i] = outbox[i] /\ i # n
        /\ outbox'[n] = [kind |-> "activated", c |-> c, new |-> TRUE]
    BY <2>1, EmitAppends
  <2>3. QED
    BY <2>2
<1> HIDE DEF n
<1>3. q.rail = "eimzo" =>
        \A i \in DOMAIN outbox : ~(outbox[i].kind = "activated" /\ outbox[i].c = c)
  BY DEF Earned
<1>4. ActivationIsEarned'
  BY <1>1 DEF Earned, ActivationIsEarned
<1>5. PairActivates'
  BY <1>1 DEF Earned, PairActivates
<1>6. SignaturesCoverTheDocument'
  BY <1>1 DEF Earned, SignaturesCoverTheDocument
<1>7. ActivatesOnce'
  BY <1>1, <1>2, <1>3 DEF Earned, ActivatesOnce
<1>8. q.rail = "eimzo" => Signatures(q) = Sides
  OBVIOUS
<1>9. ASSUME NEW i \in DOMAIN outbox', outbox'[i].kind = "activated"
      PROVE  /\ contract'[outbox'[i].c].stamped
             /\ contract'[outbox'[i].c].rail = "eimzo" => Signatures(contract'[outbox'[i].c]) = Sides
  <2>1. CASE outbox'[i].c = c
    BY <1>1, <1>8, <2>1
  <2>2. CASE outbox'[i].c # c
    <3>1. i \in DOMAIN outbox /\ outbox'[i] = outbox[i] /\ outbox[i].c \in Contracts
      BY <1>2, <2>2, EventsTyped DEF Events
    <3>2. QED
      BY <1>1, <1>9, <2>2, <3>1 DEF Earned
  <2>3. QED
    BY <2>1, <2>2
<1>10. QED
  BY <1>4, <1>5, <1>6, <1>7, <1>9 DEF Earned

LEMMA SignEarned ==
  ASSUME TypeOK, Orderly, Earned, NEW s \in Sessions, FinishSign(s)
  PROVE  Earned'
<1> DEFINE z == sess[s]
           c == z.c
           k == contract[c]
           q == AddSignature(z)
<1>1. /\ z \in Session /\ c \in Contracts /\ k \in Contract
      /\ z.by \in Sides /\ z.seen.doc \in 0..MaxRenders
      /\ "edit" \notin world.overlap => z.seen.doc = k.doc
  BY BusySession DEF FinishSign, Session, TypeOK, Orderly, Contract
<1>2. q = [k EXCEPT !.signed = [k.signed EXCEPT ![z.by] = z.seen.doc]]
  BY DEF AddSignature
<1>3. contract' = [contract EXCEPT ![c] = IF Completes(z, q) THEN Activated(q) ELSE q]
      /\ world' = world
  BY DEF FinishSign
<1>4. (Completes(z, q) => Emit("activated", c)) /\ (~Completes(z, q) => UNCHANGED outbox)
  BY DEF FinishSign
<1>5. Signatures(k) # Sides
  BY <1>1 DEF FinishSign, MaySign
<1>6. /\ q.stamped = k.stamped /\ q.evidence = k.evidence /\ q.rail = k.rail /\ q.doc = k.doc
      /\ q.signed = [k.signed EXCEPT ![z.by] = z.seen.doc] /\ q \in Contract
      /\ k.signed \in [Sides -> 0..MaxRenders]
  BY <1>1, <1>2 DEF Contract
<1>7. "edit" \notin world.overlap => \A p \in Sides : q.signed[p] \in {0, q.doc}
  <2>1. "edit" \notin world.overlap => \A p \in Sides : k.signed[p] \in {0, k.doc}
    BY <1>1 DEF Earned, SignaturesCoverTheDocument
  <2>2. QED
    BY <1>1, <1>6, <2>1
<1>8. \A p \in Signatures(k) : p # z.by
  BY DEF FinishSign, MaySign
<1>9. Signatures(k) \subseteq Signatures(q)
  BY <1>6, <1>8 DEF Signatures
<1> HIDE DEF z, q, c, k
<1>10. CASE Completes(z, q)
  <2>1. Signatures(q) = Sides
    BY <1>10 DEF Completes
  <2>2. /\ Activated(q) \in Contract /\ Activated(q).stamped /\ Activated(q).rail = q.rail
        /\ Activated(q).doc = q.doc /\ Activated(q).signed = q.signed
    BY <1>6 DEF Activated, Contract, Statuses
  <2>3. Signatures(Activated(q)) = Sides
    BY <2>1, <2>2 DEF Signatures
  <2>4. QED
    BY <1>1, <1>3, <1>4, <1>5, <1>6, <1>7, <1>10, <2>2, <2>3, ActivationEarned DEF k
<1>11. CASE ~Completes(z, q)
  <2>1. Signatures(q) # Sides
    BY <1>11 DEF Completes
  <2>2. contract'[c] = q /\ \A d \in Contracts : d # c => contract'[d] = contract[d]
    BY <1>1, <1>3, <1>11 DEF TypeOK
  <2>3. outbox' = outbox
    BY <1>4, <1>11
  <2>4. Signatures(q) \subseteq Sides /\ Signatures(k) \subseteq Sides
    BY DEF Signatures
  <2>5. k.stamped => k.evidence /\ k.rail = "didox"
    BY <1>1, <1>5 DEF Earned, ActivationIsEarned, k
  <2>6. ActivationIsEarned'
    BY <1>6, <2>2, <2>5 DEF Earned, ActivationIsEarned
  <2>7. PairActivates'
    BY <2>1, <2>2 DEF Earned, PairActivates
  <2>8. SignaturesCoverTheDocument'
    BY <1>3, <1>7, <2>2 DEF Earned, SignaturesCoverTheDocument
  <2>9. ActivatesOnce'
    BY <1>1, <1>6, <2>2, <2>3 DEF Earned, ActivatesOnce, k
  <2>10. EventsEarned'
    BY <1>1, <1>5, <1>6, <2>2, <2>3, EventsTyped DEF Earned, EventsEarned, Events, k
  <2>11. QED
    BY <2>6, <2>7, <2>8, <2>9, <2>10 DEF Earned, EventsEarned
<1>12. QED
  BY <1>10, <1>11

LEMMA ProviderEarned ==
  ASSUME TypeOK, Orderly, Earned, NEW s \in Sessions, FinishProvider(s)
  PROVE  Earned'
<1> DEFINE c == sess[s].c
           k == contract[c]
           q == [Activated(k) EXCEPT !.evidence = TRUE]
<1>1. c \in Contracts /\ k \in Contract /\ k.rail = "didox"
  BY BusySession DEF FinishProvider, Session, TypeOK, Orderly
<1> HIDE DEF k
<1>2. contract' = [contract EXCEPT ![c] = q] /\ world' = world /\ Emit("activated", c)
  BY DEF FinishProvider, k
<1>3. /\ q \in Contract /\ q.stamped /\ q.evidence /\ q.rail = k.rail /\ q.doc = k.doc
      /\ q.signed = k.signed
  BY <1>1 DEF Activated, Contract, Statuses
<1> HIDE DEF q
<1>4. "edit" \notin world.overlap => \A p \in Sides : q.signed[p] \in {0, q.doc}
  BY <1>1, <1>3 DEF Earned, SignaturesCoverTheDocument, k
<1>5. QED
  BY <1>1, <1>2, <1>3, <1>4, ActivationEarned DEF k

LEMMA GoesEarned ==
  ASSUME TypeOK, Orderly, Earned, NEW s \in Sessions, Goes(s)
  PROVE  Earned'
<1>1. CASE Rollback(s) \/ TakeChallenge(s)
  <2>1. UNCHANGED <<world, contract, outbox>>
    BY <1>1 DEF Rollback, TakeChallenge
  <2>2. QED
    BY <2>1 DEF Earned, ActivationIsEarned, PairActivates, SignaturesCoverTheDocument, ActivatesOnce
<1>2. QED
  BY <1>1, CreateEarned, EditEarned, MoveEarned, SignEarned, ProviderEarned DEF Goes

-----------------------------------------------------------------------------
(* The deal                                                                  *)

LEMMA GoesFollowed ==
  ASSUME TypeOK, Orderly, Followed, NEW s \in Sessions, Goes(s)
  PROVE  Followed'
<1>1. CASE FinishCreate(s)
  <2>1. deal' = [deal EXCEPT !.contract = {sess[s].c}] /\ world' = world
    BY <1>1 DEF FinishCreate
  <2>2. deal'.contract # {} /\ deal'.status = deal.status
    BY <2>1 DEF TypeOK
  <2>3. "create" \notin world.overlap => deal.contract = {}
    BY <1>1 DEF FinishCreate, Orderly
  <2>4. QED
    BY <2>1, <2>2, <2>3 DEF Followed, ContractedDealHasItsContract
<1>2. CASE ~FinishCreate(s)
  <2>1. UNCHANGED <<deal, world>>
    BY <1>2 DEF Goes, Rollback, FinishEdit, Move, TakeChallenge, FinishSign, FinishProvider
  <2>2. sess[s].door # "create" \/ contract' = contract
    BY <1>2, GoesChange DEF Goes, Rollback, FinishEdit, Move, Target, TakeChallenge, FinishSign,
       FinishProvider
  <2>3. \A c \in Contracts : contract[c].stamped => contract'[c].stamped
    BY <2>2, GoesChange DEF Kept
  <2>4. deal.contract \subseteq Contracts
    BY DEF TypeOK
  <2>5. QED
    BY <2>1, <2>3, <2>4 DEF Followed, ContractedDealHasItsContract
<1>3. QED
  BY <1>1, <1>2

LEMMA OtherKeeps ==
  ASSUME IInv,
         \/ \E c \in Contracts, p \in Sides : IssueChallenge(c, p) \/ ChallengeLapses(c, p)
         \/ Tick
         \/ \E i \in DOMAIN outbox : Consume(i) \/ ConsumeUnacked(i) \/ ConsumerFails(i)
         \/ PartyCancelsDeal
  PROVE  IInv' /\ contract' = contract
<1>1. UNCHANGED <<world, contract, sess>>
  BY DEF IssueChallenge, ChallengeLapses, Tick, CleanTick, Dispatch, Consume, ConsumeUnacked,
         ConsumerFails, PartyCancelsDeal
<1>2. TypeOK'
  BY OtherTyped DEF IInv
<1>3. /\ DOMAIN outbox' = DOMAIN outbox
      /\ \A i \in DOMAIN outbox :
           outbox'[i].kind = outbox[i].kind /\ outbox'[i].c = outbox[i].c
  <2>1. CASE Tick
    BY <2>1, DispatchKeeps DEF Tick, CleanTick, IInv
  <2>2. CASE ~Tick
    BY <2>2 DEF IssueChallenge, ChallengeLapses, Consume, ConsumeUnacked, ConsumerFails,
                PartyCancelsDeal
  <2>3. QED
    BY <2>1, <2>2
<1>4. Earned'
  BY <1>1, <1>3 DEF IInv, Earned, ActivationIsEarned, PairActivates,
                    SignaturesCoverTheDocument, ActivatesOnce
<1>5. deal'.contract = deal.contract /\ Followed'
  <2>1. CASE deal' = deal
    BY <1>1, <2>1 DEF IInv, Followed, ContractedDealHasItsContract
  <2>2. CASE PartyCancelsDeal
    <3>1. deal'.contract = deal.contract /\ deal'.status = "cancelled"
      BY <2>2 DEF PartyCancelsDeal, IInv, TypeOK
    <3>2. QED
      BY <3>1 DEF Followed, ContractedDealHasItsContract
  <2>3. ASSUME NEW i \in DOMAIN outbox, deal' = Advanced(outbox[i]), deal' # deal
        PROVE  deal'.contract = deal.contract /\ Followed'
    <3>1. /\ outbox[i].c \in deal.contract
          /\ deal'.contract = deal.contract
          /\ deal'.status = Leads[outbox[i].kind].to
      BY <2>3 DEF Advanced, IInv, TypeOK
    <3>2. outbox[i].kind \in {"sent", "activated", "closed"}
      BY EventsTyped DEF IInv, Events
    <3>3. deal'.status = "contract_signed" => outbox[i].kind = "activated"
      BY <3>1, <3>2 DEF Leads
    <3>4. deal'.status = "contract_signed" => contract[outbox[i].c].stamped
      BY <3>3 DEF IInv, Earned
    <3>5. QED
      BY <1>1, <3>1, <3>4 DEF Followed, ContractedDealHasItsContract
  <2>4. QED
    BY <2>1, <2>2, <2>3 DEF IssueChallenge, ChallengeLapses, Tick, CleanTick, Dispatch, Consume,
                            ConsumeUnacked, ConsumerFails
<1>6. Orderly'
  BY <1>1, <1>5 DEF IInv, Orderly, Alone, Busy, Overtaken
<1>7. QED
  BY <1>1, <1>2, <1>4, <1>5, <1>6 DEF IInv

-----------------------------------------------------------------------------
(* The theorems                                                              *)

LEMMA InitHolds == Init => IInv
<1> SUFFICES ASSUME Init PROVE IInv
  OBVIOUS
<1>1. TypeOK
  BY InitTyped
<1>2. \A s \in Sessions : ~Busy(s) /\ sess[s].door = "none"
  BY DEF Init, Busy, Idle
<1>3. \A c \in Contracts : ~contract[c].stamped /\ \A p \in Sides : contract[c].signed[p] = 0
  BY DEF Init, NoContract, Drafted
<1>4. \A c \in Contracts : Signatures(contract[c]) = {}
  BY <1>3 DEF Signatures
<1>5. outbox = <<>> /\ deal.status = "negotiation"
  BY DEF Init
<1>6. Orderly
  BY <1>2, <1>3, <1>4 DEF Orderly
<1>7. Earned
  BY <1>3, <1>4, <1>5, SidesAre DEF Earned, ActivationIsEarned, PairActivates,
                          SignaturesCoverTheDocument, ActivatesOnce
<1>8. Followed
  BY <1>5 DEF Followed, ContractedDealHasItsContract
<1>9. QED
  BY <1>1, <1>6, <1>7, <1>8 DEF IInv

LEMMA StepHolds == IInv /\ [Next]_vars => IInv'
<1> SUFFICES ASSUME IInv, [Next]_vars PROVE IInv'
  OBVIOUS
<1>1. CASE UNCHANGED vars
  BY <1>1 DEF vars, IInv, TypeOK, Orderly, Alone, Busy, Overtaken, Earned, ActivationIsEarned,
              PairActivates, SignaturesCoverTheDocument, ActivatesOnce, Followed,
              ContractedDealHasItsContract
<1>2. ASSUME NEW s \in Sessions, Begins(s) PROVE IInv'
  <2>1. Orderly' /\ TypeOK' /\ UNCHANGED <<world, contract, outbox, deal>>
    BY <1>2, BeginOrderly DEF IInv
  <2>2. QED
    BY <2>1 DEF IInv, Earned, ActivationIsEarned, PairActivates, SignaturesCoverTheDocument,
                ActivatesOnce, Followed, ContractedDealHasItsContract
<1>3. ASSUME NEW s \in Sessions, Goes(s) PROVE IInv'
  BY <1>3, FinishTyped, GoesOrderly, GoesEarned, GoesFollowed DEF IInv
<1>4. CASE Next
  BY <1>2, <1>3, <1>4, OtherKeeps DEF Next
<1>5. QED
  BY <1>1, <1>4

LEMMA Invariance == Spec => []IInv
  BY InitHolds, StepHolds, PTL DEF Spec

\* The tables, the challenges, the outbox and the sessions hold what they may.
THEOREM TypeCorrect == Spec => []TypeOK
<1>1. IInv => TypeOK
  BY DEF IInv
<1>2. QED
  BY <1>1, Invariance, PTL

\* Whatever sessions overlap, a contract is activated on evidence only: two
\* signatures, or the provider's archive on the provider's rail.
THEOREM ActivationsAreEarned == Spec => []ActivationIsEarned
<1>1. IInv => ActivationIsEarned
  BY DEF IInv, Earned
<1>2. QED
  BY <1>1, Invariance, PTL

\* Whoever signs second activates, however the two signers overlap.
THEOREM SecondSignerActivates == Spec => []PairActivates
<1>1. IInv => PairActivates
  BY DEF IInv, Earned
<1>2. QED
  BY <1>1, Invariance, PTL

\* On the E-IMZO rail a contract announces its activation once.
THEOREM OneActivation == Spec => []ActivatesOnce
<1>1. IInv => ActivatesOnce
  BY DEF IInv, Earned
<1>2. QED
  BY <1>1, Invariance, PTL

\* The two companies signed the document on record, if no edit overlaps.
THEOREM DocumentIsWhatWasSigned == Spec => []SignaturesCoverTheDocument
<1>1. IInv => SignaturesCoverTheDocument
  BY DEF IInv, Earned
<1>2. QED
  BY <1>1, Invariance, PTL

\* However events are repeated, reordered or lost, a deal is contracted only on
\* a contract that was activated.
THEOREM ContractedDealsAreBacked == Spec => []ContractedDealHasItsContract
<1>1. IInv => ContractedDealHasItsContract
  BY DEF IInv, Followed
<1>2. QED
  BY <1>1, Invariance, PTL

\* A final status is overwritten by stale copies only, where an unlocked door
\* overlaps, and an activation only through such a door.
THEOREM FinalOrOverwritten == Spec => FinalUnlessOverwritten
<1> DEFINE Stays ==
      \A c \in Contracts :
        contract[c].status \in Final /\ contract'[c].status # contract[c].status =>
          \E s \in Sessions : Busy(s) /\ MayOverwrite(s, c)
<1>1. IInv /\ [Next]_vars => Stays
  <2> SUFFICES ASSUME IInv, [Next]_vars, NEW c \in Contracts,
                      contract[c].status \in Final, contract'[c].status # contract[c].status
               PROVE  \E s \in Sessions : Busy(s) /\ MayOverwrite(s, c)
    OBVIOUS
  <2>1. CASE UNCHANGED vars
    BY <2>1 DEF vars
  <2>2. ASSUME NEW s \in Sessions, Begins(s) PROVE contract' = contract
    BY <2>2, BeginOrderly DEF IInv
  <2>3. ASSUME NEW s \in Sessions, Goes(s) PROVE Busy(s) /\ MayOverwrite(s, c)
    <3>1. /\ Busy(s)
          /\ \A d \in Contracts : d # sess[s].c => contract'[d] = contract[d]
          /\ \/ sess[s].door \in Unlocked \cup {"create"}
             \/ \A d \in Contracts : contract'[d].status \in {contract[d].status, "active"}
      BY <2>3, GoesChange DEF IInv
    <3>2. sess[s].c = c
      BY <3>1
    <3>3. sess[s].seen.status \notin Final /\ Overtaken(s)
      BY <3>1 DEF IInv, Orderly
    <3>4. sess[s].door # "create"
      BY <3>2 DEF IInv, Orderly, Final
    <3>5. contract[c].status = "active" => sess[s].door \in Unlocked
      BY <3>1, <3>4
    <3>6. world.overlap \cap Unlocked # {}
      BY <3>2, <3>3, <3>5 DEF Overtaken
    <3>7. QED
      BY <3>1, <3>2, <3>3, <3>5, <3>6 DEF MayOverwrite
  <2>4. CASE Next
    BY <2>2, <2>3, <2>4, OtherKeeps DEF Next
  <2>5. QED
    BY <2>1, <2>4
<1>2. Spec => [][Stays]_vars
  BY <1>1, Invariance, PTL DEF Spec
<1>3. QED
  BY <1>2 DEF FinalUnlessOverwritten

=============================================================================
