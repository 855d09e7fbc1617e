---------------------------- MODULE SamplesProofs ----------------------------
(****************************************************************************)
(* Samples, proved for any requests, sessions, renders and overlaps: one     *)
(* live request holds the slot, and a signature covers the letter on record. *)
(*                                                                           *)
(* The slot is asked of every row a commit leaves.  The signature rests on   *)
(* three facts that hold where no render overlaps (Lettered): a render is at *)
(* work on an unsigned letter, for a signature cannot start beside it; a     *)
(* signature that has taken its challenge is of the letter on record, for no *)
(* render starts beside that; and nothing signs, renders or resets a request *)
(* that is not there yet (Orderly).                                          *)
(****************************************************************************)
EXTENDS Samples, FiniteSetTheorems, TLAPS

\* What the constants are.
Parameters == MaxRenders \in Nat /\ Requests # {} /\ Worlds \subseteq World

Busy(s) == sess[s] # Idle

\* Sessions are in progress together only through doors that may overlap; the
\* door of a new request has an id of its own, and the other doors are of
\* requests that are there, but for the deal opened without one.
Orderly ==
  /\ \A r \in Requests : sample[r].status = "none" => sample[r] = NoSample
  /\ \A s, t \in Sessions : Busy(s) /\ Busy(t) /\ s # t =>
       /\ {sess[s].door, sess[t].door} \in world.overlap
       /\ sess[s].door = "request" /\ sess[t].door = "request" => sess[s].r # sess[t].r
  /\ \A s \in Sessions : Busy(s) =>
       /\ sess[s].door = "request" => sample[sess[s].r].status = "none"
       /\ sess[s].door \notin {"request", "deal_from_inquiry"} =>
            sample[sess[s].r].status # "none"
       /\ sess[s].door = "sign" => sample[sess[s].r].letter # 0

\* Where no render overlaps.
RendersAlone == \A pair \in world.overlap : "render" \notin pair

Lettered ==
  /\ \A r \in Requests : sample[r].signed \in {0, sample[r].letter}
  /\ \A s \in Sessions : Busy(s) =>
       /\ sess[s].door = "render" => sample[sess[s].r].signed = 0
       /\ sess[s].door = "sign" => sess[s].seen.letter = sample[sess[s].r].letter
       /\ sess[s].bound # 0 =>
            sess[s].door = "sign" /\ sess[s].bound = sample[sess[s].r].letter

IInv ==
  /\ TypeOK
  /\ OneLiveRequest
  /\ Orderly
  /\ RendersAlone => Lettered

-----------------------------------------------------------------------------
(* The data                                                                  *)

LEMMA SampleFacts ==
  ASSUME Parameters, NEW q \in Sample
  PROVE  /\ q.status \in Statuses /\ q.letter \in 0..MaxRenders /\ q.letter \in Nat
         /\ q.signed \in 0..MaxRenders /\ q.deal \in BOOLEAN
  BY DEF Parameters, Sample

LEMMA NoSampleIs == Parameters => NoSample \in Sample
  BY DEF Parameters, NoSample, Sample, Statuses

LEMMA SessionFacts ==
  ASSUME TypeOK, NEW s \in Sessions, Busy(s)
  PROVE  /\ sess[s] \in Session /\ sess[s].door \in Doors /\ sess[s].r \in Requests
         /\ sess[s].seen \in Sample /\ sess[s].bound \in 0..MaxRenders
<1>1. sess[s] \in Session
  BY DEF TypeOK, Busy
<1>2. QED
  BY <1>1 DEF Session

\* A session that is in progress is at one of the doors.
LEMMA AtWork ==
  ASSUME NEW s \in Sessions, sess[s].door \in Doors
  PROVE  Busy(s)
  BY DEF Busy, Idle, Doors, SellerMoves, BuyerMoves

LEMMA MoveIs ==
  ASSUME NEW from, NEW to, <<from, to>> \in Transitions
  PROVE  /\ to \in SellerMoves \cup BuyerMoves /\ to \in Doors /\ to \in Statuses
         /\ to \notin {"none", "request", "render", "sign", "deal_from_inquiry"}
         /\ from # "none"
  BY DEF Transitions, SellerMoves, BuyerMoves, Doors, Statuses

-----------------------------------------------------------------------------
(* What the steps do                                                         *)

\* The session ends.
LEMMA DoneIs ==
  ASSUME TypeOK, NEW s \in Sessions, Done(s)
  PROVE  /\ sess' \in [Sessions -> Session \cup {Idle}]
         /\ \A t \in Sessions : Busy(t)' => Busy(t) /\ t # s /\ sess'[t] = sess[t]
  BY DEF TypeOK, Done, Busy

\* A session begins with the row of the request as its copy.
LEMMA BeginIs ==
  ASSUME Parameters, TypeOK, NEW s \in Sessions, NEW door \in Doors, NEW r \in Requests,
         Begin(s, door, r)
  PROVE  /\ sess' \in [Sessions -> Session \cup {Idle}]
         /\ sess'[s].door = door /\ sess'[s].r = r /\ sess'[s].seen = sample[r]
         /\ sess'[s].bound = 0
         /\ \A t \in Sessions : Busy(t)' =>
              t = s \/ (Busy(t) /\ sess'[t] = sess[t] /\ {door, sess[t].door} \in world.overlap)
<1>1. [door |-> door, r |-> r, seen |-> sample[r], bound |-> 0] \in Session
  BY DEF TypeOK, Session, Parameters
<1>2. QED
  BY <1>1 DEF TypeOK, Begin, Busy, MayOverlap

\* What a session has checked when it begins.
Admitted(door, r) ==
  /\ door = "request" =>
       sample[r] = NoSample /\ \A t \in Sessions : Busy(t) => sess[t].r # r
  /\ door \notin {"request", "deal_from_inquiry"} => sample[r] # NoSample
  /\ door = "render" => sample[r].signed = 0
  /\ door = "sign" => sample[r].letter # 0

LEMMA BeginsIs ==
  ASSUME Parameters, TypeOK, NEW s \in Sessions, Begins(s)
  PROVE  \E door \in Doors, r \in Requests : Begin(s, door, r) /\ Admitted(door, r)
<1>1. /\ "request" \in Doors /\ "render" \in Doors /\ "sign" \in Doors
      /\ "deal_from_sample" \in Doors /\ "deal_from_inquiry" \in Doors
  BY DEF Doors
<1>2. ASSUME NEW r \in Requests, BeginRequest(s, r)
      PROVE  Begin(s, "request", r) /\ Admitted("request", r)
  BY <1>2 DEF BeginRequest, Admitted, Busy
<1>3. ASSUME NEW r \in Requests, BeginRender(s, r)
      PROVE  Begin(s, "render", r) /\ Admitted("render", r)
  BY <1>3 DEF BeginRender, Admitted
<1>4. ASSUME NEW r \in Requests, BeginSign(s, r)
      PROVE  Begin(s, "sign", r) /\ Admitted("sign", r)
  BY <1>4 DEF BeginSign, Admitted, NoSample
<1>5. ASSUME NEW r \in Requests, NEW to \in Statuses, BeginMove(s, r, to)
      PROVE  Begin(s, to, r) /\ Admitted(to, r) /\ to \in Doors
  BY <1>5, MoveIs DEF BeginMove, Admitted, NoSample
<1>6. ASSUME NEW r \in Requests, BeginDealFromSample(s, r)
      PROVE  Begin(s, "deal_from_sample", r) /\ Admitted("deal_from_sample", r)
  BY <1>6 DEF BeginDealFromSample, Admitted, NoSample
<1>7. SomeRequest \in Requests
  BY DEF SomeRequest, Parameters
<1>8. BeginDealFromInquiry(s, SomeRequest) =>
        Begin(s, "deal_from_inquiry", SomeRequest) /\ Admitted("deal_from_inquiry", SomeRequest)
  BY DEF BeginDealFromInquiry, Admitted
<1>9. QED
  BY <1>1, <1>2, <1>3, <1>4, <1>5, <1>6, <1>7, <1>8 DEF Begins

\* What a commit leaves of the request it is about, by its door.
Leaves(s, q) ==
  LET z   == sess[s]
      old == sample[z.r]
  IN  \/ /\ z.door = "request"
         /\ q.status # "none" /\ q.letter = 0 /\ q.signed = 0
      \/ /\ z.door = "render"
         /\ q.status = old.status /\ q.letter = old.letter + 1 /\ q.signed = old.signed
      \/ /\ z.door = "sign" /\ z.bound # 0
         /\ q.status \in {"requested", old.status} /\ q.letter = old.letter /\ q.signed = z.bound
      \/ /\ z.door \in SellerMoves \cup BuyerMoves
         /\ q.status # "none" /\ q.letter = old.letter /\ q.signed = old.signed
      \/ /\ z.door = "deal_from_sample"
         /\ q.status = old.status /\ q.letter = old.letter /\ q.signed = old.signed
      \/ /\ z.door = "deal_from_inquiry" /\ q = old

\* A session commits one request.
Commits(s) ==
  /\ Busy(s) /\ Done(s) /\ IndexAllows(sample')
  /\ UNCHANGED <<world, challenge>> /\ live' \in Nat
  /\ \E q \in Sample : sample' = [sample EXCEPT ![sess[s].r] = q] /\ Leaves(s, q)

\* A session ends with nothing to commit, or goes on with its challenge.
Passes(s) ==
  /\ Busy(s)
  /\ UNCHANGED <<world, sample, live>>
  /\ challenge' \in [Requests -> 0..MaxRenders]
  /\ \/ Done(s)
     \/ /\ sess[s].door = "sign" /\ sess[s].seen.letter # 0
        /\ sess' = [sess EXCEPT ![s].bound = sess[s].seen.letter]

LEMMA GoesIs ==
  ASSUME Parameters, TypeOK, NEW s \in Sessions, Goes(s)
  PROVE  Commits(s) \/ Passes(s)
<1> DEFINE z == sess[s]
           old == sample[z.r]
<1>1. ASSUME Busy(s)
      PROVE  /\ z.r \in Requests /\ z.door \in Doors /\ z.bound \in 0..MaxRenders
             /\ z.seen \in Sample /\ old \in Sample
  BY <1>1, SessionFacts DEF TypeOK
<1>2. CASE Rollback(s)
  BY <1>2 DEF Rollback, Passes, Busy, TypeOK
<1>3. CASE TakeChallenge(s)
  <2>1. Busy(s) /\ z.door = "sign"
    BY <1>3, AtWork DEF TakeChallenge, Doors
  <2>2. challenge' \in [Requests -> 0..MaxRenders]
    BY <1>3, <1>1, <2>1 DEF TakeChallenge, TypeOK, Parameters
  <2>3. QED
    BY <1>3, <2>1, <2>2 DEF TakeChallenge, Fits, Passes, Done
<1>4. ASSUME NEW q \in Sample, Busy(s), Commit(s, [sample EXCEPT ![z.r] = q]), Leaves(s, q),
             UNCHANGED <<world, challenge>>, live' \in Nat
      PROVE  Commits(s)
  BY <1>4 DEF Commit, Commits
<1>5. CASE FinishRequest(s)
  <2> DEFINE status == IF world.letter THEN "pending_letter" ELSE "requested"
             q == [NoSample EXCEPT !.status = status]
  <2>1. status \in Statuses /\ status # "none"
    BY DEF Statuses
  <2>2. q \in Sample /\ q.status = status /\ q.letter = 0 /\ q.signed = 0
    <3> HIDE DEF status
    <3>1. NoSample \in Sample
      BY NoSampleIs
    <3>2. NoSample.letter = 0 /\ NoSample.signed = 0
      BY DEF NoSample
    <3>3. QED
      BY <2>1, <3>1, <3>2 DEF Sample
  <2>3. /\ Busy(s) /\ z.door = "request" /\ Commit(s, [sample EXCEPT ![z.r] = q])
        /\ UNCHANGED <<world, challenge>> /\ live' \in Nat
    BY <1>5, AtWork DEF FinishRequest, Doors, TypeOK
  <2>4. Leaves(s, q)
    BY <2>1, <2>2, <2>3 DEF Leaves
  <2>5. QED
    BY <1>4, <2>2, <2>3, <2>4
<1>6. CASE FinishRender(s)
  <2>1. /\ Busy(s) /\ z.door = "render" /\ old.letter < MaxRenders
        /\ Commit(s, [sample EXCEPT ![z.r].letter = @ + 1])
        /\ UNCHANGED <<world, challenge>> /\ live' \in Nat
    BY <1>6, AtWork DEF FinishRender, Doors, TypeOK
  <2>2. old \in Sample /\ z.r \in Requests
    BY <1>1, <2>1
  <2> DEFINE q == [old EXCEPT !.letter = old.letter + 1]
  <2>3. q \in Sample /\ q.letter = old.letter + 1 /\ q.status = old.status /\ q.signed = old.signed
    BY <2>1, <2>2, SampleFacts DEF Sample, Parameters
  <2>4. [sample EXCEPT ![z.r].letter = @ + 1] = [sample EXCEPT ![z.r] = q]
    BY <2>2 DEF TypeOK
  <2>5. Leaves(s, q)
    BY <2>1, <2>3 DEF Leaves
  <2>6. QED
    BY <1>4, <2>1, <2>3, <2>4, <2>5
<1>7. CASE FinishSign(s)
  <2> DEFINE status == IF z.seen.status = "pending_letter" THEN "requested" ELSE old.status
             q == [old EXCEPT !.signed = z.bound, !.status = status]
  <2>1. /\ Busy(s) /\ z.door = "sign" /\ z.bound # 0
        /\ Commit(s, [sample EXCEPT
              ![z.r].signed = z.bound,
              ![z.r].status = IF z.seen.status = "pending_letter" THEN "requested" ELSE @])
        /\ UNCHANGED <<world, challenge>> /\ live' \in Nat
    BY <1>7, AtWork DEF FinishSign, Doors, TypeOK
  <2>2. old \in Sample /\ z.r \in Requests /\ z.bound \in 0..MaxRenders
    BY <1>1, <2>1
  <2>3. status \in Statuses /\ status \in {"requested", old.status}
    BY <2>2, SampleFacts DEF Statuses
  <2>4. q \in Sample /\ q.letter = old.letter /\ q.status = status /\ q.signed = z.bound
    BY <2>2, <2>3 DEF Sample
  <2>5. [sample EXCEPT
           ![z.r].signed = z.bound,
           ![z.r].status = IF z.seen.status = "pending_letter" THEN "requested" ELSE @]
          = [sample EXCEPT ![z.r] = q]
    BY <2>2 DEF TypeOK, Sample
  <2>6. Leaves(s, q)
    BY <2>1, <2>3, <2>4 DEF Leaves
  <2>7. QED
    BY <1>4, <2>1, <2>4, <2>5, <2>6
<1>8. CASE FinishMove(s)
  <2>1. /\ z.door \in SellerMoves \cup BuyerMoves
        /\ Commit(s, [sample EXCEPT ![z.r].status = z.door])
        /\ UNCHANGED <<world, challenge>> /\ live' \in Nat
    BY <1>8 DEF FinishMove, TypeOK
  <2>2. Busy(s) /\ z.door \in Statuses /\ z.door # "none"
    BY <2>1, AtWork DEF Doors, Statuses, SellerMoves, BuyerMoves
  <2>3. old \in Sample /\ z.r \in Requests
    BY <1>1, <2>2
  <2> DEFINE q == [old EXCEPT !.status = z.door]
  <2>4. q \in Sample /\ q.letter = old.letter /\ q.status = z.door /\ q.signed = old.signed
    BY <2>2, <2>3 DEF Sample
  <2>5. [sample EXCEPT ![z.r].status = z.door] = [sample EXCEPT ![z.r] = q]
    BY <2>3 DEF TypeOK
  <2>6. Leaves(s, q)
    BY <2>1, <2>2, <2>4 DEF Leaves
  <2>7. QED
    BY <1>4, <2>1, <2>2, <2>4, <2>5, <2>6
<1>9. CASE FinishDeal(s)
  <2>1. /\ z.door \in {"deal_from_sample", "deal_from_inquiry"}
        /\ Commit(s, [sample EXCEPT ![z.r].deal = @ \/ z.door = "deal_from_sample"])
        /\ UNCHANGED <<world, challenge>> /\ live' \in Nat
    BY <1>9 DEF FinishDeal, TypeOK
  <2>2. Busy(s)
    BY <2>1, AtWork DEF Doors
  <2>3. old \in Sample /\ z.r \in Requests
    BY <1>1, <2>2
  <2> DEFINE q == [old EXCEPT !.deal = @ \/ z.door = "deal_from_sample"]
  <2>4. q \in Sample /\ q.letter = old.letter /\ q.status = old.status /\ q.signed = old.signed
    BY <2>3 DEF Sample
  <2>5. z.door = "deal_from_inquiry" => q = old
    BY <2>3 DEF Sample
  <2>6. [sample EXCEPT ![z.r].deal = @ \/ z.door = "deal_from_sample"] = [sample EXCEPT ![z.r] = q]
    BY <2>3 DEF TypeOK
  <2>7. Leaves(s, q)
    BY <2>1, <2>4, <2>5 DEF Leaves
  <2>8. QED
    BY <1>4, <2>1, <2>2, <2>4, <2>6, <2>7
<1>10. QED
  BY <1>2, <1>3, <1>5, <1>6, <1>7, <1>8, <1>9 DEF Goes

-----------------------------------------------------------------------------
(* The steps keep the invariants                                             *)

LEMMA TypeKept ==
  ASSUME Parameters, TypeOK, [Next]_vars
  PROVE  TypeOK'
<1>1. CASE UNCHANGED vars
  BY <1>1 DEF vars, TypeOK
<1>2. ASSUME NEW s \in Sessions, Begins(s) PROVE TypeOK'
  <2>1. PICK door \in Doors, r \in Requests : Begin(s, door, r)
    BY <1>2, BeginsIs
  <2>2. QED
    BY <2>1, BeginIs DEF Begin, TypeOK
<1>3. ASSUME NEW s \in Sessions, Commits(s) PROVE TypeOK'
  <2>1. sess' \in [Sessions -> Session \cup {Idle}]
    BY <1>3, DoneIs DEF Commits
  <2>2. sample' \in [Requests -> Sample]
    BY <1>3 DEF Commits, TypeOK
  <2>3. QED
    BY <1>3, <2>1, <2>2 DEF Commits, TypeOK
<1>4. ASSUME NEW s \in Sessions, Passes(s) PROVE TypeOK'
  <2>1. sess' \in [Sessions -> Session \cup {Idle}]
    <3>1. CASE Done(s)
      BY <3>1, DoneIs
    <3>2. CASE sess' = [sess EXCEPT ![s].bound = sess[s].seen.letter]
      <4>1. sess[s] \in Session /\ sess[s].seen \in Sample
        BY <1>4, SessionFacts DEF Passes
      <4>2. [sess[s] EXCEPT !.bound = sess[s].seen.letter] \in Session
        BY <4>1 DEF Session, Sample
      <4>3. QED
        BY <3>2, <4>2 DEF TypeOK
    <3>3. QED
      BY <1>4, <3>1, <3>2 DEF Passes
  <2>2. QED
    BY <1>4, <2>1 DEF Passes, TypeOK
<1>5. ASSUME NEW r \in Requests, IssueChallenge(r) PROVE TypeOK'
  <2>1. sample[r].letter \in 0..MaxRenders
    BY SampleFacts DEF TypeOK
  <2>2. QED
    BY <1>5, <2>1 DEF IssueChallenge, TypeOK
<1>6. CASE DealEnds
  BY <1>6 DEF DealEnds, TypeOK
<1>7. QED
  BY <1>1, <1>2, <1>3, <1>4, <1>5, <1>6, GoesIs DEF Next

\* The index is asked of every row a commit leaves.
LEMMA SlotKept ==
  ASSUME Parameters, TypeOK, OneLiveRequest, [Next]_vars
  PROVE  OneLiveRequest'
<1>1. CASE sample' = sample
  BY <1>1 DEF OneLiveRequest
<1>2. ASSUME NEW s \in Sessions, Commits(s) PROVE OneLiveRequest'
  BY <1>2 DEF Commits, IndexAllows, OneLiveRequest
<1>3. ASSUME NEW s \in Sessions, Begins(s) PROVE sample' = sample
  BY <1>3, BeginsIs DEF Begin
<1>4. QED
  BY <1>1, <1>2, <1>3, GoesIs DEF Next, vars, Passes, IssueChallenge, DealEnds

LEMMA OrderlyKept ==
  ASSUME Parameters, TypeOK, Orderly, [Next]_vars
  PROVE  Orderly'
<1>1. CASE UNCHANGED <<world, sample, sess>>
  BY <1>1 DEF Orderly, Busy
<1>2. ASSUME NEW s \in Sessions, Begins(s) PROVE Orderly'
  <2>1. PICK door \in Doors, r \in Requests : Begin(s, door, r) /\ Admitted(door, r)
    BY <1>2, BeginsIs
  <2>2. UNCHANGED <<world, sample>>
    BY <2>1 DEF Begin
  <2>3. /\ sess'[s].door = door /\ sess'[s].r = r
        /\ \A t \in Sessions : Busy(t)' =>
             t = s \/ (Busy(t) /\ sess'[t] = sess[t] /\ {door, sess[t].door} \in world.overlap)
    BY <2>1, BeginIs
  <2>4. door = "request" => \A t \in Sessions : Busy(t) => sess[t].r # r
    BY <2>1 DEF Admitted
  <2>5. ASSUME NEW t \in Sessions, NEW u \in Sessions, Busy(t)', Busy(u)', t # u
        PROVE  /\ {sess'[t].door, sess'[u].door} \in world'.overlap
               /\ sess'[t].door = "request" /\ sess'[u].door = "request" =>
                    sess'[t].r # sess'[u].r
    <3>1. \A x, y : {x, y} = {y, x}
      OBVIOUS
    <3>2. QED
      BY <2>2, <2>3, <2>4, <2>5, <3>1 DEF Orderly
  <2>6. /\ door = "request" => sample[r].status = "none"
        /\ door \notin {"request", "deal_from_inquiry"} => sample[r].status # "none"
        /\ door = "sign" => sample[r].letter # 0
    BY <2>1 DEF Admitted, NoSample, Orderly
  <2>7. QED
    BY <2>2, <2>3, <2>5, <2>6 DEF Orderly
<1>3. ASSUME NEW s \in Sessions, Commits(s) PROVE Orderly'
  <2>1. Busy(s) /\ Done(s) /\ world' = world /\ sess[s].r \in Requests
    BY <1>3, SessionFacts DEF Commits
  <2>2. \A t \in Sessions : Busy(t)' =>
          Busy(t) /\ t # s /\ sess'[t] = sess[t] /\ sess[t].r \in Requests
    BY <2>1, DoneIs, SessionFacts
  <2>3. PICK q \in Sample : sample' = [sample EXCEPT ![sess[s].r] = q] /\ Leaves(s, q)
    BY <1>3 DEF Commits
  <2>4. \A r \in Requests : sample'[r] = IF r = sess[s].r THEN q ELSE sample[r]
    BY <2>3 DEF TypeOK
  <2>5. sess[s].door # "deal_from_inquiry" => q.status # "none"
    BY <2>1, <2>3 DEF Leaves, Orderly, SellerMoves, BuyerMoves
  <2>6. sess[s].door = "deal_from_inquiry" => q = sample[sess[s].r]
    BY <2>3 DEF Leaves, SellerMoves, BuyerMoves
  <2>7. sample[sess[s].r].letter # 0 /\ sess[s].door # "request" => q.letter # 0
    <3>1. sample[sess[s].r].letter \in Nat
      BY <2>1, SampleFacts DEF TypeOK
    <3>2. QED
      BY <2>3, <3>1 DEF Leaves
  <2>8. ASSUME NEW t \in Sessions, Busy(t)'
        PROVE  /\ sess[t].door = "request" => sample'[sess[t].r].status = "none"
               /\ sess[t].door \notin {"request", "deal_from_inquiry"} =>
                    sample'[sess[t].r].status # "none"
               /\ sess[t].door = "sign" => sample'[sess[t].r].letter # 0
    <3>1. Busy(t) /\ t # s /\ sess[t].r \in Requests
      BY <2>2, <2>8
    <3>2. CASE sess[t].r # sess[s].r
      BY <2>4, <3>1, <3>2 DEF Orderly
    <3>3. CASE sess[t].r = sess[s].r /\ sess[s].door = "deal_from_inquiry"
      BY <2>4, <2>6, <3>1, <3>3 DEF Orderly
    <3>4. CASE sess[t].r = sess[s].r /\ sess[s].door # "deal_from_inquiry"
      <4>1. sess[t].door # "request"
        BY <2>1, <3>1, <3>4 DEF Orderly
      <4>2. sess[t].door = "sign" => sess[s].door # "request"
        BY <2>1, <3>1, <3>4 DEF Orderly
      <4>3. QED
        BY <2>4, <2>5, <2>7, <3>1, <3>4, <4>1, <4>2 DEF Orderly
    <3>5. QED
      BY <3>2, <3>3, <3>4
  <2>9. \A r \in Requests : sample'[r].status = "none" => sample'[r] = NoSample
    BY <2>1, <2>4, <2>5, <2>6 DEF Orderly
  <2>10. ASSUME NEW t \in Sessions, NEW u \in Sessions, Busy(t)', Busy(u)', t # u
         PROVE  /\ {sess'[t].door, sess'[u].door} \in world'.overlap
                /\ sess'[t].door = "request" /\ sess'[u].door = "request" =>
                     sess'[t].r # sess'[u].r
    BY <2>1, <2>2, <2>10 DEF Orderly
  <2>11. \A t \in Sessions : Busy(t)' => sess'[t] = sess[t]
    BY <2>2
  <2>12. QED
    BY <2>8, <2>9, <2>10, <2>11 DEF Orderly
<1>4. ASSUME NEW s \in Sessions, Passes(s) PROVE Orderly'
  <2>1. Busy(s) /\ UNCHANGED <<world, sample>>
    BY <1>4 DEF Passes
  <2>2. \A t \in Sessions : Busy(t)' =>
          Busy(t) /\ sess'[t].door = sess[t].door /\ sess'[t].r = sess[t].r
    <3>1. CASE Done(s)
      BY <3>1, DoneIs
    <3>2. CASE sess' = [sess EXCEPT ![s].bound = sess[s].seen.letter]
      BY <2>1, <3>2 DEF TypeOK, Busy, Session
    <3>3. QED
      BY <1>4, <3>1, <3>2 DEF Passes
  <2>3. ASSUME NEW t \in Sessions, NEW u \in Sessions, Busy(t)', Busy(u)', t # u
        PROVE  /\ {sess'[t].door, sess'[u].door} \in world'.overlap
               /\ sess'[t].door = "request" /\ sess'[u].door = "request" =>
                    sess'[t].r # sess'[u].r
    BY <2>1, <2>2, <2>3 DEF Orderly
  <2>4. QED
    BY <2>1, <2>2, <2>3 DEF Orderly
<1>5. QED
  BY <1>1, <1>2, <1>3, <1>4, GoesIs DEF Next, vars, IssueChallenge, DealEnds

LEMMA LetteredKept ==
  ASSUME Parameters, TypeOK, Orderly, RendersAlone, Lettered, [Next]_vars
  PROVE  Lettered'
<1>1. CASE UNCHANGED <<sample, sess>>
  BY <1>1 DEF Lettered, Busy
<1>2. ASSUME NEW s \in Sessions, Begins(s) PROVE Lettered'
  <2>1. PICK door \in Doors, r \in Requests : Begin(s, door, r) /\ Admitted(door, r)
    BY <1>2, BeginsIs
  <2>2. sample' = sample
    BY <2>1 DEF Begin
  <2>3. /\ sess'[s].door = door /\ sess'[s].r = r /\ sess'[s].seen = sample[r]
        /\ sess'[s].bound = 0
        /\ \A t \in Sessions : Busy(t)' => t = s \/ (Busy(t) /\ sess'[t] = sess[t])
    BY <2>1, BeginIs
  <2>4. QED
    BY <2>1, <2>2, <2>3 DEF Lettered, Admitted
<1>3. ASSUME NEW s \in Sessions, Commits(s) PROVE Lettered'
  <2>1. Busy(s) /\ Done(s) /\ sess[s].r \in Requests
    BY <1>3, SessionFacts DEF Commits
  <2>2. \A t \in Sessions : Busy(t)' =>
          Busy(t) /\ t # s /\ sess'[t] = sess[t] /\ sess[t].r \in Requests
    BY <2>1, DoneIs, SessionFacts
  <2>3. PICK q \in Sample : sample' = [sample EXCEPT ![sess[s].r] = q] /\ Leaves(s, q)
    BY <1>3 DEF Commits
  <2>4. \A r \in Requests : sample'[r] = IF r = sess[s].r THEN q ELSE sample[r]
    BY <2>3 DEF TypeOK
  <2>5. \A t \in Sessions : Busy(t)' => "render" \notin {sess[s].door, sess[t].door}
    BY <2>1, <2>2 DEF Orderly, RendersAlone
  <2>6. q.signed \in {0, q.letter}
    BY <2>1, <2>3 DEF Leaves, Lettered
  <2>7. \A t \in Sessions : Busy(t)' /\ sess[t].door = "sign" =>
          sample'[sess[t].r].letter = sample[sess[t].r].letter
    <3>1. SUFFICES ASSUME NEW t \in Sessions, Busy(t)', sess[t].door = "sign",
                          sess[t].r = sess[s].r
                   PROVE  q.letter = sample[sess[s].r].letter
      BY <2>2, <2>4
    <3>2. sess[s].door \notin {"request", "render"}
      BY <2>1, <2>2, <2>5, <3>1 DEF Orderly
    <3>3. QED
      BY <2>3, <3>2 DEF Leaves
  <2>8. QED
    BY <2>2, <2>4, <2>5, <2>6, <2>7 DEF Lettered
<1>4. ASSUME NEW s \in Sessions, Passes(s) PROVE Lettered'
  <2>1. Busy(s) /\ sample' = sample
    BY <1>4 DEF Passes
  <2>2. CASE Done(s)
    BY <2>1, <2>2, DoneIs DEF Lettered
  <2>3. CASE /\ sess[s].door = "sign"
             /\ sess' = [sess EXCEPT ![s].bound = sess[s].seen.letter]
    <3>1. sess[s] \in Session
      BY <2>1, SessionFacts
    <3>2. \A t \in Sessions : t # s => sess'[t] = sess[t]
      BY <2>3 DEF TypeOK
    <3>3. /\ sess'[s].door = "sign" /\ sess'[s].r = sess[s].r /\ sess'[s].seen = sess[s].seen
          /\ sess'[s].bound = sess[s].seen.letter
      BY <2>3, <3>1 DEF TypeOK, Session
    <3>4. sess[s].seen.letter = sample[sess[s].r].letter
      BY <2>1, <2>3 DEF Lettered
    <3>5. QED
      BY <2>1, <3>2, <3>3, <3>4 DEF Lettered, Busy
  <2>4. QED
    BY <1>4, <2>2, <2>3 DEF Passes
<1>5. QED
  BY <1>1, <1>2, <1>3, <1>4, GoesIs DEF Next, vars, IssueChallenge, DealEnds

-----------------------------------------------------------------------------
(* The theorems                                                              *)

\* The circumstances of a behaviour stay.
LEMMA WorldLasts ==
  ASSUME Parameters, TypeOK, [Next]_vars
  PROVE  world' = world
<1>1. ASSUME NEW s \in Sessions, Begins(s) PROVE world' = world
  BY <1>1, BeginsIs DEF Begin
<1>2. QED
  BY <1>1, GoesIs DEF Next, vars, Commits, Passes, IssueChallenge, DealEnds

LEMMA InitHolds == Parameters /\ Init => IInv
<1> SUFFICES ASSUME Parameters, Init PROVE IInv
  OBVIOUS
<1>1. \A s \in Sessions : ~Busy(s)
  BY DEF Init, Busy
<1>2. \A r \in Requests : sample[r] = NoSample /\ sample[r].status = "none" /\ sample[r].signed = 0
  BY DEF Init, NoSample
<1>3. TypeOK
  <2>1. 0 \in 0..MaxRenders
    BY DEF Parameters
  <2>2. QED
    BY <2>1, NoSampleIs DEF Init, TypeOK
<1>4. OneLiveRequest
  <2>1. {r \in Requests : Live(sample[r].status)} = {}
    BY <1>2 DEF Live
  <2>2. QED
    BY <2>1, FS_EmptySet DEF OneLiveRequest
<1>5. QED
  BY <1>1, <1>2, <1>3, <1>4 DEF IInv, Orderly, Lettered

LEMMA StepHolds == Parameters /\ IInv /\ [Next]_vars => IInv'
<1> SUFFICES ASSUME Parameters, IInv, [Next]_vars PROVE IInv'
  OBVIOUS
<1>1. TypeOK' /\ OneLiveRequest' /\ Orderly'
  BY TypeKept, SlotKept, OrderlyKept DEF IInv
<1>2. world' = world
  BY WorldLasts DEF IInv
<1>3. RendersAlone' => Lettered'
  BY <1>2, LetteredKept DEF IInv, RendersAlone
<1>4. QED
  BY <1>1, <1>3 DEF IInv

\* The requests, the challenges, the deals and the sessions stay of their types,
\* whatever doors overlap.
THEOREM TypeCorrect == ASSUME Parameters PROVE Spec => []TypeOK
<1>1. Init => IInv
  BY InitHolds
<1>2. IInv /\ [Next]_vars => IInv'
  BY StepHolds
<1>3. IInv => TypeOK
  BY DEF IInv
<1>4. QED
  BY <1>1, <1>2, <1>3, PTL DEF Spec

\* One live request at most holds the slot of a buyer on an offer, whatever the
\* copies that the moves were decided on (uq_sample_request_active).
THEOREM OneRequestLives == ASSUME Parameters PROVE Spec => []OneLiveRequest
<1>1. Init => IInv
  BY InitHolds
<1>2. IInv /\ [Next]_vars => IInv'
  BY StepHolds
<1>3. IInv => OneLiveRequest
  BY DEF IInv
<1>4. QED
  BY <1>1, <1>2, <1>3, PTL DEF Spec

\* Where no render overlaps, a signature covers the letter on record: the
\* challenge it consumed was of that render (letters.sign, render_letter).
THEOREM SignaturesCoverTheirLetters == ASSUME Parameters PROVE Spec => []SignatureCoversTheLetter
<1>1. Init => IInv
  BY InitHolds
<1>2. IInv /\ [Next]_vars => IInv'
  BY StepHolds
<1>3. IInv => SignatureCoversTheLetter
  BY DEF IInv, RendersAlone, Lettered, SignatureCoversTheLetter
<1>4. QED
  BY <1>1, <1>2, <1>3, PTL DEF Spec

=============================================================================
