-------------------------------- MODULE MCDesks --------------------------------
(****************************************************************************)
(* The four desks around the deal core, checked in one run: Tender,          *)
(* Verification, Moderation and Samples.  They share no row, so a behaviour  *)
(* is about one of them, chosen at the start; the others stay as they began. *)
(****************************************************************************)
EXTENDS Tender, FiniteSets

CONSTANTS
  Workers, MaxTries,            \* of Verification
  Moderators,                   \* of Moderation
  Requests                      \* of Samples

VARIABLES
  desk,                                                        \* the desk at work
  setting, case, submits, check, submitting, fanout, tasks, run, faults,
  recording, approvals,                                        \* Verification
  market, item, licence, company, notice, screen, itemSess,    \* Moderation
  lab, sample, challenge, live, sampleSess                     \* Samples

verification ==
  <<setting, case, submits, check, submitting, fanout, tasks, run, faults, recording, approvals>>
moderation == <<market, item, licence, company, notice, screen, itemSess>>
samples == <<lab, sample, challenge, live, sampleSess>>

desks == <<desk, vars, verification, moderation, samples>>

Pairs(D) == {{a, b} : a, b \in D}

-----------------------------------------------------------------------------
(* Tender: nothing overlaps; a buyer cancels, or a supplier withdraws as     *)
(* well, while another accepts; suppliers quote and staff triage meanwhile.  *)

TenderWorlds ==
  {{}, {"accept", "cancel"}, {"accept", "withdraw", "cancel"}, {"accept", "submit", "staff"}}

-----------------------------------------------------------------------------
(* Verification: undisturbed, with automatic approval, with staff who record *)
(* checks, or waive them beside a fault, with one fault on two submits, with *)
(* two and a provider that raises, and with a broker faster than the commit. *)

Setting(happens, mishaps, rounds) ==
  [auto    |-> "auto" \in happens,
   waives  |-> "waives" \in happens,
   records |-> "records" \in happens,
   raises  |-> "raises" \in happens,
   early   |-> "early" \in happens,
   faults  |-> mishaps,
   submits |-> rounds]

Undisturbed == Setting({}, 0, 2)

Settings ==
  { Undisturbed,
    Setting({"auto"}, 0, 2),
    Setting({"waives", "records"}, 0, 1),
    Setting({"auto", "waives"}, 1, 1),
    Setting({"auto"}, 1, 2),
    Setting({"raises"}, 2, 1),
    Setting({"early"}, 0, 2) }

V == INSTANCE Verification WITH
       Worlds <- Settings, MaxSubmits <- 2, MaxFaults <- 2, world <- setting

-----------------------------------------------------------------------------
(* Moderation: nothing overlaps and licences lapse; changes overlap one      *)
(* another; decisions and changes overlap, and moderators may be late; an    *)
(* inquiry.                                                                  *)

Market(kind, enforced, lapses, attentive, overlap) ==
  [kind |-> kind, enforced |-> enforced, lapses |-> lapses, attentive |-> attentive,
   overlap |-> overlap]

Markets ==
  { Market("offer", TRUE, TRUE, TRUE, {}),
    Market("offer", TRUE, FALSE, TRUE, {{"edit"}, {"edit", "photo"}, {"archive", "edit"}}),
    Market("offer", TRUE, FALSE, FALSE,
           {{"edit", "approve"}, {"files", "approve"}, {"approve"}, {"approve", "reject"}}),
    Market("inquiry", FALSE, FALSE, TRUE, {{"edit"}, {"edit", "reject"}}) }

M == INSTANCE Moderation WITH
       Worlds <- Markets, MaxVersions <- 3, world <- market, sess <- itemSess

-----------------------------------------------------------------------------
(* Samples: with a letter, the signature beside the seller's answer and a    *)
(* new request, or beside a render; without, the parties' moves beside one   *)
(* another and a new request; two deals opened at once; nothing overlaps.    *)

Labs ==
  { [letter |-> TRUE, overlap |-> Pairs({"sign", "accepted", "declined", "request"})],
    [letter |-> TRUE, overlap |-> Pairs({"render", "sign"})],
    [letter |-> FALSE,
     overlap |-> Pairs({"accepted", "declined", "sent", "request", "received", "rejected_by_buyer"})],
    [letter |-> FALSE, overlap |-> Pairs({"deal_from_sample", "deal_from_inquiry"})],
    [letter |-> FALSE, overlap |-> {}] }

S == INSTANCE Samples WITH
       Worlds <- Labs, MaxRenders <- 2, world <- lab, sess <- sampleSess

-----------------------------------------------------------------------------
(* The four of them                                                          *)

\* A desk that is not at work is in one of its initial states, always the same.
DesksInit ==
  /\ desk \in {"tender", "verification", "moderation", "samples"}
  /\ Init /\ V!Init /\ M!Init /\ S!Init
  /\ desk # "tender" => world = {}
  /\ desk # "verification" => setting = Undisturbed
  /\ desk # "moderation" => market = Market("offer", TRUE, TRUE, TRUE, {}) /\ licence
  /\ desk # "samples" => lab = [letter |-> FALSE, overlap |-> {}]

AtVerification(A) ==
  desk = "verification" /\ A /\ UNCHANGED <<desk, vars, moderation, samples>>

DesksNext ==
  \/ desk = "tender" /\ Next /\ UNCHANGED <<desk, verification, moderation, samples>>
  \/ AtVerification(V!Next)
  \/ desk = "moderation" /\ M!Next /\ UNCHANGED <<desk, vars, verification, samples>>
  \/ desk = "samples" /\ S!Next /\ UNCHANGED <<desk, vars, verification, moderation>>

\* Verification's, see there: requests end and workers take their tasks.
DesksFairness ==
  /\ WF_desks(AtVerification(V!CommitSubmit \/ V!SubmitFails))
  /\ WF_desks(AtVerification(V!FanOut))
  /\ \A w \in Workers : WF_desks(AtVerification(V!Works(w)))

DesksSpec == DesksInit /\ [][DesksNext]_desks /\ DesksFairness

-----------------------------------------------------------------------------
(* The properties of the desks                                               *)

\* What the tables of the four desks hold, as in each of them.
DesksTypeOK == TypeOK /\ V!TypeOK /\ M!TypeOK /\ S!TypeOK

\* on_check_completed: no case is left running with its checks settled, see
\* Verification.
SettledCaseIsEvaluated == V!SettledCaseIsEvaluated

\* _release_deferred_documents: the documents are judged after the registry,
\* see Verification.
DocumentsAwaitTheRegistry == V!DocumentsAwaitTheRegistry

\* _claim_pending_review: a decision is made once and stands, see Verification.
DecisionStands == V!DecisionStands

\* run_single_check: a submitted case leaves its checks, see Verification.
SubmittedCaseIsAnswered == V!SubmittedCaseIsAnswered

\* update_offer: nothing is public that no moderator saw, see Moderation.
AttendedPublicWasReviewed == M!AttendedPublicWasReviewed

\* apply_publish_gate and assert_publishable: what is published complies, see
\* Moderation.
PublishedIsCompliant == M!PublishedIsCompliant

\* uq_sample_request_active: one live request holds the slot, see Samples.
OneLiveRequest == S!OneLiveRequest

\* letters.sign: the signature is of the letter on record, see Samples.
SignatureCoversTheLetter == S!SignatureCoversTheLetter

=============================================================================
