----------------------------- MODULE Verification -----------------------------
(****************************************************************************)
(* A company's verification case: app/domains/verification/service.py and    *)
(* the tasks of the verify queue, app/tasks/verification.py.                 *)
(*                                                                           *)
(* Submitting a case spawns its checks and enqueues a fan-out task, which    *)
(* enqueues a task for each pending check; a task that settles its check     *)
(* re-evaluates the case under a lock of the case row.  The lock reads the    *)
(* case afresh, unless the session still holds a copy, which the lock does   *)
(* not refresh: the traceback of a provider that raised keeps the copy that  *)
(* _run_check loaded, and the operator's registry check keeps its own.       *)
(****************************************************************************)
EXTENDS Naturals

CONSTANTS
  Workers,     \* worker processes of the verify queue
  Worlds,      \* the circumstances to consider, see World
  MaxTries,    \* MAX_CHECK_ATTEMPTS
  MaxSubmits,  \* bound on a world's submissions
  MaxFaults    \* bound on a world's faults

\* auto      the setting verification_auto_approve is on
\* waives    staff waive checks
\* records   staff record registry checks by hand
\* raises    the registry's provider may raise rather than answer
\* early     the broker is faster than the commit of the submit
\* faults    bound: how many tasks are lost, redelivered, raise or hit a deadlock
\* submits   bound: how often the case is submitted
World ==
  [auto : BOOLEAN, waives : BOOLEAN, records : BOOLEAN, raises : BOOLEAN, early : BOOLEAN,
   faults : 0..MaxFaults, submits : 0..MaxSubmits]

VARIABLES
  world,       \* the circumstances of this behaviour
  case,        \* verification_cases.status
  submits,     \* how often it was submitted: each time the check rows are new
  check,       \* [Checks -> check]: verification_checks
  submitting,  \* a submit has enqueued its fan-out and not committed yet
  fanout,      \* a run_verification_checks task is in the broker
  tasks,       \* run_single_check tasks in the broker
  run,         \* [Workers -> the task in progress]
  faults,      \* the faults that may still happen
  recording,   \* the case as an operator's registry check loaded it
  approvals    \* VERIFICATION_CASE_APPROVED events; bound: two stand for more

vars ==
  <<world, case, submits, check, submitting, fanout, tasks, run, faults, recording, approvals>>

\* The automated checks (tax_id_format is like bank_requisites, vat_status is a
\* registry check nothing waits for, manual_kyb never blocks).
Checks == {"bank_requisites", "documents_complete", "gov_registry"}

CaseStatuses ==
  {"draft", "checks_running", "needs_info", "pending_review", "approved", "rejected"}

Decided == {"approved", "rejected"}

\* A committed check is never `running`: that status is set and replaced inside
\* one transaction.
Check ==
  [ status : {"none", "pending", "passed", "failed", "unavailable", "waived"},
    attempts : 0..MaxTries ]   \* saturates: it is only compared with MaxTries

Task == [check : Checks, submit : 1..MaxSubmits, retries : 0..MaxTries]

Idle == [case |-> "none"]

TypeOK ==
  /\ world \in Worlds
  /\ case \in CaseStatuses
  /\ submits \in 0..MaxSubmits
  /\ check \in [Checks -> Check]
  /\ submitting \in BOOLEAN
  /\ fanout \in BOOLEAN
  /\ tasks \subseteq Task
  /\ run \in [Workers -> [task : Task, case : CaseStatuses] \cup {Idle}]
  /\ recording \in CaseStatuses \cup {"none"}
  /\ approvals \in 0..2
  /\ faults \in 0..MaxFaults

Init ==
  /\ world \in Worlds
  /\ case = "draft"
  /\ submits = 0
  /\ check = [c \in Checks |-> [status |-> "none", attempts |-> 0]]
  /\ submitting = FALSE
  /\ fanout = FALSE
  /\ tasks = {}
  /\ run = [w \in Workers |-> Idle]
  /\ faults = world.faults
  /\ recording = "none"
  /\ approvals = 0

OneMore(n) == IF n < 2 THEN n + 1 ELSE 2

\* One of the faults of this behaviour happens.
FaultHappens == faults > 0 /\ faults' = faults - 1

\* A task holds the row lock of its check from its first flush to its commit.
RowLocked(c) == \E w \in Workers : run[w] # Idle /\ run[w].task.check = c

-----------------------------------------------------------------------------
(* Submitting                                                                *)

\* submit_case replaces the checks, which waits for the tasks at work on the
\* old ones, and enqueues the fan-out; its caller commits afterwards.
BeginSubmit ==
  /\ case \in {"draft", "needs_info"}
  /\ submits < world.submits
  /\ ~submitting
  /\ \A c \in Checks : ~RowLocked(c)
  /\ submitting' = TRUE
  /\ \/ fanout' = TRUE /\ UNCHANGED faults
     \/ FaultHappens /\ UNCHANGED fanout   \* fail-soft
  /\ UNCHANGED <<world, case, submits, check, tasks, run, recording, approvals>>

CommitSubmit ==
  /\ submitting
  /\ submitting' = FALSE
  /\ case' = "checks_running"
  /\ submits' = submits + 1
  /\ check' = [c \in Checks |-> [status |-> "pending", attempts |-> 0]]
  /\ UNCHANGED <<world, fanout, tasks, run, faults, recording, approvals>>

SubmitFails ==
  /\ submitting
  /\ submitting' = FALSE
  /\ UNCHANGED <<world, case, submits, check, fanout, tasks, run, faults, recording, approvals>>

Fresh(c) == [check |-> c, submit |-> submits, retries |-> 0]

\* Fault: the documents are judged beside the registry.
Held_Never(c) == FALSE

\* The registry's verdict can waive the registration certificate, so the
\* documents are held back while the registry has yet to answer.
Held(c) == c = "documents_complete" /\ check["gov_registry"].status = "pending"

\* run_verification_checks
FanOut ==
  /\ fanout
  /\ submitting => world.early
  /\ LET due == { Fresh(c) : c \in {d \in Checks : check[d].status = "pending" /\ ~Held(d)} }
     IN  \/ tasks' = tasks \cup due /\ fanout' = FALSE /\ UNCHANGED faults
         \/ FaultHappens /\ \E sent \in SUBSET due : tasks' = tasks \cup sent /\ fanout' \in BOOLEAN
  /\ UNCHANGED <<world, case, submits, check, submitting, run, recording, approvals>>

-----------------------------------------------------------------------------
(* The evaluator                                                             *)

\* Fault: an `unavailable` check blocks whatever its attempts.
StillRunning_Blocking(k) == k.status \in {"pending", "unavailable"}

StillRunning(k) ==
  \/ k.status = "pending"
  \/ k.status = "unavailable" /\ k.attempts < MaxTries

\* What on_check_completed makes of a case of which it has the copy `seen`.
Judged(seen, k) ==
  IF seen \notin {"checks_running", "needs_info"} \/ \E c \in Checks : StillRunning(k[c]) THEN seen
  ELSE IF \E c \in Checks : k[c].status = "failed" THEN "needs_info"
  ELSE IF world.auto THEN "approved"
  ELSE "pending_review"

\* The checks become k and the case is re-evaluated; only a status other than
\* the copy's is written.  _finalize_approval emits the event.
Evaluate(seen, k) ==
  /\ check' = k
  /\ case' = IF Judged(seen, k) = seen THEN case ELSE Judged(seen, k)
  /\ approvals' = IF Judged(seen, k) = "approved" /\ seen # "approved" THEN OneMore(approvals) ELSE approvals

\* The checks are written and nothing is evaluated.
Record(k) == check' = k /\ UNCHANGED <<case, approvals>>

After(k, status) ==
  [status |-> status, attempts |-> IF k.attempts < MaxTries THEN k.attempts + 1 ELSE MaxTries]

-----------------------------------------------------------------------------
(* run_single_check                                                          *)

\* A task of an earlier submit finds no row (check_not_found).
DropTask(t) ==
  /\ t \in tasks
  /\ t.submit # submits
  /\ tasks' = tasks \ {t}
  /\ UNCHANGED <<world, case, submits, check, submitting, fanout, run, faults, recording, approvals>>

\* The check is flushed as running, and _run_check loads the case: a copy that
\* outlives it only where it raises, see NoAnswer.
StartCheck(w, t) ==
  /\ run[w] = Idle
  /\ t \in tasks
  /\ t.submit = submits
  /\ ~RowLocked(t.check)
  /\ ~submitting
  /\ run' = [run EXCEPT ![w] = [task |-> t, case |-> case]]
  /\ tasks' = tasks \ {t}
  /\ UNCHANGED <<world, case, submits, check, submitting, fanout, faults, recording, approvals>>

Stop(w) == run' = [run EXCEPT ![w] = Idle]

\* Fault: there is no max_retries.
Again_Unbounded(t) == {[t EXCEPT !.retries = @ + 1]}

\* self.retry: after max_retries the task is gone.
Again(t) == IF t.retries < MaxTries THEN {[t EXCEPT !.retries = @ + 1]} ELSE {}

\* _release_deferred_documents
Released(c, k) ==
  IF c = "gov_registry" /\ k["documents_complete"].status = "pending"
  THEN {Fresh("documents_complete")} ELSE {}

\* An answer.  Under acks_late a worker that dies after the commit leaves the task.
Answer(w, status) ==
  LET t == run[w].task
      k == [check EXCEPT ![t.check] = After(@, status)]
  IN  /\ run[w] # Idle
      /\ status \in {"passed", "failed"}
      /\ Evaluate(case, k)
      /\ \/ tasks' = tasks \cup Released(t.check, k) /\ UNCHANGED faults
         \/ FaultHappens /\ (tasks' = tasks \/ tasks' = tasks \cup {t})
      /\ Stop(w)
      /\ UNCHANGED <<world, submits, submitting, fanout, recording>>

\* Fault: the attempt under way is not counted.
Exhausted_Late(k) == k.attempts >= MaxTries

\* Whether the attempt under way is the last of the budget.
Exhausted(k) == k.attempts + 1 >= MaxTries

\* No answer.  It is retried while attempts are left, and then it is the verdict;
\* a provider that raised, rather than answer, is retried even then, and the
\* case is judged by the copy that the exception keeps.
NoAnswer(w, raised) ==
  LET t == run[w].task
      k == [check EXCEPT ![t.check] = After(@, "unavailable")]
      final == Exhausted(check[t.check])
  IN  /\ run[w] # Idle
      /\ t.check = "gov_registry"
      /\ raised => world.raises
      /\ IF raised THEN FaultHappens ELSE UNCHANGED faults
      /\ IF final THEN Evaluate(IF raised THEN run[w].case ELSE case, k) ELSE Record(k)
      /\ tasks' = tasks \cup (IF raised \/ ~final THEN Again(t) ELSE {})
                        \cup (IF final THEN Released(t.check, k) ELSE {})
      /\ Stop(w)
      /\ UNCHANGED <<world, submits, submitting, fanout, recording>>

\* A deadlock rolls everything back and is retried on the same budget; the task
\* of a worker that dies is delivered again.
Aborted(w) ==
  /\ FaultHappens
  /\ run[w] # Idle
  /\ \/ tasks' = tasks \cup Again(run[w].task)
     \/ tasks' = tasks \cup {run[w].task}
  /\ Stop(w)
  /\ UNCHANGED <<world, case, submits, check, submitting, fanout, recording, approvals>>

-----------------------------------------------------------------------------
(* Staff                                                                     *)

\* waive_check: its evaluation loads the case with the lock.
Waive(c) ==
  /\ world.waives
  /\ submits > 0
  /\ ~submitting
  /\ ~RowLocked(c)
  /\ Evaluate(case, [check EXCEPT ![c].status = "waived"])
  /\ UNCHANGED <<world, submits, submitting, fanout, tasks, run, faults, recording>>

\* record_registry_check loads the case, transcribes, stores the evidence ...
BeginRecording ==
  /\ world.records
  /\ recording = "none"
  /\ submits > 0
  /\ recording' = case
  /\ UNCHANGED <<world, case, submits, check, submitting, fanout, tasks, run, faults, approvals>>

\* ... and upserts the check, which re-evaluates the case by that copy.
FinishRecording(status) ==
  /\ recording # "none"
  /\ ~submitting
  /\ ~RowLocked("gov_registry")
  /\ status \in {"passed", "failed"}
  /\ Evaluate(recording, [check EXCEPT !["gov_registry"] = After(@, status)])
  /\ recording' = "none"
  /\ UNCHANGED <<world, submits, submitting, fanout, tasks, run, faults>>

\* Fault: a decision is taken on any case that has none.
MayDecide_Undecided == case \notin Decided

\* _claim_pending_review: UPDATE ... WHERE status = 'pending_review'
MayDecide == case = "pending_review"

\* approve, reject, request_info
Decide(decision) ==
  /\ MayDecide
  /\ decision \in Decided \cup {"needs_info"}
  /\ case' = decision
  /\ approvals' = IF decision = "approved" THEN OneMore(approvals) ELSE approvals
  /\ UNCHANGED <<world, submits, check, submitting, fanout, tasks, run, faults, recording>>

-----------------------------------------------------------------------------

Works(w) ==
  \/ \E t \in tasks : StartCheck(w, t)
  \/ \E status \in {"passed", "failed"} : Answer(w, status)
  \/ \E raised \in BOOLEAN : NoAnswer(w, raised)

Next ==
  \/ BeginSubmit \/ CommitSubmit \/ SubmitFails
  \/ FanOut
  \/ \E t \in tasks : DropTask(t)
  \/ \E w \in Workers : Works(w) \/ Aborted(w)
  \/ \E c \in Checks : Waive(c)
  \/ BeginRecording
  \/ \E status \in {"passed", "failed"} : FinishRecording(status)
  \/ \E decision \in CaseStatuses : Decide(decision)

\* The request ends, and the workers keep taking tasks; a provider may never
\* answer.
Fairness ==
  /\ WF_vars(CommitSubmit \/ SubmitFails)
  /\ WF_vars(FanOut)
  /\ \A w \in Workers : WF_vars(Works(w))

Spec == Init /\ [][Next]_vars /\ Fairness

-----------------------------------------------------------------------------
(* Properties                                                                *)

\* "Two checks finishing at once produce exactly one evaluation": no case is
\* left running with every check settled, however the tasks interleave, are
\* repeated or deadlock, and whatever staff waive.  (The stale copy of a
\* registry check recorded by hand is left out.)
SettledCaseIsEvaluated ==
  ~world.records /\ case = "checks_running" => \E c \in Checks : StillRunning(check[c])

\* The documents are judged with the registry's verdict at hand, so that they
\* never fail on the certificate it was about to waive.
DocumentsAwaitTheRegistry ==
  world.faults = 0 /\ ~world.waives /\ ~world.records
    /\ check["documents_complete"].status \in {"passed", "failed"} =>
      ~StillRunning(check["gov_registry"])

\* A decision stands, and is made once, though a late, repeated or redelivered
\* check or a waiver is evaluated after it or beside the officers: the copies of
\* a raised provider and of a registry check recorded by hand are the only way
\* to undo it, or to approve a case once more.
DecisionStands ==
  ~world.raises /\ ~world.records =>
    approvals = (IF case = "approved" THEN 1 ELSE 0)

\* A submitted case does not stay in its checks, even if the registry never
\* answers, as long as no task is lost and the submit commits before the fan-out.
SubmittedCaseIsAnswered ==
  world.faults = 0 /\ ~world.early /\ case = "checks_running" ~> case # "checks_running"

\* on_check_completed: "All automated checks resolved ({passed, warning,
\* waived}) -> auto-approve"; anything else "must be allowed to reach a human".
\* The code breaks it (a check out of attempts is unavailable, not resolved, and
\* does not block), so no run asks for it: see README, section 4.
AutoApprovalIsResolved ==
  [][case = "checks_running" /\ case' = "approved" =>
       \A c \in Checks : check'[c].status \in {"passed", "waived"}]_vars

=============================================================================
