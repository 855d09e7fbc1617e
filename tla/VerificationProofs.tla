-------------------------- MODULE VerificationProofs --------------------------
(****************************************************************************)
(* Proofs about Verification, for any number of workers, submits, faults and *)
(* attempts: a case whose checks are settled is evaluated, the documents     *)
(* wait for the registry, and a decision is made once.                       *)
(*                                                                           *)
(* The argument: a case is judged as it is, and a copy, where one is kept,   *)
(* says it is running if it still is; so whoever settles the last check      *)
(* moves it, and nobody moves it from a decision.  Where nothing disturbs    *)
(* them, a check has one task at most, in the broker or at work, and none    *)
(* once it is settled, so no task is left to judge the documents early.      *)
(****************************************************************************)
EXTENDS Verification, TLAPS

\* What the constants are.
Parameters ==
  /\ MaxTries \in Nat /\ MaxSubmits \in Nat /\ MaxFaults \in Nat
  /\ Worlds \subseteq World

Busy(w) == run[w] # Idle

Current(t) == t.submit = submits

Counted ==
  /\ submitting => submits < world.submits /\ case \in {"draft", "needs_info"}
  /\ submits = 0 => \A c \in Checks : check[c].status = "none"
  /\ \A t \in tasks : t.submit <= submits
  /\ faults <= world.faults
  /\ recording # "none" => world.records /\ submits # 0

\* A task at work is of the present submit, holds its check alone, and has seen
\* the case running if it still is.
Orderly ==
  /\ submitting => \A w \in Workers : ~Busy(w)
  /\ \A w \in Workers : Busy(w) =>
       /\ Current(run[w].task)
       /\ case = "checks_running" => run[w].case = "checks_running"
  /\ \A v, w \in Workers : Busy(v) /\ Busy(w) /\ run[v].task.check = run[w].task.check => v = w
  /\ SettledCaseIsEvaluated

Calm == world.faults = 0 /\ ~world.waives /\ ~world.records

NoTask(c) == \A t \in tasks : Current(t) => t.check # c

\* Where nothing is lost, redelivered, waived or recorded by hand.
Single ==
  /\ \A w \in Workers : Busy(w) => StillRunning(check[run[w].task.check])
  /\ \A t \in tasks : Current(t) => StillRunning(check[t.check]) /\ ~RowLocked(t.check)
  /\ \A t, u \in tasks : Current(t) /\ Current(u) /\ t.check = u.check => t = u
  /\ fanout => \A c \in Checks : NoTask(c) /\ ~RowLocked(c)
  /\ fanout /\ StillRunning(check["gov_registry"]) => check["gov_registry"].status = "pending"
  /\ StillRunning(check["gov_registry"]) =>
       /\ check["documents_complete"].status \in {"none", "pending"}
       /\ NoTask("documents_complete") /\ ~RowLocked("documents_complete")
  /\ case # "checks_running" => \A c \in Checks : ~StillRunning(check[c])

\* DecisionStands, without its premise.
Once == approvals = IF case = "approved" THEN 1 ELSE 0

IInv == TypeOK /\ Counted /\ Orderly /\ DecisionStands /\ (Calm => Single)

-----------------------------------------------------------------------------
(* The data                                                                  *)

LEMMA Types ==
  ASSUME Parameters, TypeOK
  PROVE  /\ world.faults \in Nat /\ world.submits \in 0..MaxSubmits
         /\ faults \in Nat /\ submits \in Nat /\ approvals \in 0..2
         /\ \A c \in Checks : check[c] \in Check /\ check[c].attempts \in Nat
         /\ \A t \in tasks : t \in Task /\ t.check \in Checks /\ t.submit \in Nat \ {0}
         /\ \A w \in Workers : Busy(w) =>
              /\ run[w].task \in Task /\ run[w].task.check \in Checks
              /\ run[w].task.submit \in Nat \ {0} /\ run[w].case \in CaseStatuses
<1>1. world \in World
  BY DEF Parameters, TypeOK
<1>2. world.faults \in Nat /\ world.submits \in 0..MaxSubmits
  BY <1>1 DEF World, Parameters
<1>3. faults \in Nat /\ submits \in Nat /\ approvals \in 0..2
  BY DEF TypeOK, Parameters
<1>4. \A c \in Checks : check[c] \in Check /\ check[c].attempts \in Nat
  BY DEF TypeOK, Parameters, Check
<1>5. \A t \in Task : t.check \in Checks /\ t.submit \in Nat \ {0}
  BY DEF Task, Parameters
<1>6. \A w \in Workers : Busy(w) => run[w].task \in Task /\ run[w].case \in CaseStatuses
  BY DEF TypeOK, Busy
<1>7. QED
  BY <1>2, <1>3, <1>4, <1>5, <1>6 DEF TypeOK

\* A step has a fault at most, and only while one is left.
LEMMA FaultTypes ==
  ASSUME Parameters, TypeOK
  PROVE  /\ faults' = faults \/ FaultHappens => faults' \in 0..MaxFaults /\ faults' <= faults
         /\ faults = 0 => ~FaultHappens
BY DEF Parameters, TypeOK, FaultHappens

LEMMA FreshType ==
  ASSUME Parameters, TypeOK, submits # 0, NEW c \in Checks
  PROVE  Fresh(c) \in Task /\ Fresh(c).check = c /\ Fresh(c).submit = submits
BY DEF Parameters, TypeOK, Fresh, Task

LEMMA AgainType ==
  ASSUME Parameters, NEW t \in Task
  PROVE  \A u \in Again(t) : u \in Task /\ u.check = t.check /\ u.submit = t.submit
BY DEF Parameters, Task, Again

LEMMA AgainOne ==
  ASSUME NEW t, NEW u \in Again(t), NEW v \in Again(t)
  PROVE  u = v
BY DEF Again

\* What becomes of one check.
LEMMA AfterType ==
  ASSUME Parameters, NEW k \in Check, NEW status \in {"passed", "failed", "unavailable"}
  PROVE  /\ After(k, status) \in Check
         /\ status # "unavailable" => ~StillRunning(After(k, status))
         /\ Exhausted(k) => ~StillRunning(After(k, "unavailable"))
         /\ ~Exhausted(k) => StillRunning(After(k, "unavailable"))
         /\ After(k, status).status = status
BY DEF Parameters, Check, After, StillRunning, Exhausted

\* on_check_completed leaves a running case running only where a check still
\* runs, makes no case running, and approves only what is not approved.
LEMMA EvaluateFacts ==
  ASSUME NEW seen \in CaseStatuses, NEW k, Evaluate(seen, k),
         case \in CaseStatuses, approvals \in 0..2
  PROVE  /\ check' = k
         /\ case' \in CaseStatuses /\ approvals' \in 0..2
         /\ case' = "checks_running" =>
              /\ case = "checks_running"
              /\ seen = "checks_running" => \E c \in Checks : StillRunning(k[c])
         /\ seen = "checks_running" /\ case = "checks_running" /\ case' # "checks_running" =>
              \A c \in Checks : ~StillRunning(k[c])
         /\ seen = case /\ Once => Once'
<1>1. /\ check' = k
      /\ case' = IF Judged(seen, k) = seen THEN case ELSE Judged(seen, k)
      /\ approvals' = IF Judged(seen, k) = "approved" /\ seen # "approved"
                      THEN OneMore(approvals) ELSE approvals
  BY DEF Evaluate
<1>2. \/ Judged(seen, k) = seen
      \/ /\ Judged(seen, k) \in {"needs_info", "approved", "pending_review"}
         /\ seen \in {"checks_running", "needs_info"}
         /\ \A c \in Checks : ~StillRunning(k[c])
  BY DEF Judged
<1>3. seen = "checks_running" /\ Judged(seen, k) = seen => \E c \in Checks : StillRunning(k[c])
  BY DEF Judged
<1>4. OneMore(approvals) \in 0..2 /\ OneMore(0) = 1
  BY DEF OneMore
<1>5. {"needs_info", "approved", "pending_review", "checks_running"} \subseteq CaseStatuses
  BY DEF CaseStatuses
<1>6. case' \in CaseStatuses /\ approvals' \in 0..2
  BY <1>1, <1>2, <1>4, <1>5
<1>7. ASSUME seen = case, Once PROVE Once'
  BY <1>1, <1>2, <1>4, <1>7 DEF Once
<1>8. QED
  BY <1>1, <1>2, <1>3, <1>4, <1>6, <1>7

-----------------------------------------------------------------------------
(* Submitting                                                                *)

LEMMA InitKeeps == Parameters /\ Init => IInv
<1> SUFFICES ASSUME Parameters, Init PROVE IInv
  OBVIOUS
<1>1. world \in World
  BY DEF Parameters, Init
<1>2. world.faults \in 0..MaxFaults /\ MaxSubmits \in Nat /\ MaxTries \in Nat
  BY <1>1 DEF World, Parameters
<1>3. TypeOK
  <2>1. check \in [Checks -> Check]
    BY <1>2 DEF Init, Check
  <2>2. case \in CaseStatuses /\ recording \in CaseStatuses \cup {"none"}
    BY DEF Init, CaseStatuses
  <2>3. submits \in 0..MaxSubmits /\ approvals \in 0..2 /\ faults \in 0..MaxFaults
    BY <1>2 DEF Init
  <2>4. run \in [Workers -> [task : Task, case : CaseStatuses] \cup {Idle}]
    BY DEF Init
  <2>5. world \in Worlds /\ tasks \subseteq Task /\ submitting \in BOOLEAN /\ fanout \in BOOLEAN
    BY DEF Init
  <2>6. QED
    BY <2>1, <2>2, <2>3, <2>4, <2>5 DEF TypeOK
<1>4. Counted
  BY <1>2 DEF Init, Counted
<1>5. Orderly
  BY DEF Init, Orderly, Busy, SettledCaseIsEvaluated
<1>6. Single
  <2>1. \A c \in Checks : ~StillRunning(check[c])
    BY DEF Init, StillRunning
  <2>2. "gov_registry" \in Checks
    BY DEF Checks
  <2>3. \A w \in Workers : ~Busy(w)
    BY DEF Init, Busy
  <2>4. tasks = {} /\ fanout = FALSE
    BY DEF Init
  <2>5. QED
    BY <2>1, <2>2, <2>3, <2>4 DEF Single
<1>7. DecisionStands
  BY DEF Init, DecisionStands
<1>8. QED
  BY <1>3, <1>4, <1>5, <1>6, <1>7 DEF IInv

LEMMA BeginSubmitKeeps ==
  ASSUME Parameters, IInv, BeginSubmit
  PROVE  IInv'
<1>1. /\ case \in {"draft", "needs_info"} /\ submits < world.submits /\ ~submitting
      /\ submitting' = TRUE
      /\ \/ fanout' = TRUE /\ faults' = faults
         \/ fanout' = fanout /\ FaultHappens
      /\ world' = world /\ case' = case /\ submits' = submits /\ check' = check
      /\ tasks' = tasks /\ run' = run /\ recording' = recording /\ approvals' = approvals
  BY DEF BeginSubmit
<1>2. \A w \in Workers : ~Busy(w)
  BY Types DEF BeginSubmit, RowLocked, IInv, Busy
<1>3. faults' \in 0..MaxFaults /\ faults' <= faults /\ fanout' \in BOOLEAN
  <2>1. faults' = faults \/ FaultHappens
    BY <1>1
  <2>2. fanout' \in BOOLEAN
    BY <1>1 DEF IInv, TypeOK
  <2>3. QED
    BY <2>1, <2>2, FaultTypes DEF IInv
<1>4. TypeOK'
  BY <1>1, <1>3 DEF IInv, TypeOK
<1>5. Counted'
  BY <1>1, <1>3, Types DEF IInv, Counted
<1>6. Orderly'
  BY <1>1, <1>2 DEF IInv, Orderly, Busy, Current, SettledCaseIsEvaluated
<1>7. ASSUME Calm' PROVE Single'
  <2>1. Single /\ Calm
    BY <1>1, <1>7 DEF Calm, IInv
  <2>2. \A c \in Checks : ~StillRunning(check[c]) /\ ~RowLocked(c) /\ NoTask(c)
    BY <1>1, <1>2, <2>1 DEF Single, NoTask, RowLocked, Busy
  <2>3. "gov_registry" \in Checks
    BY DEF Checks
  <2>4. QED
    BY <1>1, <2>1, <2>2, <2>3 DEF Single, Busy, Current, NoTask, RowLocked
<1>8. DecisionStands'
  BY <1>1 DEF IInv, DecisionStands
<1>9. QED
  BY <1>4, <1>5, <1>6, <1>7, <1>8 DEF IInv

LEMMA CommitSubmitKeeps ==
  ASSUME Parameters, IInv, CommitSubmit
  PROVE  IInv'
<1>1. /\ submitting /\ submitting' = FALSE /\ case' = "checks_running" /\ submits' = submits + 1
      /\ check' = [c \in Checks |-> [status |-> "pending", attempts |-> 0]]
      /\ world' = world /\ fanout' = fanout /\ tasks' = tasks /\ run' = run /\ faults' = faults
      /\ recording' = recording /\ approvals' = approvals
  BY DEF CommitSubmit
<1>2. \A w \in Workers : ~Busy(w)
  BY <1>1 DEF IInv, Orderly
<1>3. submits' \in 0..MaxSubmits
  BY <1>1, Types DEF IInv, Counted, TypeOK, Parameters
<1>4. check' \in [Checks -> Check] /\ \A c \in Checks : StillRunning(check'[c])
  BY <1>1 DEF Check, StillRunning, Parameters
<1>5. TypeOK'
  BY <1>1, <1>3, <1>4 DEF IInv, TypeOK, CaseStatuses
<1>6. Counted'
  BY <1>1, Types DEF IInv, Counted
<1>7. Checks # {}
  BY DEF Checks
<1>8. Orderly'
  BY <1>1, <1>2, <1>4, <1>7 DEF Orderly, Busy, SettledCaseIsEvaluated
<1>9. ASSUME Calm' PROVE Single'
  <2>1. Single
    BY <1>1, <1>9 DEF Calm, IInv
  <2>2. \A t \in tasks : t.submit # submits'
    BY <1>1, Types DEF IInv, Counted
  <2>3. \A c \in Checks : ~RowLocked(c)
    BY <1>2 DEF RowLocked, Busy
  <2>4. QED
    BY <1>1, <1>2, <1>4, <2>2, <2>3
       DEF Single, Busy, Current, NoTask, RowLocked, Checks
<1>10. DecisionStands'
  BY <1>1 DEF IInv, Counted, DecisionStands
<1>11. QED
  BY <1>5, <1>6, <1>8, <1>9, <1>10 DEF IInv

\* What changes neither the checks, the case, the tasks at work nor the records.
Still ==
  /\ world' = world /\ case' = case /\ submits' = submits /\ check' = check
  /\ run' = run /\ approvals' = approvals

LEMMA StillStands ==
  ASSUME DecisionStands, Still
  PROVE  DecisionStands'
BY DEF Still, DecisionStands

LEMMA SubmitFailsKeeps ==
  ASSUME Parameters, IInv, SubmitFails
  PROVE  IInv'
<1>1. /\ submitting' = FALSE /\ fanout' = fanout /\ tasks' = tasks /\ faults' = faults
      /\ recording' = recording /\ Still
  BY DEF SubmitFails, Still
<1>2. TypeOK' /\ Counted' /\ Orderly'
  BY <1>1 DEF IInv, TypeOK, Counted, Orderly, Busy, Current, SettledCaseIsEvaluated, Still
<1>3. Calm' => Single'
  BY <1>1 DEF IInv, Calm, Single, Busy, Current, NoTask, RowLocked, Still
<1>4. QED
  BY <1>1, <1>2, <1>3, StillStands DEF IInv

\* The fan-out: a task for each check that is pending and not held back.
LEMMA FanOutKeeps ==
  ASSUME Parameters, IInv, FanOut
  PROVE  IInv'
<1> DEFINE due == { Fresh(c) : c \in {d \in Checks : check[d].status = "pending" /\ ~Held(d)} }
<1>1. fanout /\ Still /\ submitting' = submitting /\ recording' = recording
  BY DEF FanOut, Still
<1>2. \/ tasks' = tasks \cup due /\ fanout' = FALSE /\ faults' = faults
      \/ FaultHappens /\ \E sent \in SUBSET due : tasks' = tasks \cup sent /\ fanout' \in BOOLEAN
  BY DEF FanOut
<1>3. \A t \in due : /\ t \in Task /\ t.check \in Checks /\ t.submit = submits
                     /\ t = Fresh(t.check)
                     /\ check[t.check].status = "pending" /\ ~Held(t.check)
  <2> SUFFICES ASSUME NEW c \in Checks, check[c].status = "pending", ~Held(c)
               PROVE  Fresh(c) \in Task /\ Fresh(c).check = c /\ Fresh(c).submit = submits
    OBVIOUS
  <2>1. submits # 0
    BY DEF IInv, Counted
  <2>2. QED
    BY <2>1, FreshType DEF IInv
<1> HIDE DEF due
<1>4. PICK sent \in SUBSET due : tasks' = tasks \cup sent
  BY <1>2
<1>5. faults' \in 0..MaxFaults /\ faults' <= faults /\ fanout' \in BOOLEAN
  <2>1. faults' = faults \/ FaultHappens
    BY <1>2
  <2>2. fanout' \in BOOLEAN
    BY <1>2
  <2>3. QED
    BY <2>1, <2>2, FaultTypes DEF IInv
<1>6. TypeOK'
  BY <1>1, <1>3, <1>4, <1>5 DEF IInv, TypeOK, Still
<1>7. \A t \in tasks' : t.submit <= submits
  BY <1>3, <1>4, Types DEF IInv, Counted
<1>8. Counted'
  BY <1>1, <1>5, <1>7, Types DEF IInv, Counted, Still
<1>9. Orderly'
  BY <1>1 DEF IInv, Orderly, Busy, Current, SettledCaseIsEvaluated, Still
<1>10. ASSUME Calm' PROVE Single'
  <2>1. Single /\ Calm
    BY <1>1, <1>10 DEF Calm, IInv, Still
  <2>2. ~FaultHappens
    BY <2>1, Types DEF FaultHappens, Calm, IInv, Counted
  <2>3. fanout' = FALSE
    BY <1>2, <2>2
  <2>4. \A t \in tasks : ~Current(t)
    BY <1>1, <2>1, Types DEF Single, NoTask, IInv
  <2>5. \A c \in Checks : ~RowLocked(c)
    BY <1>1, <2>1 DEF Single
  <2>6. \A t \in tasks' : Current(t)' => t \in due
    BY <1>1, <1>4, <2>4 DEF Current, Still
  <2>7. \A t \in tasks' : Current(t)' => StillRunning(check'[t.check]) /\ ~RowLocked(t.check)'
    BY <1>1, <1>3, <2>5, <2>6 DEF StillRunning, RowLocked, Still
  <2>8. \A t, u \in tasks' : Current(t)' /\ Current(u)' /\ t.check = u.check => t = u
    BY <1>3, <2>6
  <2>9. StillRunning(check["gov_registry"]) => NoTask("documents_complete")'
    <3> SUFFICES ASSUME StillRunning(check["gov_registry"]),
                        NEW t \in tasks', Current(t)', t.check = "documents_complete"
                 PROVE  FALSE
      BY DEF NoTask
    <3>1. ~Held("documents_complete")
      BY <1>3, <2>6
    <3>2. check["gov_registry"].status = "pending"
      BY <1>1, <2>1 DEF Single
    <3>3. QED
      BY <3>1, <3>2 DEF Held
  <2>10. QED
    BY <1>1, <2>1, <2>3, <2>7, <2>8, <2>9 DEF Single, Busy, RowLocked, Still
<1>11. QED
  BY <1>1, <1>6, <1>8, <1>9, <1>10, StillStands DEF IInv

LEMMA DropTaskKeeps ==
  ASSUME Parameters, IInv, NEW t \in tasks, DropTask(t)
  PROVE  IInv'
<1>1. /\ tasks' = tasks \ {t} /\ Still /\ submitting' = submitting /\ fanout' = fanout
      /\ faults' = faults /\ recording' = recording
  BY DEF DropTask, Still
<1>2. TypeOK' /\ Counted' /\ Orderly'
  BY <1>1 DEF IInv, TypeOK, Counted, Orderly, Busy, Current, SettledCaseIsEvaluated, Still
<1>3. Calm' => Single'
  BY <1>1 DEF IInv, Calm, Single, Busy, Current, NoTask, RowLocked, Still
<1>4. QED
  BY <1>1, <1>2, <1>3, StillStands DEF IInv

-----------------------------------------------------------------------------
(* The checks                                                                *)

\* A worker that is done frees its check; the others keep theirs.
LEMMA StopFacts ==
  ASSUME Parameters, TypeOK, NEW w \in Workers, Stop(w)
  PROVE  /\ \A v \in Workers : Busy(v)' => v # w /\ Busy(v) /\ run'[v] = run[v]
         /\ run' \in [Workers -> [task : Task, case : CaseStatuses] \cup {Idle}]
BY DEF TypeOK, Stop, Busy

LEMMA StartCheckKeeps ==
  ASSUME Parameters, IInv, NEW w \in Workers, NEW t \in tasks, StartCheck(w, t)
  PROVE  IInv'
<1>1. /\ run[w] = Idle /\ t.submit = submits /\ ~RowLocked(t.check) /\ ~submitting
      /\ run' = [run EXCEPT ![w] = [task |-> t, case |-> case]]
      /\ tasks' = tasks \ {t}
      /\ world' = world /\ case' = case /\ submits' = submits /\ check' = check
      /\ submitting' = submitting /\ fanout' = fanout /\ faults' = faults
      /\ recording' = recording /\ approvals' = approvals
  BY DEF StartCheck
<1>2. /\ run'[w] = [task |-> t, case |-> case]
      /\ \A v \in Workers : v # w => run'[v] = run[v]
  BY <1>1 DEF IInv, TypeOK
<1>3. /\ run'[w].task = t /\ run'[w].case = case
      /\ \A v \in Workers : Busy(v)' => v = w \/ (Busy(v) /\ run'[v] = run[v])
  BY <1>2 DEF Busy
<1>4. run' \in [Workers -> [task : Task, case : CaseStatuses] \cup {Idle}]
  BY <1>1 DEF IInv, TypeOK
<1>5. TypeOK'
  BY <1>1, <1>4 DEF IInv, TypeOK
<1>6. Counted'
  BY <1>1 DEF IInv, Counted
<1>7. \A v \in Workers : Busy(v) => run[v].task.check # t.check
  BY <1>1 DEF RowLocked, Busy
<1>8. Orderly'
  <2>1. \A v \in Workers : Busy(v)' =>
          /\ Current(run[v].task)'
          /\ case' = "checks_running" => run'[v].case = "checks_running"
    BY <1>1, <1>3 DEF IInv, Orderly, Current
  <2>2. \A u, v \in Workers : Busy(u)' /\ Busy(v)' /\ run'[u].task.check = run'[v].task.check => u = v
    BY <1>3, <1>7 DEF IInv, Orderly
  <2>3. QED
    BY <1>1, <2>1, <2>2 DEF IInv, Orderly, SettledCaseIsEvaluated
<1>9. ASSUME Calm' PROVE Single'
  <2>1. Single
    BY <1>1, <1>9 DEF Calm, IInv
  <2>2. Current(t) /\ t.check \in Checks /\ ~fanout /\ StillRunning(check[t.check])
    BY <1>1, <2>1, Types DEF Current, Single, NoTask, IInv
  <2>3. \A c \in Checks : c # t.check /\ ~RowLocked(c) => ~RowLocked(c)'
    BY <1>3 DEF RowLocked, Busy
  <2>4. \A u \in tasks' : Current(u)' => u.check # t.check /\ ~RowLocked(u.check)'
    BY <1>1, <2>1, <2>2, <2>3, Types DEF Single, Current, IInv
  <2>5. StillRunning(check["gov_registry"]) => t.check # "documents_complete"
    BY <2>1, <2>2 DEF Single, NoTask
  <2>6. StillRunning(check["gov_registry"]) =>
          NoTask("documents_complete")' /\ ~RowLocked("documents_complete")'
    BY <1>1, <2>1, <2>3, <2>5 DEF Single, NoTask, Current, Checks
  <2>7. \A v \in Workers : Busy(v)' => StillRunning(check[run'[v].task.check])
    BY <1>3, <2>1, <2>2 DEF Single
  <2>8. QED
    BY <1>1, <2>1, <2>2, <2>4, <2>6, <2>7 DEF Single, Current
<1>10. DecisionStands'
  BY <1>1 DEF IInv, DecisionStands
<1>11. QED
  BY <1>5, <1>6, <1>8, <1>9, <1>10 DEF IInv

\* A worker that is done with its task, whatever it evaluates.
LEMMA DoneKeeps ==
  ASSUME Parameters, IInv, NEW w \in Workers, Busy(w), Stop(w),
         NEW k \in [Checks -> Check],
         \/ Evaluate(case, k)
         \/ Evaluate(run[w].case, k) /\ world.raises
         \/ Record(k) /\ \E c \in Checks : StillRunning(k[c])
         \/ Record(k) /\ k = check,
         \A t \in tasks' : t \in Task /\ t.submit <= submits,
         faults' = faults \/ FaultHappens,
         world' = world, submits' = submits, submitting' = submitting, fanout' = fanout,
         recording' = recording
  PROVE  TypeOK' /\ Counted' /\ Orderly' /\ DecisionStands'
<1>1. /\ \A v \in Workers : Busy(v)' => v # w /\ Busy(v) /\ run'[v] = run[v]
      /\ run' \in [Workers -> [task : Task, case : CaseStatuses] \cup {Idle}]
  BY StopFacts DEF IInv
<1>2. ~submitting /\ submits # 0
  BY Types DEF IInv, Orderly, Current
<1>3. /\ run[w].case \in CaseStatuses /\ case \in CaseStatuses /\ approvals \in 0..2
      /\ case = "checks_running" => run[w].case = "checks_running"
  BY Types DEF IInv, Orderly, TypeOK
<1>4. /\ check' = k /\ case' \in CaseStatuses /\ approvals' \in 0..2
      /\ case' = "checks_running" => case = "checks_running"
  BY <1>3, EvaluateFacts DEF Record
<1>5. ~world.records /\ case' = "checks_running" => \E c \in Checks : StillRunning(k[c])
  BY <1>3, EvaluateFacts DEF Record, IInv, Orderly, SettledCaseIsEvaluated
<1>6. faults' \in 0..MaxFaults /\ faults' <= faults
  BY FaultTypes DEF IInv
<1>7. TypeOK'
  BY <1>1, <1>4, <1>6 DEF IInv, TypeOK
<1>8. Counted'
  BY <1>2, <1>6, Types DEF IInv, Counted
<1>9. Orderly'
  BY <1>1, <1>2, <1>4, <1>5 DEF IInv, Orderly, Current, SettledCaseIsEvaluated
<1>10. DecisionStands'
  <2>1. CASE Evaluate(case, k)
    BY <1>3, <2>1, EvaluateFacts DEF IInv, DecisionStands, Once
  <2>2. CASE Record(k)
    BY <2>2 DEF Record, IInv, DecisionStands
  <2>3. QED
    BY <2>1, <2>2 DEF DecisionStands
<1>11. QED
  BY <1>7, <1>8, <1>9, <1>10

\* Under Calm, what the worker at work on a check can rely on.
LEMMA CalmWorker ==
  ASSUME Parameters, IInv, NEW w \in Workers, Busy(w), Calm
  PROVE  /\ Single /\ ~FaultHappens /\ ~fanout
         /\ case = "checks_running"
         /\ \A t \in tasks : Current(t) => t.check # run[w].task.check
         /\ RowLocked(run[w].task.check)
<1>1. Single /\ ~FaultHappens
  BY Types, FaultTypes DEF IInv, Calm, Counted
<1>2. RowLocked(run[w].task.check) /\ run[w].task.check \in Checks
  BY Types DEF RowLocked, Busy, IInv
<1>3. case = "checks_running"
  BY <1>1, <1>2 DEF Single
<1>4. QED
  BY <1>1, <1>2, <1>3 DEF Single, IInv, Orderly

\* A worker that settles its check, where nothing is lost, releases the
\* documents if they waited for it.
LEMMA CalmSettles ==
  ASSUME Parameters, IInv, NEW w \in Workers, Busy(w), Stop(w), Calm,
         NEW k \in [Checks -> Check],
         ~StillRunning(k[run[w].task.check]),
         \A c \in Checks \ {run[w].task.check} : k[c] = check[c],
         Evaluate(case, k),
         tasks' = tasks \cup Released(run[w].task.check, k),
         submits' = submits, fanout' = fanout
  PROVE  Single'
<1> DEFINE c == run[w].task.check
<1>1. /\ Single /\ ~fanout /\ RowLocked(c)
      /\ case = "checks_running"
      /\ \A t \in tasks : Current(t) => t.check # c
  BY CalmWorker
<1>2. c \in Checks /\ approvals \in 0..2 /\ case \in CaseStatuses /\ submits # 0
  BY Types DEF IInv, TypeOK, Orderly, Current
<1>3. /\ check' = k
      /\ case' # "checks_running" => \A d \in Checks : ~StillRunning(k[d])
  BY <1>1, <1>2, EvaluateFacts
<1>4. \A v \in Workers : Busy(v)' =>
        v # w /\ Busy(v) /\ run'[v] = run[v] /\ run[v].task.check \in Checks \ {c}
  BY StopFacts, Types DEF IInv, Orderly
<1>5. \A d \in Checks : ~RowLocked(d) => d # c /\ k[d] = check[d] /\ ~RowLocked(d)'
  BY <1>1, <1>4 DEF RowLocked, Busy
<1>6. \A v \in Workers : Busy(v)' => StillRunning(k[run'[v].task.check])
  BY <1>1, <1>4 DEF Single
<1>7. \A t \in tasks : Current(t) => StillRunning(k[t.check]) /\ ~RowLocked(t.check)'
  BY <1>1, <1>5, Types DEF Single, IInv
<1>8. \A t \in Released(c, k) :
        /\ c = "gov_registry" /\ t = Fresh("documents_complete") /\ t.check = "documents_complete"
        /\ k["documents_complete"].status = "pending"
  BY <1>2, FreshType DEF Released, Checks, IInv
<1>9. "gov_registry" \in Checks /\ "documents_complete" \in Checks
  BY DEF Checks
<1>10. c = "gov_registry" =>
         /\ NoTask("documents_complete")
         /\ ~RowLocked("documents_complete")
         /\ ~RowLocked("documents_complete")'
         /\ (StillRunning(k["documents_complete"]) \/ Released(c, k) = {})
  <2>1. c = "gov_registry" => (NoTask("documents_complete") /\ ~RowLocked("documents_complete"))
    BY <1>1 DEF Single
  <2>2. k["documents_complete"].status = "pending" => StillRunning(k["documents_complete"])
    BY DEF StillRunning
  <2>3. QED
    BY <1>5, <1>9, <2>1, <2>2 DEF Released
<1>11. \A t \in tasks' : Current(t) => StillRunning(k[t.check]) /\ ~RowLocked(t.check)'
  BY <1>7, <1>8, <1>10
<1>12. \A t, u \in tasks' : Current(t) /\ Current(u) /\ t.check = u.check => t = u
  BY <1>1, <1>8, <1>10 DEF Single, NoTask
<1>13. StillRunning(k["gov_registry"]) =>
         /\ k["documents_complete"].status \in {"none", "pending"}
         /\ \A t \in tasks' : Current(t) => t.check # "documents_complete"
         /\ ~RowLocked("documents_complete")'
  <2> SUFFICES ASSUME StillRunning(k["gov_registry"])
               PROVE  /\ k["documents_complete"].status \in {"none", "pending"}
                      /\ \A t \in tasks' : Current(t) => t.check # "documents_complete"
                      /\ ~RowLocked("documents_complete")'
    OBVIOUS
  <2>1. c # "gov_registry" /\ StillRunning(check["gov_registry"])
    BY <1>9
  <2>2. tasks' = tasks
    BY <1>8, <2>1
  <2>3. QED
    BY <1>1, <1>5, <1>9, <2>1, <2>2 DEF Single, NoTask
<1> HIDE DEF c
<1>14. \A t : Current(t)' <=> Current(t)
  BY DEF Current
<1>15. /\ \A t \in tasks' : Current(t)' => StillRunning(check'[t.check]) /\ ~RowLocked(t.check)'
       /\ \A t, u \in tasks' : Current(t)' /\ Current(u)' /\ t.check = u.check => t = u
  BY <1>3, <1>11, <1>12, <1>14
<1>16. ~fanout'
  BY <1>1
<1>17. StillRunning(check'["gov_registry"]) =>
         /\ check'["documents_complete"].status \in {"none", "pending"}
         /\ NoTask("documents_complete")' /\ ~RowLocked("documents_complete")'
  BY <1>3, <1>13, <1>14 DEF NoTask
<1>18. QED
  BY <1>3, <1>6, <1>15, <1>16, <1>17 DEF Single

LEMMA AnswerKeeps ==
  ASSUME Parameters, IInv, NEW w \in Workers, NEW status \in {"passed", "failed"}, Answer(w, status)
  PROVE  IInv'
<1> DEFINE t == run[w].task
           k == [check EXCEPT ![t.check] = After(@, status)]
<1>1. /\ Busy(w) /\ Evaluate(case, k) /\ Stop(w)
      /\ \/ tasks' = tasks \cup Released(t.check, k) /\ faults' = faults
         \/ FaultHappens /\ (tasks' = tasks \/ tasks' = tasks \cup {t})
      /\ world' = world /\ submits' = submits /\ submitting' = submitting /\ fanout' = fanout
      /\ recording' = recording
  BY DEF Answer, Busy
<1>2. t \in Task /\ t.check \in Checks /\ t.submit = submits /\ submits # 0 /\ submits \in Nat
  BY <1>1, Types DEF IInv, Orderly, Current
<1>3. check \in [Checks -> Check] /\ check[t.check] \in Check
  BY <1>2 DEF IInv, TypeOK
<1>4. After(check[t.check], status) \in Check /\ ~StillRunning(After(check[t.check], status))
  BY <1>3, AfterType
<1>5. /\ k \in [Checks -> Check] /\ ~StillRunning(k[t.check])
      /\ \A c \in Checks \ {t.check} : k[c] = check[c]
  BY <1>2, <1>3, <1>4
<1>6. \A u \in Released(t.check, k) : u \in Task /\ u.submit = submits
  BY <1>2, FreshType DEF Released, Checks, IInv
<1> HIDE DEF k, t
<1>7. \A u \in tasks' : u \in Task /\ u.submit <= submits
  <2>1. \A u \in tasks : u \in Task /\ u.submit <= submits
    BY Types DEF IInv, Counted
  <2>2. QED
    BY <1>1, <1>2, <1>6, <2>1
<1>8. faults' = faults \/ FaultHappens
  BY <1>1
<1>9. TypeOK' /\ Counted' /\ Orderly' /\ DecisionStands'
  BY <1>1, <1>5, <1>7, <1>8, DoneKeeps
<1>10. ASSUME Calm' PROVE Single'
  <2>1. Calm
    BY <1>1, <1>10 DEF Calm
  <2>2. tasks' = tasks \cup Released(t.check, k)
    BY <1>1, <2>1, CalmWorker
  <2>3. QED
    BY <1>1, <1>5, <2>1, <2>2, CalmSettles DEF t
<1>11. QED
  BY <1>9, <1>10 DEF IInv

LEMMA NoAnswerKeeps ==
  ASSUME Parameters, IInv, NEW w \in Workers, NEW raised \in BOOLEAN, NoAnswer(w, raised)
  PROVE  IInv'
<1> DEFINE t == run[w].task
           k == [check EXCEPT ![t.check] = After(@, "unavailable")]
           final == Exhausted(check[t.check])
<1>1. /\ Busy(w) /\ Stop(w) /\ t.check = "gov_registry"
      /\ raised => world.raises
      /\ IF raised THEN FaultHappens ELSE faults' = faults
      /\ IF final THEN Evaluate(IF raised THEN run[w].case ELSE case, k) ELSE Record(k)
      /\ tasks' = tasks \cup (IF raised \/ ~final THEN Again(t) ELSE {})
                        \cup (IF final THEN Released(t.check, k) ELSE {})
      /\ world' = world /\ submits' = submits /\ submitting' = submitting /\ fanout' = fanout
      /\ recording' = recording
  BY DEF NoAnswer, Busy
<1>2. t \in Task /\ t.check \in Checks /\ t.submit = submits /\ submits # 0 /\ submits \in Nat
  BY <1>1, Types DEF IInv, Orderly, Current
<1>3. check \in [Checks -> Check] /\ check[t.check] \in Check
  BY <1>2 DEF IInv, TypeOK
<1>4. /\ After(check[t.check], "unavailable") \in Check
      /\ final => ~StillRunning(After(check[t.check], "unavailable"))
      /\ ~final => StillRunning(After(check[t.check], "unavailable"))
  BY <1>3, AfterType
<1>5. /\ k \in [Checks -> Check]
      /\ final => ~StillRunning(k[t.check])
      /\ ~final => StillRunning(k[t.check])
      /\ \A c \in Checks \ {t.check} : k[c] = check[c]
  BY <1>2, <1>3, <1>4
<1>6. \A u \in Released(t.check, k) : u \in Task /\ u.submit = submits
  BY <1>2, FreshType DEF Released, Checks, IInv
<1>7. \A u \in Again(t) : u \in Task /\ u.check = t.check /\ u.submit = submits
  BY <1>2, AgainType
<1> HIDE DEF k, t, final
<1>8. \A u \in tasks' : u \in Task /\ u.submit <= submits
  <2>1. \A u \in tasks : u \in Task /\ u.submit <= submits
    BY Types DEF IInv, Counted
  <2>2. QED
    BY <1>1, <1>2, <1>6, <1>7, <2>1
<1>9. faults' = faults \/ FaultHappens
  BY <1>1
<1>10. \/ Evaluate(case, k)
       \/ Evaluate(run[w].case, k) /\ world.raises
       \/ Record(k) /\ \E c \in Checks : StillRunning(k[c])
  BY <1>1, <1>2, <1>5
<1>11. TypeOK' /\ Counted' /\ Orderly' /\ DecisionStands'
  BY <1>1, <1>5, <1>8, <1>9, <1>10, DoneKeeps
<1>12. ASSUME Calm' PROVE Single'
  <2>1. Calm
    BY <1>1, <1>12 DEF Calm
  <2>2. /\ Single /\ ~FaultHappens /\ ~fanout /\ RowLocked(t.check)
        /\ case = "checks_running"
        /\ \A u \in tasks : Current(u) => u.check # t.check
    BY <1>1, <2>1, CalmWorker DEF t
  <2>3. ~raised
    BY <1>1, <2>2
  <2>4. ASSUME final PROVE Single'
    <3>1. tasks' = tasks \cup Released(t.check, k) /\ Evaluate(case, k)
      BY <1>1, <2>3, <2>4
    <3>2. QED
      BY <1>1, <1>5, <2>1, <2>4, <3>1, CalmSettles DEF t
  <2>5. ASSUME ~final PROVE Single'
    <3>1. tasks' = tasks \cup Again(t) /\ check' = k /\ case' = case
      BY <1>1, <2>3, <2>5 DEF Record
    <3>2. \A v \in Workers : Busy(v)' =>
            v # w /\ Busy(v) /\ run'[v] = run[v] /\ run[v].task.check \in Checks \ {t.check}
      BY <1>1, StopFacts, Types DEF IInv, Orderly, t
    <3>3. \A d \in Checks : ~RowLocked(d) => d # t.check /\ k[d] = check[d] /\ ~RowLocked(d)'
      BY <1>5, <2>2, <3>2 DEF RowLocked, Busy
    <3>4. ~RowLocked("gov_registry")'
      BY <1>1, <3>2 DEF RowLocked, Busy
    <3>5. \A v \in Workers : Busy(v)' => StillRunning(k[run'[v].task.check])
      BY <1>5, <2>2, <3>2 DEF Single
    <3>6. \A u : Current(u)' <=> Current(u)
      BY <1>1 DEF Current
    <3>7. \A u \in tasks' : Current(u) => StillRunning(k[u.check]) /\ ~RowLocked(u.check)'
      BY <1>1, <1>5, <1>7, <2>2, <2>5, <3>1, <3>3, <3>4, Types DEF Single, IInv
    <3>8. \A u, v \in tasks' : Current(u) /\ Current(v) /\ u.check = v.check => u = v
      BY <1>7, <2>2, <3>1, AgainOne DEF Single
    <3>9. /\ k["documents_complete"].status \in {"none", "pending"}
          /\ \A u \in tasks' : Current(u) => u.check # "documents_complete"
          /\ ~RowLocked("documents_complete")'
      <4>1. StillRunning(check["gov_registry"]) /\ "documents_complete" \in Checks
        BY <1>1, <2>2 DEF Single, Checks, t
      <4>2. QED
        BY <1>1, <1>7, <2>2, <3>1, <3>3, <4>1 DEF Single, NoTask
    <3>10. QED
      BY <1>1, <2>2, <3>1, <3>5, <3>6, <3>7, <3>8, <3>9 DEF Single, NoTask
  <2>6. QED
    BY <2>4, <2>5
<1>13. QED
  BY <1>11, <1>12 DEF IInv

LEMMA AbortedKeeps ==
  ASSUME Parameters, IInv, NEW w \in Workers, Aborted(w)
  PROVE  IInv'
<1> DEFINE t == run[w].task
<1>1. /\ FaultHappens /\ Busy(w) /\ Stop(w)
      /\ tasks' = tasks \cup Again(t) \/ tasks' = tasks \cup {t}
      /\ world' = world /\ case' = case /\ submits' = submits /\ check' = check
      /\ submitting' = submitting /\ fanout' = fanout /\ recording' = recording
      /\ approvals' = approvals
  BY DEF Aborted, Busy
<1>2. t \in Task /\ t.submit = submits /\ submits \in Nat
  BY <1>1, Types DEF IInv, Orderly, Current
<1>3. \A u \in tasks' : u \in Task /\ u.submit <= submits
  <2>1. \A u \in tasks : u \in Task /\ u.submit <= submits
    BY Types DEF IInv, Counted
  <2>2. \A u \in Again(t) : u \in Task /\ u.submit = submits
    BY <1>2, AgainType
  <2>3. QED
    BY <1>1, <1>2, <2>1, <2>2
<1>4. check \in [Checks -> Check] /\ Record(check)
  BY <1>1 DEF IInv, TypeOK, Record
<1>5. TypeOK' /\ Counted' /\ Orderly' /\ DecisionStands'
  BY <1>1, <1>3, <1>4, DoneKeeps
<1>6. ~Calm'
  BY <1>1, Types, FaultTypes DEF IInv, Calm, Counted
<1>7. QED
  BY <1>5, <1>6 DEF IInv

-----------------------------------------------------------------------------
(* Staff                                                                     *)

\* An evaluation by staff, of the case or of an older copy of it.
LEMMA StaffKeeps ==
  ASSUME Parameters, IInv, NEW seen \in CaseStatuses, NEW k \in [Checks -> Check],
         Evaluate(seen, k), world.records \/ (world.waives /\ seen = case),
         ~submitting, submits # 0, recording' \in CaseStatuses \cup {"none"},
         recording' # "none" => world.records,
         world' = world, submits' = submits, submitting' = submitting, fanout' = fanout,
         tasks' = tasks, run' = run, faults' = faults
  PROVE  IInv'
<1>1. /\ check' = k /\ case' \in CaseStatuses /\ approvals' \in 0..2
      /\ case' = "checks_running" =>
           case = "checks_running" /\ (seen = case => \E c \in Checks : StillRunning(k[c]))
      /\ seen = case /\ Once => Once'
  BY EvaluateFacts DEF IInv, TypeOK
<1>2. TypeOK'
  BY <1>1 DEF IInv, TypeOK
<1>3. Counted'
  BY DEF IInv, Counted
<1>4. Orderly'
  BY <1>1 DEF IInv, Orderly, Busy, Current, SettledCaseIsEvaluated
<1>5. DecisionStands'
  BY <1>1 DEF IInv, DecisionStands, Once
<1>6. QED
  BY <1>2, <1>3, <1>4, <1>5 DEF IInv, Calm

LEMMA WaiveKeeps ==
  ASSUME Parameters, IInv, NEW c \in Checks, Waive(c)
  PROVE  IInv'
<1> DEFINE k == [check EXCEPT ![c].status = "waived"]
<1>1. /\ world.waives /\ submits # 0 /\ ~submitting /\ Evaluate(case, k)
      /\ world' = world /\ submits' = submits /\ submitting' = submitting /\ fanout' = fanout
      /\ tasks' = tasks /\ run' = run /\ faults' = faults /\ recording' = recording
  BY Types DEF Waive, IInv
<1>2. case \in CaseStatuses /\ recording \in CaseStatuses \cup {"none"} /\ check \in [Checks -> Check]
  BY DEF IInv, TypeOK
<1>3. k \in [Checks -> Check]
  BY <1>2 DEF Check
<1> HIDE DEF k
<1>4. QED
  BY <1>1, <1>2, <1>3, StaffKeeps DEF IInv, Counted

LEMMA BeginRecordingKeeps ==
  ASSUME Parameters, IInv, BeginRecording
  PROVE  IInv'
<1>1. /\ world.records /\ submits # 0 /\ recording' = case
      /\ submitting' = submitting /\ fanout' = fanout /\ tasks' = tasks /\ faults' = faults /\ Still
  BY Types DEF BeginRecording, Still, IInv
<1>2. TypeOK'
  BY <1>1 DEF IInv, TypeOK, Still
<1>3. Counted' /\ Orderly'
  BY <1>1 DEF IInv, Counted, Orderly, Busy, Current, SettledCaseIsEvaluated, Still
<1>4. QED
  BY <1>1, <1>2, <1>3, StillStands DEF IInv, Calm, Still

LEMMA FinishRecordingKeeps ==
  ASSUME Parameters, IInv, NEW status \in {"passed", "failed"}, FinishRecording(status)
  PROVE  IInv'
<1> DEFINE k == [check EXCEPT !["gov_registry"] = After(@, status)]
<1>1. /\ recording # "none" /\ ~submitting /\ Evaluate(recording, k) /\ recording' = "none"
      /\ world' = world /\ submits' = submits /\ submitting' = submitting /\ fanout' = fanout
      /\ tasks' = tasks /\ run' = run /\ faults' = faults
  BY DEF FinishRecording
<1>2. recording \in CaseStatuses /\ check \in [Checks -> Check] /\ world.records /\ submits # 0
  BY <1>1 DEF IInv, TypeOK, Counted
<1>3. After(check["gov_registry"], status) \in Check
  BY <1>2, AfterType DEF Checks
<1>4. k \in [Checks -> Check]
  BY <1>2, <1>3
<1> HIDE DEF k
<1>5. QED
  BY <1>1, <1>2, <1>4, StaffKeeps

LEMMA DecideKeeps ==
  ASSUME Parameters, IInv, NEW decision \in CaseStatuses, Decide(decision)
  PROVE  IInv'
<1>1. /\ case = "pending_review" /\ decision \in {"approved", "rejected", "needs_info"}
      /\ case' = decision
      /\ approvals' = IF decision = "approved" THEN OneMore(approvals) ELSE approvals
      /\ world' = world /\ submits' = submits /\ check' = check /\ submitting' = submitting
      /\ fanout' = fanout /\ tasks' = tasks /\ run' = run /\ faults' = faults
      /\ recording' = recording
  BY DEF Decide, MayDecide, Decided
<1>2. OneMore(approvals) \in 0..2 /\ OneMore(0) = 1
  BY Types DEF OneMore, IInv
<1>3. TypeOK'
  BY <1>1, <1>2 DEF IInv, TypeOK
<1>4. ~submitting
  BY <1>1 DEF IInv, Counted
<1>5. Counted' /\ Orderly'
  BY <1>1, <1>4 DEF IInv, Counted, Orderly, Busy, Current, SettledCaseIsEvaluated
<1>6. ASSUME Calm' PROVE Single'
  <2>1. Single
    BY <1>1, <1>6 DEF Calm, IInv
  <2>2. \A c \in Checks : ~StillRunning(check[c])
    BY <1>1, <2>1 DEF Single
  <2>3. QED
    BY <1>1, <2>1, <2>2 DEF Single, Busy, Current, NoTask, RowLocked, Checks
<1>7. DecisionStands'
  BY <1>1, <1>2 DEF IInv, DecisionStands
<1>8. QED
  BY <1>3, <1>5, <1>6, <1>7 DEF IInv

-----------------------------------------------------------------------------
(* The theorems                                                              *)

LEMMA StepKeeps == Parameters /\ IInv /\ [Next]_vars => IInv'
<1> SUFFICES ASSUME Parameters, IInv, [Next]_vars PROVE IInv'
  OBVIOUS
<1>1. CASE BeginSubmit
  BY <1>1, BeginSubmitKeeps
<1>2. CASE CommitSubmit
  BY <1>2, CommitSubmitKeeps
<1>3. CASE SubmitFails
  BY <1>3, SubmitFailsKeeps
<1>4. CASE FanOut
  BY <1>4, FanOutKeeps
<1>5. CASE \E t \in tasks : DropTask(t)
  BY <1>5, DropTaskKeeps
<1>6. CASE \E w \in Workers : \E t \in tasks : StartCheck(w, t)
  BY <1>6, StartCheckKeeps
<1>7. CASE \E w \in Workers : \E status \in {"passed", "failed"} : Answer(w, status)
  BY <1>7, AnswerKeeps
<1>8. CASE \E w \in Workers : \E raised \in BOOLEAN : NoAnswer(w, raised)
  BY <1>8, NoAnswerKeeps
<1>9. CASE \E w \in Workers : Aborted(w)
  BY <1>9, AbortedKeeps
<1>10. CASE \E c \in Checks : Waive(c)
  BY <1>10, WaiveKeeps
<1>11. CASE BeginRecording
  BY <1>11, BeginRecordingKeeps
<1>12. CASE \E status \in {"passed", "failed"} : FinishRecording(status)
  BY <1>12, FinishRecordingKeeps
<1>13. CASE \E decision \in CaseStatuses : Decide(decision)
  BY <1>13, DecideKeeps
<1>14. CASE UNCHANGED vars
  BY <1>14 DEF vars, IInv, TypeOK, Counted, Orderly, Calm, Single, Busy, Current, NoTask,
               RowLocked, SettledCaseIsEvaluated, DecisionStands
<1>15. QED
  BY <1>1, <1>2, <1>3, <1>4, <1>5, <1>6, <1>7, <1>8, <1>9, <1>10, <1>11, <1>12, <1>13, <1>14
     DEF Next, Works

LEMMA Invariant == ASSUME Parameters PROVE Spec => []IInv
<1>1. Init => IInv
  BY InitKeeps
<1>2. IInv /\ [Next]_vars => IInv'
  BY StepKeeps
<1>3. QED
  BY <1>1, <1>2, PTL DEF Spec

\* Every variable keeps its type: no check, task or copy of the case is ever
\* outside what the columns and the queue can hold (models.py).
THEOREM TypeCorrect == ASSUME Parameters PROVE Spec => []TypeOK
BY Invariant, PTL DEF IInv

\* on_check_completed under its row lock: no case is left running with every
\* check settled, however many workers, faults and retries there are.
THEOREM EveryCaseIsEvaluated == ASSUME Parameters PROVE Spec => []SettledCaseIsEvaluated
<1>1. IInv => SettledCaseIsEvaluated
  BY DEF IInv, Orderly
<1>2. QED
  BY <1>1, Invariant, PTL

\* run_verification_checks and _release_deferred_documents: the documents are
\* judged with the registry's verdict at hand.
THEOREM RegistryComesFirst == ASSUME Parameters PROVE Spec => []DocumentsAwaitTheRegistry
<1>1. IInv => DocumentsAwaitTheRegistry
  BY DEF IInv, Calm, Single, DocumentsAwaitTheRegistry
<1>2. QED
  BY <1>1, Invariant, PTL

\* _claim_pending_review and on_check_completed: a case is approved once, and
\* the decision is not undone by a waiver or by a task that was still at work,
\* repeated or redelivered, where no exception and no hand-recorded registry
\* check keeps an older copy of the case.
THEOREM DecidedOnce == ASSUME Parameters PROVE Spec => []DecisionStands
<1>1. IInv => DecisionStands
  BY DEF IInv
<1>2. QED
  BY <1>1, Invariant, PTL

=============================================================================
