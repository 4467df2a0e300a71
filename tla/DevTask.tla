------------------------------- MODULE DevTask -------------------------------
(***************************************************************************)
(* One development task from the workflow that implements it to the        *)
(* founder's decision and the CI/CD pipeline: DevelopmentService.          *)
(* run_workflow, QualityGateService.evaluate, ApprovalService.decide and   *)
(* PipelineService.run, called by API requests and by the durable jobs     *)
(* "development_workflow" and "devops_pipeline".                           *)
(*                                                                         *)
(* A request or a handler is one READ COMMITTED transaction: a step that   *)
(* reads and checks, and a step that commits what was decided from it.     *)
(* Other transactions commit in between.  The statuses planning ...        *)
(* documenting are only flushed, never committed, so nobody sees them.     *)
(*                                                                         *)
(* Each run of the workflow writes a fresh sandbox: "version v" is the     *)
(* code of the v-th.  What the gates look at is abstracted to a grade.     *)
(* The jobs are what JobQueue promises of them: executed until an outcome  *)
(* is recorded, again after a crash, failed after max_attempts errors, and *)
(* under the control of anybody who cancels, pauses, resumes or retries.   *)
(***************************************************************************)
EXTENDS Naturals, Sequences, FiniteSets

CONSTANTS
  Clients,          \* API requests in flight
  Worker,           \* the job worker
  MadeGrades,       \* bound: how good generated code may be
  EnabledRules,     \* the quality rules that are not switched off
  RestartWaits,     \* TRUE: the backend comes up only once the heartbeats that
                    \* it left behind are out of the window
  MaxAttempts,      \* max_attempts of a job
  MaxRuns, MaxDecisions, MaxEvaluations, MaxPipelines,   \* bounds
  MaxControls, MaxCrashes

Procs == Clients \union {Worker}
Versions == 1..MaxRuns
NoVersion == 0

Grades == {"good", "failing", "critical"}   \* its tests fail; a finding is critical

\* Of the mandatory gates those that a grade decides: tests_passed;
\* security_critical and performance_critical.
Rules == {"tests", "critical"}

ASSUME ProcsAssumption == IsFiniteSet(Clients) /\ Worker \notin Clients
ASSUME RulesAssumption == EnabledRules \subseteq Rules
ASSUME GradesAssumption == MadeGrades \subseteq Grades
ASSUME RestartAssumption == RestartWaits \in BOOLEAN
ASSUME BoundsAssumption ==
  {MaxAttempts, MaxRuns, MaxDecisions, MaxEvaluations, MaxPipelines,
   MaxControls, MaxCrashes} \subseteq Nat

VARIABLES
  status,     \* task row: status
  code,       \* task row: the version at sandbox_path
  grade,      \* GeneratedChange rows, by version: how good the code is
  tested,     \* versions with TestRun rows
  gates,      \* QualityGateRun rows
  prs,        \* PullRequest rows, by version: status
  jobs,       \* job rows, by kind: status
  attempts,   \* job rows, by kind: attempts
  pipelines,  \* PipelineRun rows, in the order of their commits
  tx,         \* transactions in flight
  runs, begun, decisions, controls, crashes,   \* counters (sandboxes made,
                                               \* stamps given)
  approved,   \* history: versions approved while they waited for approval
  unasked,    \* history: versions approved at another status
  overtaken,  \* history: versions made approved by a decision on another one
  reworks,    \* history: times the task was sent back
  overlaps,   \* history: runs begun while another was in flight
  mixed,      \* history: a run and an evaluation were in flight together
  owed        \* history: the task became approved, no pipeline since

row     == <<status, code>>
work    == <<grade, tested, prs, runs>>
counts  == <<decisions, controls, crashes>>
decided == <<approved, unasked, overtaken>>
raced   == <<overlaps, mixed>>
vars == <<row, work, gates, jobs, attempts, pipelines, tx, begun, counts,
          decided, reworks, raced, owed>>

Statuses == {"queued", "pr_ready", "approved", "rejected", "changes_requested",
             "failed"}
Verdicts == {"approved", "rejected", "changes_requested"}
\* Mutant: a task that has a pull request may be run again.
RunnableOnceMore == {"queued", "changes_requested", "pr_ready"}
Runnable == {"queued", "changes_requested"}
Kinds == {"development", "pipeline"}

\* The control operations on a job: the statuses each accepts, what it writes.
Controls == {"cancel", "pause", "resume", "retry"}
Accepts  == [cancel |-> {"queued", "running", "paused"}, pause |-> {"queued"},
             resume |-> {"paused"}, retry |-> {"failed", "cancelled"}]
Writes   == [cancel |-> "cancelled", pause |-> "paused",
             resume |-> "queued", retry |-> "queued"]

Idle == [op |-> "idle"]

\* The versions whose GeneratedChange rows are in the table.
Changed(g) == {v \in DOMAIN g : g[v] # "none"}

\* gate_for_task: the newest by created_at, which is the start of the
\* transaction that inserted it.
Latest == {g \in gates : \A h \in gates : h.stamp <= g.stamp}

Init ==
  /\ status = "queued" /\ code = NoVersion
  /\ grade = [v \in Versions |-> "none"] /\ tested = {}
  /\ gates = {} /\ prs = [v \in Versions |-> "none"]
  /\ jobs = [k \in Kinds |-> "none"] /\ attempts = [k \in Kinds |-> 0]
  /\ pipelines = <<>>
  /\ tx = [p \in Procs |-> Idle]
  /\ runs = 0 /\ begun = 0 /\ decisions = 0 /\ controls = 0 /\ crashes = 0
  /\ approved = {} /\ unasked = {} /\ overtaken = {} /\ reworks = 0
  /\ overlaps = 0 /\ mixed = FALSE /\ owed = FALSE

Doing(op)    == {p \in Procs : tx[p].op = op}
InFlight(op) == Cardinality(Doing(op))

-----------------------------------------------------------------------------
(* The quality gate *)

\* Mutant: critical findings are counted and not looked at.
GateLenient(g, changes, t, stamp) ==
  [judged   |-> changes,
   critical |-> \E v \in changes : g[v] = "critical",
   eligible |-> t # NoVersion /\ ("tests" \in EnabledRules => g[t] # "failing"),
   stamp    |-> stamp]

\* All GeneratedChange rows of the task are judged, those of earlier runs
\* included; the tests looked at are those of one unit run, t, of any age.
\* Without one the task has no documentation either and is not eligible.  A
\* rule that is switched off is passed; the findings are counted all the same.
Gate(g, changes, t, stamp) ==
  [judged   |-> changes,
   critical |-> \E v \in changes : g[v] = "critical",
   eligible |-> /\ t # NoVersion /\ ("tests" \in EnabledRules => g[t] # "failing")
                /\ "critical" \in EnabledRules => \A v \in changes : g[v] # "critical",
   stamp    |-> stamp]

\* The unit TestRun that evaluate's unordered SELECT may return first.
UnitRun(ts) == IF ts = {} THEN {NoVersion} ELSE ts

\* Replace the gate rows that were read.
Replaced(priors, gate) == (gates \ priors) \union {gate}

\* POST /quality/tasks/{id}/evaluate.
EvaluateRead(c) ==
  /\ tx[c] = Idle
  /\ begun < MaxRuns + MaxEvaluations /\ InFlight("evaluate") < MaxEvaluations
  /\ begun' = begun + 1
  /\ \E t \in UnitRun(tested) :
       tx' = [tx EXCEPT ![c] = [op |-> "evaluate", priors |-> gates,
                                gate |-> Gate(grade, Changed(grade), t, begun)]]
  /\ mixed' = (mixed \/ Doing("run") # {})
  /\ UNCHANGED <<row, work, gates, jobs, attempts, pipelines, counts, decided,
                 reworks, overlaps, owed>>

EvaluateCommit(c) ==
  /\ tx[c].op = "evaluate"
  /\ gates' = Replaced(tx[c].priors, tx[c].gate)
  /\ tx' = [tx EXCEPT ![c] = Idle]
  /\ UNCHANGED <<row, work, jobs, attempts, pipelines, begun, counts, decided,
                 reworks, raced, owed>>

-----------------------------------------------------------------------------
(* The workflow *)

\* run_workflow looks at the status, then flushes it, which locks the row: a
\* second run that has passed the guard waits for the commit of the first.
MayRun(p) == tx[p] = Idle /\ runs + InFlight("run") < MaxRuns

BeginRun(p) ==
  /\ status \in Runnable
  /\ tx' = [tx EXCEPT ![p] = [op |-> "run", stamp |-> begun]]
  /\ begun' = begun + 1
  /\ overlaps' = IF Doing("run") = {} THEN overlaps ELSE overlaps + 1
  /\ mixed' = (mixed \/ Doing("evaluate") # {})

\* POST /run.
RequestRun(c) ==
  /\ MayRun(c)
  /\ BeginRun(c)
  /\ UNCHANGED <<row, work, gates, jobs, attempts, pipelines, counts, decided,
                 reworks, owed>>

\* POST /run-async, and the project_execution job: the key is permanent, so
\* an existing job of any status is the answer.
RequestRunAsync ==
  /\ jobs' = [jobs EXCEPT !["development"] = IF @ = "none" THEN "queued" ELSE @]
  /\ UNCHANGED <<row, work, gates, attempts, pipelines, tx, begun, counts, decided,
                 reworks, raced, owed>>

\* How a run ends: what it leaves behind, and the task's status.  The first
\* four are exceptions, which run_workflow catches: no intent, no generated
\* code, changes that cannot be applied, a pull request that cannot be made.
Kept == [unresolved  |-> {},
         ungenerated |-> {"sandbox"},
         unapplied   |-> {"sandbox", "changes"},
         unpublished |-> {"sandbox", "changes", "tests", "gate"},
         unverified  |-> {"sandbox", "changes", "tests", "gate"},
         ready       |-> {"sandbox", "changes", "tests", "gate", "pr"}]
\* Mutant: the exception handler does not reset the status.
EndStuck(outcome) == CASE outcome = "ready" -> "pr_ready"
                       [] outcome = "unverified" -> "changes_requested"
                       [] OTHER -> "documenting"
End(outcome) == CASE outcome = "ready" -> "pr_ready"
                  [] outcome = "unverified" -> "changes_requested"
                  [] OTHER -> "failed"

Finished(p, kind) == IF p = Worker THEN [jobs EXCEPT ![kind] = "completed"] ELSE jobs

RunCommit(p, outcome) ==
  LET v == runs + 1
      kept == Kept[outcome] IN
  /\ tx[p].op = "run"
  /\ status' = End(outcome)
  /\ IF "sandbox" \in kept THEN code' = v /\ runs' = v ELSE UNCHANGED <<code, runs>>
  /\ IF "changes" \in kept
       THEN \E g \in MadeGrades : grade' = [grade EXCEPT ![v] = g]
       ELSE UNCHANGED grade
  /\ tested' = IF "tests" \in kept THEN tested \union {v} ELSE tested
  /\ IF "gate" \in kept
       THEN \E t \in tested' :
              gates' = Replaced(gates, Gate(grade', Changed(grade'), t, tx[p].stamp))
       ELSE UNCHANGED gates
  /\ prs' = IF "pr" \in kept THEN [prs EXCEPT ![v] = "draft"] ELSE prs
  /\ reworks' = IF status' = "changes_requested" THEN reworks + 1 ELSE reworks
  /\ jobs' = Finished(p, "development")
  /\ tx' = [tx EXCEPT ![p] = Idle]
  /\ UNCHANGED <<attempts, pipelines, begun, counts, decided, raced, owed>>

-----------------------------------------------------------------------------
(* The founder's decision *)

\* Mutant: an override does without the gate.
PermitsUngated(verdict, override) ==
  verdict = "approved" => override \/ \E g \in Latest : g.eligible

\* An approval needs a gate row, and an eligible one or the override; the
\* status of the task is not looked at.
Permits(verdict, override) ==
  verdict = "approved" => \E g \in Latest : g.eligible \/ override

\* The unordered SELECT takes any pull request of the task.
PullRequests == {v \in Versions : prs[v] # "none"}
Picked == IF PullRequests = {} THEN {NoVersion} ELSE PullRequests

DecideRead(c, verdict, override) ==
  /\ tx[c] = Idle /\ decisions < MaxDecisions
  /\ Permits(verdict, override)
  /\ decisions' = decisions + 1
  /\ \E v \in Picked :
       tx' = [tx EXCEPT ![c] =
               [op |-> "decide", verdict |-> verdict, status |-> status, code |-> code,
                pr |-> v, prStatus |-> IF v = NoVersion THEN "none" ELSE prs[v],
                first |-> jobs["pipeline"] = "none"]]
  /\ UNCHANGED <<row, work, gates, jobs, attempts, pipelines, begun, controls,
                 crashes, decided, reworks, raced, owed>>

\* The mapper writes a column only where it differs from the loaded one.
Written(loaded, new, now) == IF loaded = new THEN now ELSE new

\* Mutant: the key is not unique.
KeyTakenNever(t) == FALSE

\* Two first approvals insert the same idempotency key: one is rolled back.
KeyTaken(t) == t.verdict = "approved" /\ t.first /\ jobs["pipeline"] # "none"

DecideCommit(c) ==
  LET t == tx[c] IN
  /\ t.op = "decide" /\ ~KeyTaken(t)
  /\ status' = Written(t.status, t.verdict, status)
  /\ prs' = [v \in Versions |->
               IF v = t.pr THEN Written(t.prStatus, t.verdict, prs[v]) ELSE prs[v]]
  /\ jobs' = [jobs EXCEPT !["pipeline"] =
                IF t.verdict = "approved" /\ t.first THEN "queued" ELSE @]
  /\ owed' = (owed \/ (status' = "approved" /\ status # "approved"))
  /\ LET yes == IF t.verdict = "approved" THEN {t.code} ELSE {}
         asked == t.status = "pr_ready" IN
       /\ approved' = IF asked THEN approved \union yes ELSE approved
       /\ unasked' = IF asked THEN unasked ELSE unasked \union yes
       /\ overtaken' = IF yes \subseteq {code} THEN overtaken ELSE overtaken \union {code}
  /\ reworks' = IF status' = "changes_requested" /\ status # status'
                  THEN reworks + 1 ELSE reworks
  /\ tx' = [tx EXCEPT ![c] = Idle]
  /\ UNCHANGED <<code, grade, tested, runs, gates, attempts, pipelines, begun,
                 counts, raced>>

DecideConflict(c) ==
  /\ tx[c].op = "decide" /\ KeyTaken(tx[c])
  /\ tx' = [tx EXCEPT ![c] = Idle]
  /\ UNCHANGED <<row, work, gates, jobs, attempts, pipelines, begun, counts, decided,
                 reworks, raced, owed>>

-----------------------------------------------------------------------------
(* The pipeline *)

\* Mutant: a task whose pull request is open will do.
BeginPipelineEarly(p) ==
  /\ status \in {"approved", "pr_ready"}
  /\ tx' = [tx EXCEPT ![p] = [op |-> "pipeline", code |-> code, count |-> Len(pipelines)]]

\* PipelineService.run keeps the row it has loaded, its sandbox_path included,
\* and numbers its PipelineRun by counting those that are there.
BeginPipeline(p) ==
  /\ status = "approved"
  /\ tx' = [tx EXCEPT ![p] = [op |-> "pipeline", code |-> code, count |-> Len(pipelines)]]

\* POST /devops/pipelines/run.
RequestPipeline(c) ==
  /\ tx[c] = Idle
  /\ Len(pipelines) + InFlight("pipeline") < MaxPipelines
  /\ BeginPipeline(c)
  /\ UNCHANGED <<row, work, gates, jobs, attempts, pipelines, begun, counts, decided,
                 reworks, raced, owed>>

\* Any stage may fail: build, tests, staging.  The security scan reuses the
\* gate of the moment and lets a task without one pass.  The tests catch a
\* failing version only if they lie in the root of the sandbox.
ScanPasses == \A g \in Latest : ~g.critical
Results(v) == {"failed"} \union
  IF v # NoVersion /\ ScanPasses THEN {"awaiting_production"} ELSE {}

PipelineCommit(p) ==
  /\ tx[p].op = "pipeline" /\ Len(pipelines) = tx[p].count
  /\ \E r \in Results(tx[p].code) :
       pipelines' = Append(pipelines, [code |-> tx[p].code, status |-> r])
  /\ owed' = FALSE
  /\ jobs' = Finished(p, "pipeline")
  /\ tx' = [tx EXCEPT ![p] = Idle]
  /\ UNCHANGED <<row, work, gates, attempts, begun, counts, decided, reworks, raced>>

\* The number is unique: of two overlapping pipelines the second waits for the
\* first one's commit and is refused; in a job, the handler raises.
PipelineConflict(p) ==
  /\ tx[p].op = "pipeline" /\ Len(pipelines) # tx[p].count
  /\ tx' = [tx EXCEPT ![p] = IF p = Worker THEN [op |-> "raised", kind |-> "pipeline"]
                                           ELSE Idle]
  /\ UNCHANGED <<row, work, gates, jobs, attempts, pipelines, begun, counts, decided,
                 reworks, raced, owed>>

-----------------------------------------------------------------------------
(* The worker *)

\* run_once claims the job and its handler's service looks at the task.
Claim(kind) ==
  /\ tx[Worker] = Idle /\ jobs[kind] = "queued"
  /\ jobs' = [jobs EXCEPT ![kind] = "running"]
  /\ attempts' = [attempts EXCEPT ![kind] = @ + 1]

ClaimRun ==
  /\ Claim("development") /\ MayRun(Worker)
  /\ BeginRun(Worker)
  /\ UNCHANGED <<row, work, gates, pipelines, counts, decided, reworks, owed>>

ClaimPipeline ==
  /\ Claim("pipeline")
  /\ BeginPipeline(Worker)
  /\ UNCHANGED <<row, work, gates, pipelines, begun, counts, decided, reworks, raced,
                 owed>>

\* The guard of the service, which raises.
Refuses(kind) == IF kind = "development" THEN status \notin Runnable
                                         ELSE status # "approved"

ClaimRefused(kind) ==
  /\ Claim(kind) /\ Refuses(kind)
  /\ tx' = [tx EXCEPT ![Worker] = [op |-> "raised", kind |-> kind]]
  /\ UNCHANGED <<row, work, gates, pipelines, begun, counts, decided, reworks, raced,
                 owed>>

\* run_once rolls back and loads the job again.
LoadFailed ==
  /\ tx[Worker].op = "raised"
  /\ LET kind == tx[Worker].kind IN
       tx' = [tx EXCEPT ![Worker] = [op |-> "failing", kind |-> kind, seen |-> jobs[kind],
                                     again |-> attempts[kind] < MaxAttempts]]
  /\ UNCHANGED <<row, work, gates, jobs, attempts, pipelines, begun, counts, decided,
                 reworks, raced, owed>>

\* fail() and the commit: tried again, up to max_attempts.
Fail ==
  LET t == tx[Worker] IN
  /\ t.op = "failing"
  /\ jobs' = [jobs EXCEPT ![t.kind] =
                Written(t.seen, IF t.again THEN "queued" ELSE "failed", @)]
  /\ tx' = [tx EXCEPT ![Worker] = Idle]
  /\ UNCHANGED <<row, work, gates, attempts, pipelines, begun, counts, decided, reworks,
                 raced, owed>>

-----------------------------------------------------------------------------
(* Control of the jobs, and restarts *)

\* POST /jobs/{id}/cancel, pause, resume, retry: the row is loaded and its
\* status accepted; what was decided from it is written at the end.
ControlLoad(c, control, kind) ==
  /\ tx[c] = Idle /\ controls < MaxControls
  /\ jobs[kind] \in Accepts[control]
  /\ controls' = controls + 1
  /\ tx' = [tx EXCEPT ![c] = [op |-> "control", control |-> control, kind |-> kind]]
  /\ UNCHANGED <<row, work, gates, jobs, attempts, pipelines, begun, decisions, crashes,
                 decided, reworks, raced, owed>>

ControlApply(c) ==
  /\ tx[c].op = "control"
  /\ jobs' = [jobs EXCEPT ![tx[c].kind] = Writes[tx[c].control]]
  /\ tx' = [tx EXCEPT ![c] = Idle]
  /\ UNCHANGED <<row, work, gates, attempts, pipelines, begun, counts, decided, reworks,
                 raced, owed>>

\* Mutant: the recovery finds no job to put back.
CrashLeavingJob ==
  /\ crashes < MaxCrashes
  /\ crashes' = crashes + 1
  /\ tx' = [p \in Procs |-> Idle]
  /\ UNCHANGED <<row, work, gates, jobs, attempts, pipelines, begun, decisions, controls,
                 decided, reworks, raced, owed>>

\* The backend, one process with the requests and the worker, dies: every open
\* transaction is rolled back.  When it comes up, and then only, recovery puts
\* back in line the running jobs whose last heartbeat is old enough.
Crash ==
  /\ crashes < MaxCrashes
  /\ crashes' = crashes + 1
  /\ tx' = [p \in Procs |-> Idle]
  /\ \E stale \in SUBSET {k \in Kinds : jobs[k] = "running"} :
       /\ RestartWaits => stale = {k \in Kinds : jobs[k] = "running"}
       /\ jobs' = [k \in Kinds |-> IF k \in stale THEN "queued" ELSE jobs[k]]
  /\ UNCHANGED <<row, work, gates, attempts, pipelines, begun, decisions, controls,
                 decided, reworks, raced, owed>>

-----------------------------------------------------------------------------
WorkerStep ==
  \/ ClaimRun \/ ClaimPipeline \/ \E kind \in Kinds : ClaimRefused(kind)
  \/ \E outcome \in DOMAIN Kept : RunCommit(Worker, outcome)
  \/ PipelineCommit(Worker) \/ PipelineConflict(Worker)
  \/ LoadFailed \/ Fail

ClientStep(c) ==
  \/ RequestRun(c) \/ \E outcome \in DOMAIN Kept : RunCommit(c, outcome)
  \/ EvaluateRead(c) \/ EvaluateCommit(c)
  \/ \E verdict \in Verdicts, override \in BOOLEAN : DecideRead(c, verdict, override)
  \/ DecideCommit(c) \/ DecideConflict(c)
  \/ RequestPipeline(c) \/ PipelineCommit(c) \/ PipelineConflict(c)
  \/ \E control \in Controls, kind \in Kinds : ControlLoad(c, control, kind)
  \/ ControlApply(c)

Next == WorkerStep \/ RequestRunAsync \/ Crash \/ \E c \in Clients : ClientStep(c)

\* The worker's loop polls for ever; nothing is assumed of requests.
Spec == Init /\ [][Next]_vars /\ WF_vars(WorkerStep)

-----------------------------------------------------------------------------
(* Properties *)

Gates == [judged : SUBSET Versions, critical : BOOLEAN, eligible : BOOLEAN, stamp : Nat]
PRStatuses == {"draft"} \union Verdicts
JobStatuses == {"none", "queued", "running", "paused", "completed", "failed", "cancelled"}
Pipelines == [code : Versions \union {NoVersion}, status : {"failed", "awaiting_production"}]
Transactions ==
  {Idle} \union [op : {"run"}, stamp : Nat]
         \union [op : {"evaluate"}, priors : SUBSET Gates, gate : Gates]
         \union [op : {"decide"}, verdict : Verdicts, status : Statuses,
                 code : Versions \union {NoVersion}, pr : Versions \union {NoVersion},
                 prStatus : PRStatuses \union {"none"}, first : BOOLEAN]
         \union [op : {"pipeline"}, code : Versions \union {NoVersion}, count : Nat]
         \union [op : {"raised"}, kind : Kinds]
         \union [op : {"failing"}, kind : Kinds, seen : JobStatuses, again : BOOLEAN]
         \union [op : {"control"}, control : Controls, kind : Kinds]

\* Every variable has its type.  TLC evaluates memberships of the form
\* x \in SUBSET S and x \in [a : S] without building the sets.
TypeOK ==
  /\ status \in Statuses /\ code \in Versions \union {NoVersion}
  /\ grade \in [Versions -> Grades \union {"none"}]
  /\ tested \subseteq Versions
  /\ gates \in SUBSET Gates
  /\ prs \in [Versions -> PRStatuses \union {"none"}]
  /\ jobs \in [Kinds -> JobStatuses]
  /\ attempts \in [Kinds -> Nat]
  /\ pipelines \in Seq(Pipelines)
  /\ tx \in [Procs -> Transactions]
  /\ {runs, begun, decisions, controls, crashes, reworks, overlaps} \subseteq Nat
  /\ {approved, unasked, overtaken} \subseteq SUBSET (Versions \union {NoVersion})
  /\ {mixed, owed} \subseteq BOOLEAN

\* What a pipeline builds was approved: whatever requests, jobs and crashes
\* interleave, a founder's approval was decided on the version it builds, or
\* one decided on an earlier version was committed behind the run that made it
\* (decide reads and writes; PipelineService.run).
ShipsWhatWasApproved ==
  \A i \in DOMAIN pipelines : pipelines[i].code \in approved \union unasked \union overtaken

\* Rework is asked for, never repeated on its own: whoever runs the workflow,
\* it makes one version, one more for each time the task was sent back, and
\* one more for each run that passed the guard beside another (run_workflow).
RunsAreRequested == runs <= 1 + reworks + overlaps

\* Gate row g has looked at version v and tells what it saw.
Judges(g, v) ==
  /\ v \in g.judged
  /\ grade[v] = "critical" =>
       g.critical /\ ("critical" \in EnabledRules => ~g.eligible)

\* A task that waits for approval has been judged as it stands: some gate row
\* is about the version in the sandbox, and unless an evaluation ever crossed a
\* run it is the one that decide reads (run_workflow, evaluate).
PrReadyIsJudged ==
  status = "pr_ready" =>
    /\ \E g \in gates : Judges(g, code)
    /\ ~mixed => \E g \in Latest : Judges(g, code)

\* A version with a critical finding that was approved while it waited, with
\* override or not, never waits for production: the pipeline's security scan
\* stops it, unless an evaluation ever crossed a run.
CriticalNeverStaged ==
  \A i \in DOMAIN pipelines :
    (/\ pipelines[i].status = "awaiting_production"
     /\ pipelines[i].code \in approved /\ ~mixed) => grade[pipelines[i].code] # "critical"

\* A critical finding is stopped at the gate of its own version, and again
\* before production.
CriticalIsStopped == PrReadyIsJudged /\ CriticalNeverStaged

\* Whatever requests and jobs interleave: without a gate row nothing is
\* approved and no pipeline has run (decide's guard, evaluate's replacement).
NothingShipsUngated ==
  (status = "approved" \/ pipelines # <<>>) => gates # {}

\* An approval whose job stands in line is carried out: a pipeline runs to an
\* end, or the task stops being approved, or somebody pauses or cancels the
\* job.  Refusals, crashes and restarts that wait for the heartbeats to age
\* delay it at most (JobQueue, PipelineService.run).
ApprovalIsCarriedOut ==
  (owed /\ status = "approved" /\ jobs["pipeline"] = "queued")
    ~> (~owed \/ status # "approved" \/ jobs["pipeline"] \in {"paused", "cancelled"})

-----------------------------------------------------------------------------
(* What the documentation says and the code does not do *)

\* A task that has become approved and has had no pipeline since has its job
\* in line (dev_review.py: "Founder approval auto-starts the CI/CD pipeline as
\* a durable job").
ApprovalStartsPipeline ==
  (status = "approved" /\ owed) => jobs["pipeline"] \in {"queued", "running"}
=============================================================================
