# Specifications of WES OS

TLA+ models of the parts of WES OS whose correctness depends on the order in which
things happen: the durable job queue; the life of a development task from its workflow
to its pipeline, the releases and environments it ends in, and the sandbox its code is
made in; the planning of a project; the stages AI employees run, with their providers
and budget; the knowledge base; the index of a repository; and the session of the person
at the browser. The TLC configurations check them on small instances; the proof modules
establish most of the safety properties for every value of the constants.

WES OS is a FastAPI application (`src/backend/app`) over one SQL database (PostgreSQL in
deployment, SQLite on a developer's machine), with a React client (`src/frontend`). There
are three kinds of actors: API requests, each of which is one database transaction
(`app/core/database.py`, `get_db`: commit at the end, roll back on an exception); one
background thread per process that runs durable jobs (`app/services/job_worker.py`); and
the person at the browser, the founder, whose decisions gate what is shipped. They share
nothing but rows and files.

Contents: [Files](#files) · [The system](#the-system) · [Transactions as
steps](#transactions-as-steps) · [JobQueue and DurableExecution](#jobqueue-and-durableexecution) ·
[DevTask](#devtask) · [Delivery](#delivery) · [Orchestration](#orchestration) ·
[Planning](#planning) · [Knowledge](#knowledge) · [CodeModification and
Sandbox](#codemodification-and-sandbox) · [RepositoryIndex](#repositoryindex) ·
[Session](#session) · [Runs](#runs) · [Proofs](#proofs) · [Where code and
documentation differ](#where-code-and-documentation-differ) · [Not
modelled](#not-modelled) · [Plan](#plan)

## Files

| module | with | what it holds |
|---|---|---|
| `DurableExecution` | | the promise of the queue: an execution is paid for by being put in line |
| `JobQueue` | `JobQueueProofs`, `MCJobQueue`, `JobQueue_races.cfg`, `JobQueue_worker.cfg` | the `jobs` table, the worker's loop, crash recovery, the control endpoints; it implements `DurableExecution` |
| `DevTask` | `DevTaskProofs`, `MCDevTask`, `DevTask_desk.cfg`, `DevTask_races.cfg`, `DevTask_reapproval.cfg` | one development task: workflow, quality gate, founder's decision, pipeline, and their jobs |
| `Delivery` | `DeliveryProofs`, `MCDelivery`, `Delivery_races.cfg` | releases, staging and production, rollback, the directories they are extracted to |
| `Orchestration` | `OrchestrationProofs`, `MCOrchestration`, `Orchestration_races.cfg` | a stage of an employee: attempts, failover, budget gate, accounts, conversation, streams |
| `Planning` | `PlanningProofs`, `MCPlanning`, `Planning_races.cfg` | from a project to its development tasks: decomposition, approval, the execution job, people who edit |
| `Knowledge` | `KnowledgeProofs`, `MCKnowledge`, `Knowledge_races.cfg` | documents, versions, reviews, tags, views, collections |
| `CodeModification`, `Sandbox` | `DevTaskProofs`, `MCSandbox`, `Sandbox_edits.cfg` | the edits of source text, and the git branch of a task they are made on |
| `RepositoryIndex` | `RepositoryIndexProofs`, `RepositoryIndex_races.cfg` | scans of a repository into ten tables |
| `Session` | `SessionProofs`, `MCSession`, `Session_races.cfg` | the web client's tokens and the registry of refresh tokens |

`PROJECT.json` lists components, runs, mutants, the map from definitions to source lines,
hazards, findings and theorems. `tlc -workers 2 -config DevTask_desk.cfg MCDevTask.tla`
runs a configuration, `tlapm JobQueueProofs.tla` proves a module.

## The system

The inventory of the code, component by component: the state each keeps, what it does,
what is hard about it and what makes it correct. Paths are relative to
`src/backend/app`.

| component | state | operations | what is hard | what makes it correct |
|---|---|---|---|---|
| **Job queue and worker** `services/job_queue.py`, `services/job_worker.py`, `api/v1/jobs.py` | `jobs` rows: status, attempts, scheduled_at, heartbeat_at, idempotency_key | enqueue, claim_next, heartbeat, complete, fail, recover_orphans, cancel, pause, resume, retry; `_loop`, `run_once`, `start`, `stop` | several workers at one row; a handler that outlives its heartbeat; a process that ends at any point; requests that check a row and write it later; an outcome that cannot be recorded | one place in line is executed once; attempts are bounded; a job is given up only when they are used up; nothing stays running with nobody behind it; every job ends |
| **Transactions** `core/database.py` | a transaction per request | get_db | everything read before the commit may be stale at the commit | – (the way the modules split operations into steps) |
| **Development workflow** `services/development_service.py`, `api/v1/development.py` | `development_tasks` row, changes, test runs, pull requests, a fresh sandbox per run | create, run, run-async, decide | two runs at once; exceptions half way, after some rows were flushed; rework | a run per time it is asked for; what waits for approval has been judged |
| **Quality gate** `services/quality_gate_service.py`, `services/quality_review_engines.py` | `quality_gate_runs` rows | evaluate, gate_for_task | rows replaced by delete and insert in concurrent transactions; rows of earlier runs | the gate that decides is the one of the code it decides on |
| **Approval and pull requests** `services/dev_review.py` | task status, pull request status, pipeline job | decide, create_draft, pending | a decision checked before a rework commits and written after it; a permanent idempotency key | what is shipped was approved; an approval starts the pipeline |
| **Code modification and sandboxes** `services/dev_modification.py`, `services/dev_git.py`, `services/dev_maintenance.py` | a git branch per task, `generated_changes` rows | plan_and_apply, apply, modify_file, the test gate | lines cut at the ends of syntax trees; edits kept and rolled back in any order | the rows tell the branch; an edit that fails goes; an edit keeps what it is not about |
| **CI/CD pipeline** `services/devops_pipeline.py`, `services/devops_build.py`, `api/v1/devops.py` | `pipeline_runs`, artifacts | run, deploy_production | numbers given by counting; a task that changes under the pipeline; two approvals of one pipeline | only an approved, gated version is built; what production gets was staged; statuses tell the truth |
| **Deployment and rollback** `services/devops_deploy.py`, `services/devops_release.py` | `release_versions`, `deployment_runs`, `rollback_history`, directories | cut, deploy, rollback | files are not undone with the transaction; the row to replace is chosen early | an environment stays served; what is said to be deployed is on disk |
| **Project planning** `services/project_decomposition.py`, `api/v1/projects.py` | plan_status, epics and work items | decompose, approve; job `project_execution` | two requests at once; the job executed again after a crash | one task per work item and turn, and none before approval |
| **Work management** `services/work.py` | work items, assignments, sprints | create, move, assign, delete | the status is written by people and by jobs | a completed execution left nothing out |
| **Stage orchestration** `services/orchestration.py` | execution runs, messages, a set of cancelled runs in memory | run_stage, stream_stage, cancel_run | two attempts per provider, failover chain, cancellation from another request | a run ends, in a status that says what happened; conversations are in order |
| **Provider platform, budget** `services/provider_platform.py`, `services/budget_service.py`, `services/providers_service.py`, `providers/` | provider settings, usage and billing rows | record, check, invoke | check first, spend later; read-add-write of one row | overspend is bounded; no cost is counted twice |
| **Execution queue, reviews, hand-offs** `services/execution.py` | queue items and positions, reviews, hand-offs | create, advance, decide | positions by counting; statuses that may move anywhere | – |
| **Knowledge base** `services/knowledge.py`, `services/knowledge_versions.py`, `services/knowledge_collections.py` | documents, version snapshots, reviews, tags, collections | create, update, restore, view, review, add to a collection | two updates read one version number; codes, views and positions by counting; inserts that wait for each other | versions have no gap and the text is one of them; codes are not given twice; the status is that of the last review |
| **Repository intelligence** `services/repository_service.py`, `services/repo_scanner.py` | ten tables of index rows | register, scan, queries | scans that overlap: only row locks keep them apart; deadlocks | a scan replaces what was indexed |
| **Authentication and sessions** `services/auth.py`, `services/tokens.py`, `api/v1/auth.py` | token version of a user, registry of refresh tokens | log in, refresh, log out | refreshes and logouts that overlap | a logout ends every session; a refresh token is used once |
| **Web frontend** `src/frontend` | the token store and status of a page | calls the API, refreshes, retries | calls side by side that all find the token expired; answers that come after a logout | what the page shows is what its store holds |
| **Rate limiter** `core/rate_limit.py` | timestamps in memory | allow | none: one event loop, no await inside | unit-tested |
| **Secrets, notifications, audit, memory, learning, monitoring, organisation, dashboards** | rows appended, read, or updated singly | create, list, search, report | – | – |

How they interact: a request to plan a project makes work items (`Planning`); its approval
enqueues one `project_execution` job, whose handler makes a development task per item and
enqueues a `development_workflow` job each. That workflow, run by the worker or by a
request (`DevTask`), makes its code in a sandbox (`Sandbox`), writes its notes into the
knowledge base (`Knowledge`), and ends in a pull request and a gate row. The founder's
approval enqueues a `devops_pipeline` job. The pipeline builds the approved sandbox, cuts
a release, deploys it to staging and waits. A second approval deploys it to production,
and any release can be rolled back to (`Delivery`). `JobQueue` is the mechanism under
every arrow that says job. Stages that AI employees run (`Orchestration`), scans
(`RepositoryIndex`) and the person's session (`Session`) stand beside this chain.

## Transactions as steps

All modules cut operations along the same line. A session runs at READ COMMITTED and
takes no lock when it reads, so an operation that reads a row, looks at it, and writes it
back is two steps: one where it reads and checks, one where it writes and commits.
Whatever other sessions commit in between is there when it commits, unseen. Details of
the ORM and of the database decide what is overwritten, and the models keep them:

* a row is written at the flush, and visible to others at the commit: statuses a
  workflow passes through (`planning` … `documenting`) are never seen by anybody;
* only columns whose value differs from the one *loaded* are written. A request that
  loads `approved` and sets `approved` writes nothing, and does not undo a change to
  the row committed in the meantime (`Written` in `DevTask`, the test on `seen` in
  `JobQueue!Fail`, `dirty` in `Knowledge`, `StatusAfter` there);
* sessions are made with `autoflush=False`, so a SELECT in the middle of an operation
  does not see its own pending changes and does not write them (`Session!LogoutSelect`);
* `created_at` is the database's `now()`, the *start* of the transaction, so rows
  ordered by it are not in the order of their commits (`stamp`);
* an INSERT of a value that is UNIQUE waits for the transaction that has inserted the
  same, and then fails or goes on (`Knowledge!WaitsFor`, `Taken`). A DELETE or UPDATE
  waits for the row and goes on with the rows it had found (`RepositoryIndex!Wait`,
  `Planning!Held`). A flush in the middle of an operation writes whatever has changed by
  then and keeps the row until the commit (`Knowledge!LockRow`). A cycle of waits is a deadlock, of which PostgreSQL aborts one.

Under SQLite writers are serialised more strictly and some of the interleavings cannot
happen; the models are those of the deployment on PostgreSQL (`docker-compose.yml`).
Where waiting for a lock has no other effect than the order "first commit, then second
commit", which the interleavings have anyway, the lock is not in the model.

## JobQueue and DurableExecution

*Sources:* `services/job_queue.py`, `services/job_worker.py`, `api/v1/jobs.py`.

State: for each row its `status`, `attempts`, and two flags that stand for time, `due`
(`scheduled_at <= now`) and `fresh` (`heartbeat_at` within the 120 s window); for each
worker where `run_once` or `start` stands, the job it holds, the row `fail()` has loaded
and the rows `recover_orphans` has loaded; for each request the control operation whose
precondition it has checked. `priority` and `idempotency_key` never change and are
constant functions. `worker_id`, `progress` and messages are not looked at by any
operation and are left out. `effects` and `requeues` are history.

| action | code |
|---|---|
| `Enqueue` | `enqueue`, with the key's lookup and its UNIQUE constraint |
| `SelectCandidate`, `Claim`, `LoseRace` | `claim_next`: the SELECT, and the guarded UPDATE that hits or misses, with `run_once`'s commit |
| `Heartbeat` | the handler's own commit before its work |
| `Complete` | the handler returns: its writes and `complete` in one commit |
| `LoadFailed`, `Fail` | it raises: roll back, load the row, `fail`, commit |
| `LoseOutcome` | the database raises while the outcome is recorded; `_loop` swallows it |
| `Exit`, `Start`, `RecoverOrphans` | end of the process at any point; `start`, `recover_orphans` in its two halves |
| `Load`, `Apply` | cancel, pause, resume, retry: the check, and the write at the end of the request |
| `Elapse`, `Expire` | a backoff passes; a heartbeat leaves the window, the handler running or not |

`DurableExecution` says what the queue is for, without rows, statuses, workers,
heartbeats or requests: putting a job in line pays for one execution of it, an execution
is in progress until its effects are committed all at once or it comes to nothing, and
none starts that has not been paid for. Whoever puts a job in line once gets its effects
at most once. `JobQueue` implements it (`KeepsPromise`) under the mapping that counts:
`paid` is one, once the row is inserted, plus its requeues; `running[j]` is the number of
workers executing `j`; `done` is `effects`. So the guarded UPDATE of `claim_next` is
enough, and a duplicate execution always has a recorded cause: a recovery, or a client.
`DevTask` and `Planning` rely on it where they take a job as one row with one worker.

Properties. `AttemptsAreKept`: `max_attempts` means what it says, and a job is given up
only when all are used, although `fail()` decides from a stale row. `RunningIsRun`: as
long as no process ends and the database answers, no row is stuck in `running`. For the
deployment with one worker, `ExactlyOnce` (before any control request, the effects of a
handler are committed exactly when the job is completed, across crashes),
`ClaimsOnlyDue` (backoffs are waited out) and the liveness property `EveryJobSettles`.

Fairness: each worker's loop polls for ever and a process that ended is started again
(weak fairness of `WorkerStep`, which includes `Start`); handlers return or raise; time
passes (`Elapse`, `Expire`). Nothing is assumed of clients, and no crash or fault has to
happen. `RestartWaits = TRUE` is an assumption about the environment, used by
`queue_worker` only: a process comes up when the heartbeats of the dead are out of the
window.

`ExactlyOnce` and `ClaimsOnlyDue` are proved for any deployment with one worker.

Seen in the model: with two workers a job can be claimed before its backoff has passed,
because the UPDATE repeats the status and not `scheduled_at` (`ClaimsOnlyDue` fails in the
two-worker instance); a second process that starts re-queues a live worker's job whose
handler outlives the window.

## DevTask

*Sources:* `services/development_service.py`, `services/quality_gate_service.py`,
`services/dev_review.py`, `services/devops_pipeline.py`, `api/v1/development.py`,
`api/v1/quality.py`, `api/v1/devops.py`, and the handlers of `services/job_worker.py`.

One task. Each run of the workflow makes a fresh sandbox; "version v" is the code of the
v-th. What the analyses find in a version is its *grade*: `good`, `failing` (its tests
do not pass) or `critical` (the security engine found something critical). The rest of
the state are rows: task status and sandbox, changes and test runs by version, gate
rows, pull requests by version, the two jobs of the task, pipelines in the order of
their commits. Transactions in flight carry what they have read.

| action | code |
|---|---|
| `RequestRun`, `RequestRunAsync`, `ClaimRun` | POST `/run`; POST `/run-async` or the project job, `enqueue` with a permanent key; the worker's claim and its handler's first read |
| `RunCommit(p, outcome)` | `run_workflow` to its end, by a request or by the worker: pull request, verification failed, or one of four exceptions, with exactly what each leaves behind (`Kept`, `End`) |
| `EvaluateRead`, `EvaluateCommit` | POST `/quality/tasks/{id}/evaluate` |
| `DecideRead`, `DecideCommit`, `DecideConflict` | `ApprovalService.decide` and its commit, or the refusal by the UNIQUE key |
| `RequestPipeline`, `ClaimPipeline`, `PipelineCommit`, `PipelineConflict` | `PipelineService.run`: its guard, its end, or the refusal because an overlapping pipeline took its number |
| `ClaimRefused`, `LoadFailed`, `Fail` | a handler whose service raises at its guard; `run_once` rolls back and loads the job again; `fail` and the commit |
| `ControlLoad`, `ControlApply` | POST `/jobs/{id}/cancel`, `pause`, `resume`, `retry`: the check, and the write at the end of the request |
| `Crash` | the backend dies, open transactions roll back, and it comes up again: recovery puts back in line those running jobs whose heartbeat is old by then |

The gate is the code's: it judges the changes of *all* runs, so an old critical finding
blocks repaired code, and takes the tests of *one* unit run from an unordered query. The
rules that a grade decides may be switched off (`EnabledRules`, `_rule_enabled`): a rule
that is off is passed, its findings are counted all the same. `gate_for_task` takes the
newest row by start of transaction. The pipeline's tests run only what lies in the root of
the sandbox, so a failing version may pass them. Inside a run, the evaluation of the gate
and the commit are one step.

Requests and the worker run the workflow side by side, evaluate and decide at any status,
and control the jobs; nothing is assumed of who does what when. What an interleaving really
spoils is therefore in the properties, as history:

* `ShipsWhatWasApproved`: a pipeline builds a version that a decision approved, while it
  waited for one (`approved`) or at another status (`unasked`: the code looks at the gate
  and not at the status), or one that an approval of an earlier version was committed
  behind (`overtaken`).
* `CriticalIsStopped`: a task that waits for approval has been judged as it stands: a gate
  row has looked at its version and tells what it saw, and it is the row the decision reads
  unless an evaluation ever crossed a run (`mixed`). Even an approval with override does not
  bring such a critical version to staging, since the scan reads the gate again.
* `RunsAreRequested`: there is one version, one more for each time the task was sent back,
  and one more for each run that passed the guard while another was in flight (`overlaps`):
  a rerun is asked for or raced for, and never happens on its own.
* `NothingShipsUngated`: without a gate row there is no approval and no pipeline.
* `ApprovalIsCarriedOut`, the liveness property: an approval whose job stands in line is
  carried out, unless the task stops being approved or somebody pauses or cancels the job.
  It needs weak fairness of the worker's loop, which polls for ever, and `RestartWaits`: a
  backend that comes up within 120 s of its crash skips the job it left running, looks for
  orphans at no other time, and the approved pipeline never runs
  (`services/job_queue.py:135-140`). With `RestartWaits = FALSE` TLC finds that behaviour.

The safety properties hold, and are proved, for any number of requests and any constants.
Of a job the model has what `JobQueue` shows of it: a claim gives it to the one worker, a
refusal uses up an attempt, `fail` writes what it decided from the row it loaded.

Seen in the model: when a request and the job run the same workflow, both pass the guard
and the code is generated twice; a re-evaluation that overlaps a run can leave the older
judgement as the newest row, and an override then brings a critical version to staging;
approving a rework may mark the pull request of another version, and a rework that failed
can be approved on the gate row of the run before; `run-async` after `changes_requested`
answers with the job that has ended; a retry of the pipeline job runs it a second time.

## Delivery

*Sources:* `services/devops_pipeline.py`, `services/devops_deploy.py`,
`services/devops_release.py`, `services/devops_build.py` (`extract_artifact`),
`models/devops.py`.

State: rows of pipelines, releases, deployments and rollbacks; the directories
`deployments/<environment>/<version>` as `none`, `partial` or `whole`; transactions in
flight. A deployment takes three steps: `StartPipeline`/`StartProduction`/
`StartRollback` (what is read), `Extract` (the directory is removed and filling it
begins), `Finish` (verified and committed, as deployed or as failed). `StopPipeline` is
a pipeline that fails before it has a release, `PipelineConflict` one whose number was
taken. `Crash` undoes rows and leaves files.

Properties. `PipelineTellsDeployments`: what a pipeline brings to production it had in
staging first (a rollback may go to any release, the interface offers them all, so it is
not covered), and what its status says of production is so, when two approvals overlap as
well; a pipeline that passed may be turned to failed by the second one, which the
property does not forbid. `ReleasedRanInProduction`: the status of a release says whether
it was ever in production. `EnvironmentStaysServed`: no overlap of deployments and
rollbacks leaves a served environment with nothing deployed, but a *failed* rollback
does, because the row it was to replace is marked rolled back all the same; the property
excepts it. `DeployedIsOnDisk`: files of a standing deployment are complete across
failures and crashes, except where the same release was deployed again to the same place,
which removes a directory in use first.

Environments are reduced to staging and production (the code treats the others alike).
`approve_production` is called by nothing, and no code ever sets a release to
`rolled_back`; both are left out. So is an exception after the staging deployment.

## Orchestration

*Sources:* `services/orchestration.py`, `services/budget_service.py`,
`services/provider_platform.py`, `services/providers_service.py`, `providers/`.

State: the provider settings (which are enabled, which is the default, which one a role is
mapped to), the running day and month, what has been spent and billed in each, the rows of
runs with their retry history and messages, and the marks of cancelled streams, which live
in the memory of the process.

| action | code |
|---|---|
| `Begin` | `run_stage` to the budget gate: settings, chain, conversation, `_next_seq`, `BudgetService.check` |
| `Fail`, `Succeed` | one attempt in `_execute_with_retry`: a rate limit is tried again, anything else goes on to the next provider of the chain |
| `Bill`, `Commit` | `CostEngine.record` (the billing rows it reads), and the end of the request, which writes what was read plus the charge |
| `CommitFailed` | no provider answered, or the gate refused |
| `StreamBegin`, `StreamEnd`, `CancelRun` | `stream_stage` and the mark of `cancel_run` |
| `Settings`, `NewPeriod`, `Crash` | enabling, defaults and mappings; midnight and the end of a month; the process ends |

Properties. `OverspendBounded`: the gate reads before and the cost is written after, so a
hard stop can be passed, but by no more than one call for each of the runs that were in
flight at once, across midnight and failover. `BilledAtMostUsed`: increments of a billing
row may be lost, none is counted twice. `RunsAreRecorded`: the retry history accounts for
the run (a completed one was answered by the provider it names, at its last try; a failed
one has exhausted its chain; an explicit provider is never replaced), and a run that began
when another of its conversation was there comes after it. `EveryRunEnds`, under weak
fairness of a request that has begun: providers answer, or their timeout does.

Prices and prompts are sizes (`MaxCharge`, `BasePrompt`, `Memory`); a call of `mock` or a
local provider is free. What a stream writes is left out because it is not kept (see
[below](#where-code-and-documentation-differ)).

## Planning

*Sources:* `services/project_decomposition.py`, `services/work.py`, `api/v1/projects.py`,
the handler `_project_execution` in `services/job_worker.py`.

State: `plan_status`, the work items by id, the job of the project (one row, whose key is
permanent), the development tasks with the item each was made for, transactions in flight
with the ids they have read, and whether the backend is up.

| action | code |
|---|---|
| `DecomposeBegin`, `DecomposeClear`, `DecomposeCommit` | `decompose`: its guard, the deletion of what it has read and the count its codes start from, the new rows |
| `ApproveBegin`, `ApproveCommit`, `Conflict` | `approve_plan` with `enqueue`; a code or the key that was taken |
| `Claim`, `ExecuteRead`, `ExecuteCreate`, `ExecuteCommit`, `ExecuteFail` | the job: its open items, a task for each, status and outcome in one commit, or an item that was deleted, a code that was taken, an exception |
| `Edit`, `CreateTask` | what people do in between: items created, moved, assigned, deleted; tasks created by hand |
| `ControlLoad`, `ControlApply` | cancel, pause, resume, retry of the job: the check, and the write at the end of the request |
| `Crash`, `Start` | the process ends, and recovers the job when it starts |

Properties. `FreshApprovedRuns`: what is executed of a plan was in one that was approved,
as long as no decision is committed over a plan it had not read (`stale` records that).
`OneTaskPerTurn`: whatever fails, is recovered, cancelled or retried, an item becomes one
development task, and one more for each time somebody has put it back to the backlog
(`returned`). The job itself may well run again after it has completed, since a cancel that
was accepted before `complete` is written over it and the job can then be retried; what
keeps the second execution from doubling tasks is that the items left the backlog in the
commit that made their tasks.
`CompletedMeansExecuted`: a completed execution left out no approved item that nobody
edited, although `complete` writes its status over whatever a client made of the job.
`ExecutionEnds`: a queued execution ends unless people stop it, under weak fairness of the
worker, of the restart and of requests that have begun.

Seen in the model: a `decompose` that overlaps another one and its approval adds items to
the approved plan, and the job runs them; two decompositions that overlap leave the rows
of both, since each deletes only what it has read.

## Knowledge

*Sources:* `services/knowledge.py`, `services/knowledge_versions.py`,
`services/knowledge_collections.py`, `models/knowledge.py`, and the notes a development
run writes (`services/development_service.py`).

State: documents in the order of their commits, the version rows of each, its views in the
access log, its submissions and decisions, the tags, the items of one collection. The first
document is of the seed (`seed_knowledge.py`), which gives some of its documents a status
without a decision and views without a log row; `First(d)` is what a document has before
anybody has viewed it or decided on it.

| action | code |
|---|---|
| `CreateBegin`, `CreateCommit` | `create`: the code by counting, the row and its first version |
| `UpdateBegin`, `RestoreBegin`, `WriteCommit` | `update`, with new tags or without, and `restore`: only changed columns are written, a version is snapshotted |
| `Find`, `Insert` | `get_or_create` of each tag of a creation or an update; the insert of the document |
| `LockRow` | the flush of an update's first new tag: it writes the columns that were changed before, and keeps the row of the document |
| `Conflict`, `Deadlock`, `RollBack` | a code or slug that is taken; a cycle of waits; a development run that fails later, or an update that finds its tag associations changed |
| `ViewBegin`, `ViewCommit` | the counter of views, read, raised and written |
| `DecideBegin`, `DecideCommit` | `submit_for_review`, `review` |
| `AddBegin`, `AddCommit`, `RemoveDocument` | a collection, positions by counting |

Properties. `CodesAreCounted`: codes are 1 to n and the next one is free, whatever
conflicts, deadlocks or is rolled back. `HistoryIsKept`: version numbers have no gap, and
the text of a document is one of its versions unless its last writer had not read it.
`CountsAreKept`: beyond the views of the seed none is counted that is not logged, and all are
unless two overlapped; a document comes after those that were in the collection when it was
added, until one is taken out. `StatusTellsReview`: the status is what the last decision made
it, unless that was given on another status than it found, and before any the seed's.
`RequestsEnd`: every request ends although inserts wait for each other and for the rows that
updates keep, under weak fairness of a request that has begun; a cycle of waits is broken by
the database.

Seen in the model: a title and a content that are written at once make a text no version
has, and the next update or restore loses it for good; an approval of a document that was
approved when read does not write the status, so that a rejection in between stays though
the newest review approves.

## CodeModification and Sandbox

*Sources:* `services/dev_modification.py`; `services/dev_git.py`,
`services/dev_maintenance.py`, the implementation stage in
`services/development_service.py`, `services/dev_review.py` (the test runner).

`CodeModification` is a module of functions. A text is the sequence of its top-level items
(definitions of a Python module, lines of any other file), an item has the names it
mentions, and an operation is the set of texts it can return, none when it raises. That a
last line may lack its newline is kept, because imports and anchors depend on it. `File` is
the set of the texts and `Change` that of what an edit can say; the one assumption of
`Sandbox`, `FilesAssumption`, is that sources are texts and edits are edits of texts.

`Sandbox` puts them on a branch: a commit is the tree it leaves. A row of
`generated_changes` has its path and its type; the edit it is of, the text that was left and
the number of the commit are history (the code keeps the difference to main).

| action | code |
|---|---|
| `PlanAndApply` | the implementation stage on code that is there: delete, rename, modify or create what was asked for |
| `ApplyGenerated` | the implementation stage for new code: `GenerationService` gives a module, its tests and notes; `apply` commits the two Python files at once, then the notes, and adds a row for each of the three files |
| `ModifyFile` | `CodeMaintenanceService.modify_file` to its commit |
| `Judge` | the test gate: keep, or reset to the checkpoint; `_record` adds a row, and none for an edit that was made for no task (`untold`) |

The tests of a sandbox are those that main has and the generated ones; both import names
from the target. Properties. `RowsTellBranch`: whatever was reverted in between, each row
marked applied is of a commit on the branch, with what that commit left at its path, no two
are of one path of one commit, and every path a commit has changed has its row, except for
edits made for no task. `FailuresAreUndone`: nothing stays that the tests have failed or that
does not compile, if the sandbox started from what passes.
`EditsAreLocal`: each edit keeps what it was not about, unchanged and in order, and adding,
removing or renaming never leaves a name defined twice. Both properties are conditions on
the rows, so they are about every edit that is still on the branch. `EditsAreLocal` excepts
what the engine does not keep: an anchor inside an item of a Python file; one on a last line
without a newline, which becomes one line with what follows; a rename to a name the file
mentions already; and, of double definitions, those a snippet brings along (`Unseen`):
`add_function` looks for the name of its function in the snippet and in the file, and the
snippet may define other names too, which the file may define already. The run has each of
these cases, and without its exception the property fails there.

`CodeMaintenanceService` is called by unit tests only; no endpoint or handler reaches it.
Its variant without tests (`run_tests=False`) is left out.

## RepositoryIndex

*Sources:* `services/repository_service.py`, `services/repo_scanner.py`,
`models/repository.py`, `api/v1/repository.py`.

A scan is one request and one transaction: it deletes what is indexed, table after table
(`Delete`, or `Wait` and `Resume` when a row is locked), walks the tree and inserts
(`Insert`, `CountLayers`), and commits at the end (`Commit`). `Begin` numbers the scans;
`Fail` is a refusal of the database or the end of the process, `Deadlock` the abortion of
one scan of a cycle, `Change` a change of the tree. Rows are told apart by the scan that
wrote them and by their table; deleting a file or a symbol takes the rows below it along
(`CascadesTo`).

Properties. `RescanReplaces`: a scan that overlaps no other leaves its rows and no others,
in every table, whatever overlapping or failed scans left before it. `OverlapReplaces`: as
long as neither the index nor the tree was ever empty, overlapping scans leave the files,
names and symbols of one scan: all that keeps them apart is that the later one waits at
the first table for rows of the earlier one to go, and reads the others afterwards. That
is enough while scans do not overtake each other too often (`FewOvertakings`): a scan that
found rows which another one took goes on without them, and can catch up at the rows of
that one in a later table, of which there are two before the files, the layers and the
files themselves. `ScansEnd`: every scan ends, under weak fairness of its steps, the database's resolution
of deadlocks among them.

Seen in the model: two overlapping *first* scans find no row to wait for and leave the
rows of both; so do re-scans of a tree in which nothing was found, and three overlapping
re-scans may leave the layers of two. Four re-scans may leave the *files* of two: one that
loses the first table to a second scan and the layers to a third takes the files of the
third, without its layers; a fourth takes those, waits for the files, and when the one
before it commits finds them gone and inserts beside it (TLC, with `MaxScans = 4`, no
changes and no failures, on the property without `FewOvertakings`). Three scans can deadlock, since one that resumed
with the rows it had found lags behind a later one. The handler of `scan()` then tries to
record the failure in the aborted transaction, which fails as well: the request ends with
an error and there is no scan row.

Left out: columns set to NULL by a deletion, the update of the repository's own row at the
end, and exceptions of Python inside a scan: files that cannot be read or parsed are
skipped one by one, so that what reaches the handler comes from the database.

## Session

*Sources:* `src/frontend/src/api/client.ts`, `src/frontend/src/auth/SessionContext.tsx`,
`src/frontend/src/auth/tokenStore.ts`, `services/auth.py`, `services/tokens.py`,
`api/v1/auth.py`, `api/deps.py`.

One page in one tab, and the registry of refresh tokens. The calls of the page go on side
by side. Pair n is the access token and the refresh token that were issued together.

| action | code |
|---|---|
| `AppCall`, `Answered`, `Unauthorized`, `RetryUnauthorized` | `request`: a call, its 401, its refresh, its retry |
| `RefreshRead`, `RefreshRefused`, `RefreshCommit`, `RefreshReceived` | `AuthService.refresh` and its commit; `tryRefresh` |
| `LoginBegin`, `LoginRead`, `LoginCommit`, `LoginReceived` | log in |
| `LogoutBegin`, `LogoutElsewhere`, `LogoutRead`, `LogoutSelect`, `LogoutCommit`, `LogoutReceived` | log out, on this page or in another browser |
| `Lost`, `ServerFails` | the network fails, and what the server has begun goes on; a transaction is rolled back |
| `Reload`, `Expire` | the page is loaded again and asks `/auth/me`; half an hour passes |

Properties. `LogoutEndsSessions`: unless two logouts overlapped, a token that can be
exchanged was issued by a login or an exchange that began after the last logout, although
a logout overlaps exchanges whose tokens it does not see: the version they carry ends them.
`RefreshesAreAccounted`: a refresh token becomes one pair, unless exchanges of it
overlapped, and is refused only when it has been exchanged or after a logout.
`StatusTellsStore`: what the page shows is what its store holds, unless a refresh was
answered after the session had gone.

Access tokens expire in the order they were issued in; refresh tokens live for days and do
not expire here. Left out: the counter of failed logins, deactivated users, several tabs
with one `localStorage`, the doubled effects of React's development mode, and answers 403.

## Runs

| run | bounds | states | time | question |
|---|---|---|---|---|
| `queue_races` | 1 job, 2 workers, 2 requests, 3 control operations, 1 exit, 1 fault, 2 attempts | 393 180 | 11 s | attempts, stuck rows and the refinement with everything overlapping |
| `queue_worker` | 3 jobs, two with one key, 1 worker, 1 operation, 2 exits, 1 fault | 299 955 | 28 s | the deployment: exactly once, backoffs kept, every job settles |
| `devtask_desk` | 1 request and the worker, 3 grades, 1 run, 2 decisions, 1 pipeline by hand, 1 control operation, 2 attempts, 1 crash | 577 951 | 25 s | an approval is carried out, whatever fails, is retried or crashes; types |
| `devtask_races` | 2 requests and the worker, all running workflows and deciding at any status, 2 grades, 2 runs, 2 decisions, 1 evaluation, 1 attempt | 6 778 874 | 112 s | what is shipped, judged and run, whatever overlaps |
| `devtask_reapproval` | 1 request and the worker, 2 runs, 3 decisions, no crash | violation | 1 s | every approval starts a pipeline |
| `delivery_races` | 2 pipelines, 2 builders, 2 founder requests, 2 failures, 1 crash | 630 195 | 13 s | rows, environments and files stay consistent |
| `orchestration_races` | 2 stages and a stream, 2 providers, 2 runs, 2 periods, 2 attempts, 2 events | 514 600 | 63 s | money, retry history, conversation; every run ends |
| `planning_races` | 2 requests and the worker, plans of 1 item, 3 rows, 2 attempts, 3 events | 2 143 478 | 148 s | what is executed was approved, once a turn, and all of it |
| `knowledge_races` | 2 requests and a development run, 2 texts, 2 tags, 3 documents, one of them a seed that is approved and viewed, 3 operations | 335 427 | 118 s | codes, versions, counts and statuses; every request ends |
| `sandbox_edits` | 5 targets, generated code with tests and notes, every edit on every name, 2 suites, 3 edits, 1 for no task, 1 test run cut off | 2 618 180 | 88 s | rows tell the branch, failures are undone, edits are local |
| `index_races` | 3 scans, 1 change of the tree, 1 failure | 599 270 | 61 s | scans replace what was indexed, and end |
| `session_races` | 3 calls in flight, 5 calls, logins, logouts and reloads | 373 662 | 11 s | logouts, refreshes and what the page shows |

Why the bounds are enough. Races in this code are between two transactions at one row: a
third actor meets the row as one of the first two left it. Where a third matters it is
there: three scans, because a cycle of waits needs one that lags behind (the overtakings that
`OverlapReplaces` excludes need four, where the property was explored once, with 4.2
million states, and is proved); three calls of a
page, because a logout and a login have to overlap an exchange. One job suffices for
everything but priority and keys, which relate jobs and get three. Two attempts give a
first failure, which re-queues, and a last one. Two runs of a workflow are a run and a
rework, or two runners side by side; liveness of an approval needs one run, two decisions (an
approval and what undoes it), a control request and a crash. Two providers are one that limits and fails and one that answers; two periods are
a call that begins before midnight and is charged after. Plans of one item are enough for
what is lost or doubled, since items are not told apart by the code. Larger instances have
been explored once and showed nothing new (two jobs with two workers and one request: 24 million
states; `delivery_races` with three founder
deployments and one failure: 9.7 million; `session_races` with six operations: 4.5 million).
Bounds are guards on counters (`MaxOps`, `MaxEvents`, …) and none of them bounds a queue,
an attempt or a retry of the code. Deadlock is not checked, since a system whose bounds
are used up and whose jobs have ended does stop. Symmetry is used for safety only, on sets
of actors that no property names.

Every property of a passing run has a mutant: a definition of the module replaced by a
plausible slip (the UPDATE without its guard, a table that is not cleared, a rollback that
looks for its row too late …) for which TLC finds the property violated. The mutated forms
stand in the modules next to what they mutate, marked `Mutant`. The type invariants of
`JobQueue`, `Delivery`, `Planning`, `Knowledge` and `Session`, and `ExecutionBudget` of
`JobQueue`, are proved and are not properties of runs; those of `DevTask` and
`Orchestration` are both.

## Proofs

Proved by TLAPS for all values of the constants, from `Spec` and the named assumptions of
the modules: finite sets of jobs, workers, requests and tags where they are counted,
naturals as bounds and sizes, at least one attempt, a prompt of at least one token, an
order of the providers that is not empty and names none twice, the worker is not a client,
rules that are switched on among the mandatory ones, documents of the seed that are documents,
sources, edits and generated files that are texts or about texts. Every invariant and every action property that a
run expects to hold is a theorem here; what is left to TLC is liveness.

Two theorems have a hypothesis more, `OneWorker`, a single worker process, which is what the
run `queue_worker` gives the constants: `ExactlyOnceCorrect` and `ClaimsOnlyDueCorrect`. Number
of jobs, requests, crashes and faults are arbitrary in them as everywhere. Without the
hypothesis the properties are false, and [JobQueue](#jobqueue-and-durableexecution) says how.

| module | theorem | statement |
|---|---|---|
| `JobQueueProofs` | `TypeCorrect` | `Spec => []TypeOK` |
| | `ExecutionBudgetCorrect` | `Spec => []ExecutionBudget` |
| | `AttemptsAreKeptCorrect` | `Spec => []AttemptsAreKept` |
| | `RunningIsRunCorrect` | `Spec => []RunningIsRun` |
| | `ExactlyOnceCorrect` | `OneWorker` proves `Spec => []ExactlyOnce` |
| | `ClaimsOnlyDueCorrect` | `OneWorker` proves `Spec => ClaimsOnlyDue` |
| | `Implements` | `Spec => KeepsPromise`, the refinement of `DurableExecution` |
| `DevTaskProofs` | `TypeCorrect` | `Spec => []TypeOK` |
| | `NothingShipsUngatedCorrect` | `Spec => []NothingShipsUngated` |
| | `ShipsWhatWasApprovedCorrect` | `Spec => []ShipsWhatWasApproved` |
| | `RunsAreRequestedCorrect` | `Spec => []RunsAreRequested` |
| | `CriticalIsStoppedCorrect` | `Spec => []CriticalIsStopped` |
| | `RowsTellBranchCorrect` | `SandboxSpec => []RowsTellBranch` |
| | `FailuresAreUndoneCorrect` | `SandboxSpec => []FailuresAreUndone` |
| | `EditsAreLocalCorrect` | `SandboxSpec => []EditsAreLocal` |
| `DeliveryProofs` | `TypeCorrect` | `Spec => []TypeOK` |
| | `PipelinesTell` | `Spec => []PipelineTellsDeployments` |
| | `ReleasesRan` | `Spec => []ReleasedRanInProduction` |
| | `EnvironmentsAreServed` | `Spec => []EnvironmentStaysServed` |
| | `DeploymentsAreOnDisk` | `Spec => []DeployedIsOnDisk` |
| `OrchestrationProofs` | `TypeCorrect` | `Spec => []TypeOK` |
| | `Overspend` | `Spec => []OverspendBounded` |
| | `RunsAreRecordedCorrect` | `Spec => []RunsAreRecorded` |
| | `BilledAtMostUsedCorrect` | `Spec => []BilledAtMostUsed` |
| `PlanningProofs` | `TypeCorrect` | `Spec => []TypeOK` |
| | `OnlyTheApprovedRuns` | `Spec => []FreshApprovedRuns` |
| | `OneTaskPerTurnCorrect` | `Spec => []OneTaskPerTurn` |
| | `CompletedLeftNothingOut` | `Spec => []CompletedMeansExecuted` |
| `KnowledgeProofs` | `TypeCorrect` | `Spec => []TypeOK` |
| | `CodesCount` | `Spec => []CodesAreCounted` |
| | `HistoriesAreKept` | `Spec => []HistoryIsKept` |
| | `CountsAreRight` | `Spec => []CountsAreKept` |
| | `StatusIsTold` | `Spec => []StatusTellsReview` |
| `RepositoryIndexProofs` | `RescansReplace` | `Spec => RescanReplaces` |
| | `OverlapsReplace` | `Spec => OverlapReplaces` |
| `SessionProofs` | `TypeCorrect` | `Spec => []TypeOK` |
| | `LogoutsEndSessions` | `Spec => []LogoutEndsSessions` |
| | `RefreshesAreRight` | `Spec => []RefreshesAreAccounted` |
| | `StatusTells` | `Spec => []StatusTellsStore` |

One idea runs through all of them. A transaction acts on what it has read, and others
commit in between; a property is inductive only together with what is *left* of that when
it commits. Each proof names this for each kind of transaction, shows that no step of
anybody else takes it away, and derives the commit from it.

**JobQueue.** The inductive invariant is `IInv`. `ExecutionBudget` is inductive but for
`Enqueue`, where one has to know that nobody holds a job that is not there yet:
`AbsentIsUnknown`. A claim turns the place in line into an executor, `Fail` turns an
executor into a place in line, `Complete` into an effect, and what else makes a place in
line is counted in `requeues`. The proof therefore follows the *cardinality* of
`Executors(j)`, by the lemmas `ExecutorsFinite` and `ExecutorLeaves`. `AttemptBudget` is
not inductive: a worker that has loaded the row and decided to re-queue it is worth an
attempt that the counter does not show yet; `AttemptCredit` counts these workers
(`Requeuers`) and the place in line as well. `FailedIsExhausted` needs `SeenIsPast`: what
`fail()` has loaded is a past value of a counter that only grows. `RunningIsRun` needs
`RunningHasWriter`: the executor of a running row must be one that will change the status;
one that loaded `queued` and writes `queued` would be skipped by the ORM. `Implements` maps
every step to one of the promise or to a stutter; that a claim starts an execution that has
been paid for is `ExecutionBudget`, and that an insertion pays for a job with no execution
in progress is `AbsentIsUnknown`.

With one worker and before any control request the rows say what the worker does: the row
of the job it executes is running, the rows it has loaded to recover are what it loaded,
and effects and completion go together (`Alone`). For backoffs the invariant is
`SelectedIsDue`: nothing but time changes a candidate between the SELECT and the UPDATE.

**DevTask.** Most steps do nothing to the task: `StepKinds` says what a step does, whoever takes
it and whichever job it is about, and each invariant is shown for those kinds (`StepCases`).
`GateInv`: once a gate row is there one stays (`GatesStay`: rows are only ever replaced), and
each approval or pipeline in flight rests on one. `TypeOK` bounds the number of the sandbox by
`MaxRuns`; it is inductive with `Room`: runs that have ended and runs in flight together do not
exceed it, so that each has a version of its own to write.

`ShipInv`: what an approved task has in its sandbox, and what a pipeline in flight has loaded,
was approved or overtaken. A run cannot change the sandbox of an approved task without changing
its status, and a decision that is committed over another version than it read is recorded as
what it is. `Credit` balances runs and their causes: what has been made and what is being made
is paid for by the first request, the times the task was sent back, and the runs that overlapped
another; and a task that may run, with nobody running it, has a run to its credit.

`JudgeInv` carries `CriticalIsStopped`. Every gate row tells the truth about the versions it has
judged (`Truthful`), and what a transaction in flight has read is sound (`Sound`): an evaluation
judges at least the versions that the rows it is going to replace have judged, so whatever had
a pull request stays judged, however evaluations and runs overlap. Which row is the newest is
another matter: it is so as long as no evaluation has crossed a run, because then all gate rows,
and those that evaluations in flight are going to insert, have looked at the same versions
(`AllTheSame`). There is a newest row when there is one, since stamps are bounded by the number
of transactions begun (`SomeLatest`), and with it the scan of a pipeline stops what was judged
critical (`ScanStops`, `Scanned`).

The last part of `DevTaskProofs` is about the branch that a version is made of: the module
extends `Sandbox` as well, whose formulas bear its name (`SandboxSpec`). The theorems hold
whatever the sources, the edits and the tests. `BranchInv`: an edit that is not judged is
the last commit and differs from the one before at one path only (`OnePath`); the rows tell all
commits but that one (`TellInv`); and what the edit would go back to is as good as main was
(`GreenInv`), which is why a reset by one commit is enough. `Tells(n)` is about the first n
commits and says of each applied row which commit it is of; it holds on while rows and those
commits stay (`TellsStill`), and for one commit more, of one path, with a row of that path or
for no task (`TellsMore`). What the implementation stage leaves is shown to be told once
(`PlanTells`, `ApplyGeneratedKeeps`).

`EditsAreLocal` has two halves. The first is about the branch: `EditInv` says that what a
row tells is an edit that the engine has made, that is, the text its commit left is one that
`Transform` gives for the row's edit and the text before (`RowFromEdit`), and so is the edit
that waits for its tests (`PendingFromEdit`). Rows keep their numbers and the commits up to
theirs, whatever is committed or reset behind them (`RowStays`). The second half is about
texts, without any state: whatever `Transform` returns for a text and an edit is a text
again, keeps the rest and defines nothing twice that was not (`TransformIs`), with a lemma
for each operation (`AddFunctionIs`, `AddMethodIs`, `ReplaceFunctionIs`, `RemoveSymbolIs`,
`RenameSymbolIs`, `AnchoredIs`). These rest on what the operators on sequences return: the
first or last position with a property (`TopLevelIs`, `ImportLineIs`, from `Least` and
`Greatest`), the three parts of a text that is cut (`CutIs`), and the imports that are new,
in their order (`NewImportsAre`). The last needs that every number up to the size of a set
of positions is the rank of one of them (`RankReached`), by the least number that were not.

**Delivery.** `Links` says what a transaction in flight may rely on: a pipeline that still
has its number cuts the next release; a production deployment has a pipeline that was
staged (`Staged`, which nothing undoes, since rows are only appended or turned to rolled
back); a rollback has a release, and the row it replaces has stood in its environment. For
the files, `DiskInv`: two transactions that fill one directory have it among the redeployed
ones.

**Orchestration.** The bound of `OverspendBounded` is not inductive: nothing in it says why
a commit may add a charge. `Reach` adds to what is spent one call for each run that is past
the gate and may still charge the period (`MayCharge`). The gate opens only where what is
committed is within the limit, and those past it are no more than `overlap`. `PastOnly`
covers midnight: what has not begun has nothing in it.

The other theorems go through lists: the chain of providers, the next number of a
conversation, the sums of billing rows. The library's induction theorems cannot be used,
but a set of naturals that is not empty has a least member, by the well-foundedness of the
order (`Least`), and that gives induction over the length of a list (`Recursion`,
`OneRecursion`) and lemmas on what the recursive functions compute (`ChainIs`, `NextSeqIs`,
`PromptIs`, `TotalGrows`, `TotalAppend`). `RecordInv` says of a run in flight what its row
will have to say: `Told`, how each try of the chain ended, and `Follows`, that its messages
come after those of the rows it has seen. For `BilledAtMostUsed` a bound on the sums alone
is not inductive, since a run writes back what it read earlier. `BillInv` gives each row a
share of what was spent (`Backed`): no row exceeds its share, nor does what a run in flight
has read of it, and the shares sum up to at most the total. A commit pays its charge into
the share of the row that it writes.

**Planning.** The properties follow from the life of the job (`PlanInv`): an approval of the
whole plan is what makes it, and while an execution is in flight it has not completed
(`JobFirst`); the plan of a job stays approved unless a decision was stale (`PlanStays`); what
was planned and not edited is in the backlog or executed, and what is in the backlog an
execution takes (`NothingLeftOut`). Nothing follows from the status of the job alone, since a
control request may put it in line again at any time. That no item is executed twice for one
turn is therefore about the items (`TurnInv`): an item that is in the backlog, or in the hands
of an execution, has been executed at most as often as it was put back, and any other at most
once more.

**Knowledge.** One link per kind of transaction. `CodeLink`: whoever holds an inserted row
has the next code, and is alone. `WriteLink`: a writer's version is at most one beyond the
highest, and if nobody has added one since it read, it has the document's text in its
hands. `ViewLink`, `DecideLink` in the same way, counted from what the seed gave the document
(`First`). A creation or an update that goes through its tags changes no table and keeps what it
holds of its document (`Quiet`, `GoesOn`). `OrderInv` relates positions of items and
of those about to be added to what each has seen.

**RepositoryIndex.** `Emptied`: a scan that is alone meets no lock, and has emptied every
table before the one it is at. No assumption is made of what others left behind. For scans
that overlap, `LockInv`: what is locked was committed and is locked once. `LastInv` then
says of the scan that committed last that names and files in the tables are its own, and
of each scan in progress where it has, or still awaits, those rows, and by how many scans
it was overtaken if not (`Catches`, `Awaits`): one after the names, two after the layers,
three after the files. A scan that commits has them all, so nobody else does, and each
other one falls behind by one (`FallsBehind`). What the property assumes is true only of
some behaviours, and is used backwards in time: if it holds after a step, so much of it as
the invariant needs held before (`Favourable`).

**Session.** `SeenRight`, of every token and of every call the server is at: it carries the
present version if it has seen all logouts, and unless two overlapped, the version is the
number of logouts seen. `ExchangeInv`: a token that was exchanged is revoked, a call that
exchanges one nobody else does is the first, and whatever is revoked or refused has its
reason. `PageInv`: a call the page has left is at the server, and hydration is alone.

Not proved, only model-checked: the liveness properties (`EveryJobSettles`,
`ApprovalIsCarriedOut`, `EveryRunEnds`, `ExecutionEnds`, `RequestsEnd`, `ScansEnd`), which
rest on fairness and ENABLED, out of the prover's reach.

## Where code and documentation differ

`devtask_reapproval` is the run that shows one, with the lines quoted under `findings` in
`PROJECT.json`: "Founder approval auto-starts the CI/CD pipeline as a durable job"
(`services/dev_review.py:385`), but the key `pipeline:{task_id}` is permanent, so that after
a rework the second approval starts nothing.

Others that follow from the models, by TLC on the properties without their exceptions:

* `models/jobs.py:4`: "on startup, jobs left `running` by a crashed worker are recovered".
  Recovery skips heartbeats younger than 120 s and runs only at startup; after a quick
  restart the job stays running (`EveryJobSettles` without `RestartWaits`).
* `models/jobs.py:5-6`: "retry/cancel/pause/resume are all durable operations". The outcome
  of the handler overwrites a cancel that was given while it ran; or the cancel, accepted while
  it ran, overwrites the outcome, and a job that has completed may be retried.
* An approval that is committed behind the run of a rework approves code nobody has looked
  at, and the tests that make a version eligible may be those of an earlier run.
* `services/orchestration.py:569`: a stream "persists the run, message, metrics, usage, and
  cost on completion". The response is iterated when the session of its request has been
  committed and closed (FastAPI 0.115), so nothing after the first event is kept.
* `docs/implementation/knowledge-engine.md:58`: "Every content change snapshots a
  `knowledge_versions` row". Two updates at once make a text that no version has.
* `services/dev_maintenance.py:8`: "keep on green / hard-rollback on red". The gate reads
  "n failed" off the output of pytest; an edit after which the tests cannot be collected,
  or whose run is cut off, stays.
* `services/repository_service.py:6`: "Re-scanning is idempotent (previous index rows are
  replaced)". Not so of overlapping scans of an empty index, nor of four that overlap and
  overtake each other, whatever is indexed (see [RepositoryIndex](#repositoryindex)).
* `src/frontend/src/api/client.ts:2`: a token is "transparently" refreshed. The client
  stores the new access token and not the refresh token that was rotated with it, so the
  second expiry of a session, or two calls that are answered 401 at once, can end it
  without a logout; `docs/dev/common-errors.md:15` gives "Logged out elsewhere" as the only
  cause. Other ends of sessions the model has: a logout with an expired access token
  revokes nothing on the server; a refresh answered after the logout stores its access
  token, which signs the page in again when it is reloaded; a late refusal of an old
  session's refresh ends a new one; a network error while the page is loaded ends the
  session.

## Not modelled

* What generated code looks like (templates, providers, git), analyses and their scores,
  compilation and packaging, how a goal is cut into items: choices, grades or sizes.
* Access control: requests are made by somebody who may.
* Execution queue, reviews and hand-offs (`services/execution.py`): rows that are created,
  moved to any status a request names, and listed. There is no guard to protect; positions
  given by counting are the hazard of collections in `Knowledge`.
* The rate limiter: sequential in one event loop.
* Notifications, audit, activity, memory, learning, secrets, monitoring, organisation,
  dashboards, search and reports: rows that are appended, read or updated singly, with no
  invariant between them.
* In parts of modelled components: `run_workflow` of the orchestration, which calls
  `run_stage` once per stage; sprints, comments, milestones and dependencies; references,
  relationships and bookmarks of documents; registration and queries of repositories;
  the pages of the client.

The definitions of the models stand for about 5 000 lines, a sixth of the implementation.
The rest is what this list names: services that create, read and update single rows, the
schemas and endpoints in front of them, text processing, seeds, and pages. A model of it
would restate it without a property to check.

## Plan

Done, in this order: `JobQueue`, `DevTask`, `Delivery`; then `Planning`,
`DurableExecution` with the refinement, `Orchestration`, `Knowledge`, `Sandbox`,
`RepositoryIndex` and `Session`, and the proofs of their safety properties.

What would come next: the composition of `Planning` and `DevTask` over several items,
which share the worker; and several tabs of a browser that share their tokens in `Session`.
