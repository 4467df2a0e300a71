------------------------------ MODULE JobQueue ------------------------------
(***************************************************************************)
(* The durable job queue of the backend: app/services/job_queue.py (the    *)
(* operations on the "jobs" table), app/services/job_worker.py (the loop   *)
(* that claims and runs jobs) and app/api/v1/jobs.py (the control          *)
(* endpoints).                                                             *)
(*                                                                         *)
(* Every database transaction is a step of its own.  The sessions run at   *)
(* READ COMMITTED and take no lock when they read, so an operation that    *)
(* reads a row, looks at it and writes it back is two steps: what another  *)
(* session commits in between is overwritten.  claim_next alone repeats    *)
(* its guard in the UPDATE.                                                *)
(*                                                                         *)
(* Time is abstracted to two flags per row: "due" (scheduled_at <= now)    *)
(* and "fresh" (heartbeat_at within stale_seconds).                        *)
(***************************************************************************)
EXTENDS Naturals, FiniteSets

CONSTANTS
  Jobs,          \* rows of the table, numbered in the order of created_at
  Workers,       \* processes that run a JobWorker
  Clients,       \* API requests in flight
  Priority,      \* Priority[j]: the priority job j is enqueued with
  Key,           \* Key[j]: its idempotency_key, or NoKey
  NoKey,
  MaxAttempts,   \* max_attempts of every job
  MaxOps,        \* bound: control requests
  MaxExits,      \* bound: ends of a process (crash, kill or stop)
  MaxFaults,     \* bound: database errors while an outcome is recorded
  RestartWaits   \* TRUE: a process comes up only once the heartbeats that
                 \* dead processes left behind are out of the window

NoJob == 0

ASSUME JobsAssumption == IsFiniteSet(Jobs) /\ Jobs \subseteq Nat \ {NoJob}
ASSUME ActorsAssumption == IsFiniteSet(Workers)
ASSUME PriorityAssumption == Priority \in [Jobs -> Nat]
ASSUME AttemptsAssumption == MaxAttempts \in Nat \ {0}
ASSUME BoundsAssumption == {MaxOps, MaxExits, MaxFaults} \subseteq Nat
ASSUME RestartAssumption == RestartWaits \in BOOLEAN

VARIABLES
  status,    \* row: status ("absent": not inserted yet)
  attempts,  \* row: attempts
  due,       \* row: scheduled_at <= now
  fresh,     \* row: heartbeat_at is within the window
  pc,        \* worker: where run_once or start() stands
  job,       \* worker: the job selected or held
  seen,      \* worker: the row fail() has loaded
  orphans,   \* worker: the rows recover_orphans has loaded
  req,       \* client: the operation whose precondition has been checked
  effects,   \* history: handler transactions committed for the job
  requeues,  \* history: times recovery or a client put the job back in line
  ops, exits, faults   \* counters behind the bounds

rows == <<status, attempts, due, fresh>>
work == <<pc, job, seen, orphans>>
hist == <<effects, requeues>>
vars == <<rows, work, req, hist, ops, exits, faults>>

Terminal == {"completed", "failed", "cancelled"}
Waiting  == {"queued", "paused"}
Statuses == Terminal \union Waiting \union {"absent", "running"}

\* The control operations: the statuses each accepts, and the one it writes.
Controls  == {"cancel", "pause", "resume", "retry"}
Accepts   == [cancel |-> {"queued", "running", "paused"}, pause |-> {"queued"},
              resume |-> {"paused"}, retry |-> {"failed", "cancelled"}]
Writes    == [cancel |-> "cancelled", pause |-> "paused",
              resume |-> "queued", retry |-> "queued"]
NoRequest == [op |-> "none", job |-> NoJob]
NothingSeen == [status |-> "absent", attempts |-> 0]

Busy == {"claimed", "working", "failing"}

\* The workers whose handler for j, or its bookkeeping, has not ended.
Executors(j) == {w \in Workers : pc[w] \in Busy /\ job[w] = j}

Init ==
  /\ status = [j \in Jobs |-> "absent"]
  /\ attempts = [j \in Jobs |-> 0]
  /\ due = [j \in Jobs |-> FALSE]
  /\ fresh = [j \in Jobs |-> FALSE]
  /\ pc = [w \in Workers |-> "down"]
  /\ job = [w \in Workers |-> NoJob]
  /\ seen = [w \in Workers |-> NothingSeen]
  /\ orphans = [w \in Workers |-> {}]
  /\ req = [c \in Clients |-> NoRequest]
  /\ effects = [j \in Jobs |-> 0]
  /\ requeues = [j \in Jobs |-> 0]
  /\ ops = 0 /\ exits = 0 /\ faults = 0

-----------------------------------------------------------------------------
(* Producers *)

\* enqueue: an existing row with the same key is returned instead; when two
\* requests race, the UNIQUE constraint fails one of them.
Enqueue(j) ==
  /\ status[j] = "absent"
  /\ Key[j] # NoKey => \A k \in Jobs : Key[k] = Key[j] => status[k] = "absent"
  /\ status' = [status EXCEPT ![j] = "queued"]
  /\ due' = [due EXCEPT ![j] = TRUE]
  /\ UNCHANGED <<attempts, fresh, work, req, hist, ops, exits, faults>>

-----------------------------------------------------------------------------
(* The worker: run_once *)

\* Mutant: scheduled_at is not looked at.
ClaimableEarly == {j \in Jobs : status[j] = "queued"}
Claimable == {j \in Jobs : status[j] = "queued" /\ due[j]}

\* Order by priority descending, then created_at ascending.
Before(j, k) == \/ Priority[j] > Priority[k]
                \/ Priority[j] = Priority[k] /\ j < k

\* claim_next, the SELECT.
SelectCandidate(w) ==
  /\ pc[w] = "idle"
  /\ \E j \in Claimable :
       /\ \A k \in Claimable \ {j} : Before(j, k)
       /\ job' = [job EXCEPT ![w] = j]
  /\ pc' = [pc EXCEPT ![w] = "selected"]
  /\ UNCHANGED <<rows, seen, orphans, req, hist, ops, exits, faults>>

\* Mutant: the UPDATE selects by id only.
StillQueuedUnguarded(j) == TRUE

\* The WHERE clause of the UPDATE: the status again, but not scheduled_at.
StillQueued(j) == status[j] = "queued"

\* claim_next, the guarded UPDATE that hits the row, and run_once's commit.
Claim(w) ==
  LET j == job[w] IN
  /\ pc[w] = "selected"
  /\ StillQueued(j)
  /\ status' = [status EXCEPT ![j] = "running"]
  /\ attempts' = [attempts EXCEPT ![j] = @ + 1]
  /\ fresh' = [fresh EXCEPT ![j] = TRUE]
  /\ pc' = [pc EXCEPT ![w] = "claimed"]
  /\ UNCHANGED <<due, job, seen, orphans, req, hist, ops, exits, faults>>

\* claim_next, the guarded UPDATE that hits nothing.
LoseRace(w) ==
  /\ pc[w] = "selected"
  /\ ~StillQueued(job[w])
  /\ pc' = [pc EXCEPT ![w] = "idle"]
  /\ job' = [job EXCEPT ![w] = NoJob]
  /\ UNCHANGED <<rows, seen, orphans, req, hist, ops, exits, faults>>

\* The one heartbeat of a handler, committed before its work.
\* project_execution has none and goes on from "claimed".
Heartbeat(w) ==
  /\ pc[w] = "claimed"
  /\ fresh' = [fresh EXCEPT ![job[w]] = TRUE]
  /\ pc' = [pc EXCEPT ![w] = "working"]
  /\ UNCHANGED <<status, attempts, due, job, seen, orphans, req, hist, ops, exits, faults>>

\* The handler returned: complete() and the handler's own writes commit
\* together.  The row is not looked at again.
Complete(w) ==
  LET j == job[w] IN
  /\ pc[w] \in {"claimed", "working"}
  /\ status' = [status EXCEPT ![j] = "completed"]
  /\ effects' = [effects EXCEPT ![j] = @ + 1]
  /\ pc' = [pc EXCEPT ![w] = "idle"]
  /\ job' = [job EXCEPT ![w] = NoJob]
  /\ UNCHANGED <<attempts, due, fresh, seen, orphans, req, requeues, ops, exits, faults>>

\* The handler (or complete) raised: roll back and load the row again.
LoadFailed(w) ==
  /\ pc[w] \in {"claimed", "working"}
  /\ seen' = [seen EXCEPT ![w] = [status |-> status[job[w]], attempts |-> attempts[job[w]]]]
  /\ pc' = [pc EXCEPT ![w] = "failing"]
  /\ UNCHANGED <<rows, job, orphans, req, hist, ops, exits, faults>>

\* Mutant: one attempt too few.
MayRetryOnceLess(n) == n + 1 < MaxAttempts

MayRetry(n) == n < MaxAttempts

\* Mutant: run_once does not commit after fail().
FailUncommitted(w) ==
  /\ pc[w] = "failing"
  /\ pc' = [pc EXCEPT ![w] = "idle"]
  /\ job' = [job EXCEPT ![w] = NoJob]
  /\ seen' = [seen EXCEPT ![w] = NothingSeen]
  /\ UNCHANGED <<rows, orphans, req, hist, ops, exits, faults>>

\* fail() and its commit.  The mapper writes only the columns whose value
\* differs from the one loaded.
Fail(w) ==
  LET j == job[w]
      again == MayRetry(seen[w].attempts)
      outcome == IF again THEN "queued" ELSE "failed"
  IN
  /\ pc[w] = "failing"
  /\ status' = IF outcome = seen[w].status THEN status
               ELSE [status EXCEPT ![j] = outcome]
  /\ due' = IF again THEN [due EXCEPT ![j] = FALSE] ELSE due
  /\ pc' = [pc EXCEPT ![w] = "idle"]
  /\ job' = [job EXCEPT ![w] = NoJob]
  /\ seen' = [seen EXCEPT ![w] = NothingSeen]
  /\ UNCHANGED <<attempts, fresh, orphans, req, hist, ops, exits, faults>>

\* The database is not there to record the outcome: _loop swallows the error
\* and goes on, the row stays as it is.
LoseOutcome(w) ==
  /\ pc[w] \in Busy
  /\ faults < MaxFaults
  /\ faults' = faults + 1
  /\ pc' = [pc EXCEPT ![w] = "idle"]
  /\ job' = [job EXCEPT ![w] = NoJob]
  /\ seen' = [seen EXCEPT ![w] = NothingSeen]
  /\ UNCHANGED <<rows, orphans, req, hist, ops, exits>>

-----------------------------------------------------------------------------
(* The life of a worker process *)

\* The process ends: a crash, a kill, or stop(), which waits two seconds and
\* then leaves the daemon thread to die with the process.
Exit(w) ==
  /\ pc[w] # "down"
  /\ exits < MaxExits
  /\ exits' = exits + 1
  /\ pc' = [pc EXCEPT ![w] = "down"]
  /\ job' = [job EXCEPT ![w] = NoJob]
  /\ seen' = [seen EXCEPT ![w] = NothingSeen]
  /\ orphans' = [orphans EXCEPT ![w] = {}]
  /\ UNCHANGED <<rows, req, hist, ops, faults>>

Abandoned == {j \in Jobs : status[j] = "running" /\ Executors(j) = {}}

\* Mutants: every stale row, whatever its status; the comparison turned round.
LooksOrphanedAnyStatus(j) == status[j] # "absent" /\ ~fresh[j]
LooksOrphanedFresh(j) == status[j] = "running" /\ fresh[j]

\* What recover_orphans takes for the job of a crashed worker.
LooksOrphaned(j) == status[j] = "running" /\ ~fresh[j]

\* start() -> recover() -> recover_orphans, the SELECT.
Start(w) ==
  /\ pc[w] = "down"
  /\ RestartWaits => \A j \in Abandoned : ~fresh[j]
  /\ orphans' = [orphans EXCEPT ![w] = {j \in Jobs : LooksOrphaned(j)}]
  /\ pc' = [pc EXCEPT ![w] = "recovering"]
  /\ UNCHANGED <<rows, job, seen, req, hist, ops, exits, faults>>

\* recover_orphans, the writes and the commit; the polling thread starts.
RecoverOrphans(w) ==
  /\ pc[w] = "recovering"
  /\ status' = [j \in Jobs |-> IF j \in orphans[w] THEN "queued" ELSE status[j]]
  /\ due' = [j \in Jobs |-> IF j \in orphans[w] THEN TRUE ELSE due[j]]
  /\ requeues' = [j \in Jobs |-> IF j \in orphans[w] /\ status[j] \notin Waiting
                                 THEN requeues[j] + 1 ELSE requeues[j]]
  /\ orphans' = [orphans EXCEPT ![w] = {}]
  /\ pc' = [pc EXCEPT ![w] = "idle"]
  /\ UNCHANGED <<attempts, fresh, job, seen, req, effects, ops, exits, faults>>

-----------------------------------------------------------------------------
(* Control requests: cancel, pause, resume, retry *)

\* The row is loaded and its status accepted.  (A refusal changes nothing.)
Load(c, op, j) ==
  /\ req[c] = NoRequest
  /\ ops < MaxOps
  /\ status[j] \in Accepts[op]
  /\ req' = [req EXCEPT ![c] = [op |-> op, job |-> j]]
  /\ ops' = ops + 1
  /\ UNCHANGED <<rows, work, hist, exits, faults>>

\* The write and the commit at the end of the request.
Apply(c) ==
  LET op == req[c].op
      j == req[c].job
  IN
  /\ req[c] # NoRequest
  /\ status' = [status EXCEPT ![j] = Writes[op]]
  /\ due' = IF op \in {"resume", "retry"} THEN [due EXCEPT ![j] = TRUE] ELSE due
  /\ requeues' = IF Writes[op] \in Waiting /\ status[j] \notin Waiting
                 THEN [requeues EXCEPT ![j] = @ + 1] ELSE requeues
  /\ req' = [req EXCEPT ![c] = NoRequest]
  /\ UNCHANGED <<attempts, fresh, work, effects, ops, exits, faults>>

-----------------------------------------------------------------------------
(* Time *)

\* scheduled_at passes.
Elapse(j) ==
  /\ status[j] # "absent" /\ ~due[j]
  /\ due' = [due EXCEPT ![j] = TRUE]
  /\ UNCHANGED <<status, attempts, fresh, work, req, hist, ops, exits, faults>>

\* heartbeat_at leaves the window; the handler may still be running.
Expire(j) ==
  /\ fresh[j]
  /\ fresh' = [fresh EXCEPT ![j] = FALSE]
  /\ UNCHANGED <<status, attempts, due, work, req, hist, ops, exits, faults>>

-----------------------------------------------------------------------------
WorkerStep(w) ==
  \/ SelectCandidate(w) \/ Claim(w) \/ LoseRace(w)
  \/ Heartbeat(w) \/ Complete(w) \/ LoadFailed(w) \/ Fail(w)
  \/ Start(w) \/ RecoverOrphans(w)

Next ==
  \/ \E j \in Jobs : Enqueue(j) \/ Elapse(j) \/ Expire(j)
  \/ \E w \in Workers : WorkerStep(w) \/ LoseOutcome(w) \/ Exit(w)
  \/ \E c \in Clients :
       Apply(c) \/ \E op \in Controls, j \in Jobs : Load(c, op, j)

\* The polling thread keeps going, handlers return or raise, a process that
\* ended is started again, and time passes.  Nothing is assumed of clients,
\* and neither an exit nor a database fault has to happen.
Fairness ==
  /\ \A w \in Workers : WF_vars(WorkerStep(w))
  /\ \A j \in Jobs : WF_vars(Elapse(j)) /\ WF_vars(Expire(j))

Spec == Init /\ [][Next]_vars /\ Fairness
-----------------------------------------------------------------------------
(* Properties *)

\* The values of every variable; a worker holds a job exactly while its pc says so.
TypeOK ==
  /\ status \in [Jobs -> Statuses]
  /\ attempts \in [Jobs -> Nat]
  /\ due \in [Jobs -> BOOLEAN] /\ fresh \in [Jobs -> BOOLEAN]
  /\ pc \in [Workers -> {"down", "recovering", "idle", "selected"} \union Busy]
  /\ job \in [Workers -> Jobs \union {NoJob}]
  /\ \A w \in Workers : job[w] # NoJob <=> pc[w] \in {"selected"} \union Busy
  /\ seen \in [Workers -> [status : Statuses, attempts : Nat]]
  /\ orphans \in [Workers -> SUBSET Jobs]
  /\ req \in [Clients -> [op : Controls, job : Jobs] \union {NoRequest}]
  /\ effects \in [Jobs -> Nat] /\ requeues \in [Jobs -> Nat]
  /\ {ops, exits, faults} \subseteq Nat

\* One if the job stands in line, else zero.
InLine(j) == IF status[j] \in Waiting THEN 1 ELSE 0

\* Each time a job is put in line pays for one execution: however workers,
\* requests, recoveries and exits interleave, the executions in progress, the
\* place in line and the handler transactions already committed never exceed
\* one plus the times recovery or a client put the job back.  In particular
\* the guarded UPDATE of claim_next never lets two workers take one place.
ExecutionBudget ==
  \A j \in Jobs :
    Cardinality(Executors(j)) + effects[j] + InLine(j) <= 1 + requeues[j]

\* max_attempts bounds the attempts, but for one more each time recovery or a
\* client puts the job back (neither resets or checks the counter).
AttemptBudget == \A j \in Jobs : attempts[j] <= MaxAttempts + requeues[j]

\* A job is given up only after max_attempts attempts, even when the failure
\* is recorded by a worker whose job was meanwhile given to another one.
FailedIsExhausted ==
  \A j \in Jobs : status[j] = "failed" => attempts[j] >= MaxAttempts

\* The attempts of a job are all used before it is given up, and no more.
AttemptsAreKept == AttemptBudget /\ FailedIsExhausted

\* As long as no process ends and the database is there, a row never says
\* "running" when nobody runs it (only start() would ever look at it again).
RunningIsRun == exits = 0 /\ faults = 0 => Abandoned = {}

\* With one worker and before any control request, whatever the crashes: the
\* handler's transaction commits at most once, and exactly when the job is
\* recorded as completed.
ExactlyOnce ==
  ops = 0 => \A j \in Jobs : effects[j] = IF status[j] = "completed" THEN 1 ELSE 0

\* The backoff that fail() sets is waited out: a job is claimed when due.
ClaimsOnlyDue ==
  [][\A w \in Workers : pc[w] = "selected" /\ pc'[w] = "claimed" => due[job[w]]]_vars

\* With one worker, restarts that come after the heartbeat window and no fault
\* of the database, a job that was enqueued gets an outcome or stands paused,
\* whatever the crashes and the control requests.
EveryJobSettles ==
  [](faults = 0) =>
    \A j \in Jobs : (status[j] # "absent") ~> (status[j] \in Terminal \union {"paused"})

-----------------------------------------------------------------------------
(* What the queue promises (DurableExecution), and how its rows and workers keep it *)

\* A row has been put in line when it was inserted and at every requeue.
Paid == [j \in Jobs |-> IF status[j] = "absent" THEN 0 ELSE 1 + requeues[j]]

Running == [j \in Jobs |-> Cardinality(Executors(j))]

Promise == INSTANCE DurableExecution WITH paid <- Paid, running <- Running, done <- effects

\* Every claim, retry, crash, recovery and control request is a step of the
\* promise, or none: no execution starts that has not been paid for, and one
\* that was given up by its process leaves no effects behind.
KeepsPromise == Promise!Spec

-----------------------------------------------------------------------------
(* The inductive invariant behind the first four safety properties *)

\* A job that is not inserted yet is known to nobody.
AbsentIsUnknown ==
  \A j \in Jobs : status[j] = "absent" =>
    /\ attempts[j] = 0 /\ effects[j] = 0 /\ requeues[j] = 0
    /\ \A w \in Workers : job[w] # j /\ j \notin orphans[w]
    /\ \A c \in Clients : req[c].job # j

\* The workers about to put j back in line after a failure.
Requeuers(j) == {w \in Workers : pc[w] = "failing" /\ job[w] = j /\ MayRetry(seen[w].attempts)}

\* Each such worker and each place in line may lead to one more attempt.
AttemptCredit ==
  \A j \in Jobs :
    attempts[j] + Cardinality(Requeuers(j)) + InLine(j) <= MaxAttempts + requeues[j]

\* What fail() has loaded is the past of a counter that only grows.
SeenIsPast ==
  \A w \in Workers : pc[w] = "failing" => seen[w].attempts <= attempts[job[w]]

\* A row that says "running" has an executor whose outcome will change it:
\* one that did not load another status before.
RunningHasWriter ==
  exits = 0 /\ faults = 0 =>
    \A j \in Jobs : status[j] = "running" =>
      \E w \in Executors(j) : pc[w] = "failing" => seen[w].status = "running"

\* All of it, proved inductive in JobQueueProofs.
IInv ==
  /\ TypeOK /\ AbsentIsUnknown
  /\ ExecutionBudget /\ AttemptCredit
  /\ SeenIsPast /\ FailedIsExhausted
  /\ RunningHasWriter
=============================================================================
