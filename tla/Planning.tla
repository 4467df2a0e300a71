------------------------------ MODULE Planning ------------------------------
(***************************************************************************)
(* From a project to its development tasks: DecompositionService.decompose *)
(* and approve_plan, the project_execution job the approval enqueues, and  *)
(* what people do to the items in the meantime (WorkService).              *)
(*                                                                         *)
(* A request reads, then writes, and commits at its end; READ COMMITTED    *)
(* lets others commit in between.  The job is one row of the queue, worked *)
(* on by the one worker of the backend: workers that overlap are the       *)
(* subject of JobQueue, development tasks that of DevTask.                 *)
(***************************************************************************)
EXTENDS Naturals, Sequences, FiniteSets

CONSTANTS
  Requests,      \* requests that decompose, approve or control the job
  PlanSize,      \* items of a plan: its epics, five each
  MaxAttempts,   \* max_attempts of the job
  MaxItems,      \* bound: rows ever made
  MaxEvents      \* bound: edits, controls, failures and crashes, together

ASSUME SizesAssumption ==
  {PlanSize, MaxAttempts, MaxItems, MaxEvents} \subseteq Nat /\ PlanSize >= 1

Worker == "worker"
ASSUME WorkerAssumption == Worker \notin Requests
NoItem == 0

\* JobQueue.cancel, pause, resume, retry: the status each accepts and writes.
Accepts == [cancel |-> {"queued", "running", "paused"}, pause |-> {"queued"},
            resume |-> {"paused"}, retry |-> {"failed", "cancelled"}]
Writes  == [cancel |-> "cancelled", pause |-> "paused", resume |-> "queued", retry |-> "queued"]

Idle == [op |-> "idle"]
NoJob == [status |-> "none", attempts |-> 0]

VARIABLES
  plan,      \* plan_status of the project: "none", "decomposed", "approved"
  items,     \* its WorkItem rows, by id: code, status, and who made it
  made,      \* rows made so far: ids are never given again
  job,       \* the row with key project-exec:{id}
  tasks,     \* DevelopmentTask rows: code and work_item_id
  tx,        \* transactions in flight
  up,        \* the backend, with its worker, is running
  approved,  \* history: items of a plan when its approval began
  touched,   \* history: items a person has edited
  returned,  \* history: times a person has put an item back to the backlog
  stale,     \* history: a decision was committed over a plan it had not read
  events     \* counter

rows == <<plan, items, made, job, tasks>>
history == <<approved, touched, returned, stale>>
vars == <<rows, tx, up, history, events>>

Init ==
  /\ plan = "none" /\ items = <<>> /\ made = 0 /\ job = NoJob /\ tasks = <<>>
  /\ tx = [p \in Requests \union {Worker} |-> Idle]
  /\ up = TRUE /\ approved = {} /\ touched = {} /\ returned = <<>> /\ stale = FALSE /\ events = 0

Planned == {i \in DOMAIN items : items[i].by = "plan"}
Codes(ids) == {items[i].code : i \in ids}

\* Rows a transaction has flushed but not committed: others wait to write them.
Held(p) ==
  UNION {CASE tx[q].op = "decompose" /\ tx[q].stage = "write" -> tx[q].ids
           [] tx[q].op = "execute" /\ tx[q].stage = "commit" -> tx[q].ids
           [] OTHER -> {} : q \in DOMAIN tx \ {p}}

Event == events < MaxEvents /\ events' = events + 1

-----------------------------------------------------------------------------
(* Decomposition *)

\* Mutant: an approved plan is not locked.
NeverLocked == TRUE

\* The guard of decompose.
Unlocked == plan # "approved"

\* Room for the rows of the decompositions in flight (a bound of the model).
Room(n) == made + n + PlanSize * Cardinality({q \in Requests : tx[q].op = "decompose"}) <= MaxItems

\* decompose reads the project and the rows it is going to replace.
DecomposeBegin(p) ==
  /\ up /\ tx[p] = Idle /\ Unlocked /\ Room(PlanSize)
  /\ tx' = [tx EXCEPT ![p] = [op |-> "decompose", stage |-> "clear", plan |-> plan,
                              ids |-> DOMAIN items, base |-> 0]]
  /\ UNCHANGED <<rows, up, history, events>>

\* It deletes them, waiting for who has written them, and counts what is left
\* (_next_task_index).
DecomposeClear(p) ==
  /\ tx[p].op = "decompose" /\ tx[p].stage = "clear"
  /\ tx[p].ids \cap Held(p) = {}
  /\ tx' = [tx EXCEPT ![p].stage = "write", ![p].base = Cardinality(DOMAIN items \ tx[p].ids)]
  /\ UNCHANGED <<rows, up, history, events>>

\* task_code is unique: rows committed since then may have taken the codes.
NewCodes(t) == t.base + 1 .. t.base + PlanSize
CodesFree(t) == NewCodes(t) \cap Codes(DOMAIN items \ t.ids) = {}

\* The rows left, and those of the new plan.
Replanned(t) ==
  [i \in (DOMAIN items \ t.ids) \union (made + 1 .. made + PlanSize) |->
     IF i \in DOMAIN items THEN items[i]
     ELSE [code |-> t.base + i - made, status |-> "backlog", by |-> "plan"]]

\* plan_status is written when it was not "decomposed" before.
DecomposeCommit(p) ==
  LET t == tx[p] IN
  /\ t.op = "decompose" /\ t.stage = "write" /\ CodesFree(t)
  /\ items' = Replanned(t) /\ made' = made + PlanSize
  /\ plan' = IF t.plan = "decomposed" THEN plan ELSE "decomposed"
  /\ stale' = (stale \/ plan # t.plan \/ ~ Planned \subseteq t.ids)
  /\ tx' = [tx EXCEPT ![p] = Idle]
  /\ UNCHANGED <<job, tasks, up, approved, touched, returned, events>>

-----------------------------------------------------------------------------
(* Approval *)

ApproveBegin(p) ==
  /\ up /\ tx[p] = Idle /\ plan = "decomposed"
  /\ tx' = [tx EXCEPT ![p] = [op |-> "approve", stage |-> "write", had |-> job # NoJob,
                              ids |-> DOMAIN items]]
  /\ UNCHANGED <<rows, up, history, events>>

\* Mutant: an approval always queues an execution.
AlwaysQueued(had) == [status |-> "queued", attempts |-> 0]

\* enqueue returns the row of the key, in whatever state, or adds one.
Enqueued(had) == IF had THEN job ELSE [status |-> "queued", attempts |-> 0]

\* The key is unique: who saw no row and finds one fails.
KeyTaken(t) == ~ t.had /\ job # NoJob

ApproveCommit(p) ==
  LET t == tx[p] IN
  /\ t.op = "approve" /\ ~ KeyTaken(t)
  /\ plan' = "approved" /\ job' = Enqueued(t.had)
  /\ approved' = approved \union t.ids
  /\ stale' = (stale \/ ~ Planned \subseteq t.ids)
  /\ tx' = [tx EXCEPT ![p] = Idle]
  /\ UNCHANGED <<items, made, tasks, up, touched, returned, events>>

\* A duplicate code or key: the request fails and is rolled back.
Conflict(p) ==
  /\ \/ tx[p].op = "decompose" /\ tx[p].stage = "write" /\ ~ CodesFree(tx[p])
     \/ tx[p].op = "approve" /\ KeyTaken(tx[p])
  /\ tx' = [tx EXCEPT ![p] = Idle]
  /\ UNCHANGED <<rows, up, history, events>>

-----------------------------------------------------------------------------
(* Execution *)

Claim ==
  /\ up /\ tx[Worker] = Idle /\ job.status = "queued"
  /\ job' = [status |-> "running", attempts |-> job.attempts + 1]
  /\ tx' = [tx EXCEPT ![Worker] = [op |-> "execute", stage |-> "read", ids |-> {}, base |-> 0]]
  /\ UNCHANGED <<plan, items, made, tasks, up, history, events>>

\* The items the job takes.
Open == {i \in DOMAIN items : items[i].status = "backlog"}

ExecuteRead ==
  /\ tx[Worker].op = "execute" /\ tx[Worker].stage = "read"
  /\ tx' = [tx EXCEPT ![Worker].stage = "create", ![Worker].ids = Open]
  /\ UNCHANGED <<rows, up, history, events>>

\* create_task: codes by counting (_next_code); the items wait for who writes them.
ExecuteCreate ==
  /\ tx[Worker].op = "execute" /\ tx[Worker].stage = "create"
  /\ tx[Worker].ids \cap Held(Worker) = {}
  /\ tx' = [tx EXCEPT ![Worker].stage = "commit", ![Worker].base = Len(tasks)]
  /\ UNCHANGED <<rows, up, history, events>>

\* A deleted item cannot be updated, a code that is taken not be given again.
CanCommit(t) == t.ids \subseteq DOMAIN items /\ (t.ids = {} \/ t.base = Len(tasks))

\* One task for each of the items, in some order.
TasksOf(t) ==
  CHOOSE s \in [1..Cardinality(t.ids) -> t.ids] : \A i \in t.ids : \E n \in DOMAIN s : s[n] = i

\* Mutant: the items a task was made for stay in the backlog.
StartedNever(ids) == items

Started(ids) ==
  [i \in DOMAIN items |-> IF i \in ids THEN [items[i] EXCEPT !.status = "in_progress"] ELSE items[i]]

\* Tasks, items and the end of the job are committed together; complete writes
\* the status over whatever the job has now.
ExecuteCommit ==
  LET t == tx[Worker] IN
  /\ t.op = "execute" /\ t.stage = "commit" /\ CanCommit(t)
  /\ tasks' = tasks \o TasksOf(t)
  /\ items' = Started(t.ids)
  /\ job' = [job EXCEPT !.status = "completed"]
  /\ tx' = [tx EXCEPT ![Worker] = Idle]
  /\ UNCHANGED <<plan, made, up, history, events>>

\* Mutant: the last attempt ends the job as if it had succeeded.
FailedAsDone == [job EXCEPT !.status = IF job.attempts < MaxAttempts THEN "queued" ELSE "completed"]

\* Mutant: a failure leaves the job as it is.
FailedAsRunning == job

\* JobQueue.fail.
Failed == [job EXCEPT !.status = IF job.attempts < MaxAttempts THEN "queued" ELSE "failed"]

\* run_once after an exception: rolled back, and the failure recorded.
ExecuteFail ==
  /\ tx[Worker].op = "execute"
  /\ \/ tx[Worker].stage = "commit" /\ ~ CanCommit(tx[Worker]) /\ UNCHANGED events
     \/ tx[Worker].stage = "create" /\ Event
  /\ job' = Failed
  /\ tx' = [tx EXCEPT ![Worker] = Idle]
  /\ UNCHANGED <<plan, items, made, tasks, up, history>>

-----------------------------------------------------------------------------
(* People, control of the job, failures *)

\* WorkService.create_task: a code that is free.
CreateItem ==
  /\ Event /\ Room(1)
  /\ \E c \in 1..MaxItems \ Codes(DOMAIN items) :
       items' = [i \in DOMAIN items \union {made + 1} |->
                   IF i \in DOMAIN items THEN items[i]
                   ELSE [code |-> c, status |-> "backlog", by |-> "person"]]
  /\ made' = made + 1 /\ UNCHANGED <<touched, returned>>

Returns(i) == IF i \in DOMAIN returned THEN returned[i] ELSE 0

\* update_task sets any status.
UpdateItem(i) ==
  /\ \E s \in {"backlog", "other", "in_progress"} :
       /\ items' = [items EXCEPT ![i].status = s]
       /\ returned' = IF s # "backlog" \/ items[i].status = s THEN returned
                      ELSE [j \in DOMAIN returned \union {i} |-> IF j = i THEN Returns(i) + 1 ELSE returned[j]]
  /\ touched' = touched \union {i} /\ UNCHANGED made

\* assign_task takes an item off the backlog.
AssignItem(i) ==
  /\ items' = [items EXCEPT ![i].status = IF @ = "backlog" THEN "other" ELSE @]
  /\ touched' = touched \union {i} /\ UNCHANGED <<made, returned>>

DeleteItem(i) ==
  /\ items' = [j \in DOMAIN items \ {i} |-> items[j]]
  /\ touched' = touched \union {i} /\ UNCHANGED <<made, returned>>

Edit ==
  /\ up
  /\ \/ CreateItem
     \/ \E i \in DOMAIN items \ Held("nobody") : Event /\ (UpdateItem(i) \/ AssignItem(i) \/ DeleteItem(i))
  /\ UNCHANGED <<plan, job, tasks, tx, up, approved, stale>>

\* A development task that is created by hand.
CreateTask ==
  /\ up /\ Event
  /\ tasks' = Append(tasks, NoItem)
  /\ UNCHANGED <<plan, items, made, job, tx, up, history>>

\* JobQueue.cancel, pause, resume and retry: the row is read and its status
\* accepted, and what was decided from it is written when the request commits.
ControlLoad(p) ==
  /\ up /\ tx[p] = Idle /\ Event
  /\ \E control \in DOMAIN Accepts :
       /\ job.status \in Accepts[control]
       /\ tx' = [tx EXCEPT ![p] = [op |-> "control", control |-> control]]
  /\ UNCHANGED <<rows, up, history>>

ControlApply(p) ==
  /\ tx[p].op = "control"
  /\ job' = [job EXCEPT !.status = Writes[tx[p].control]]
  /\ tx' = [tx EXCEPT ![p] = Idle]
  /\ UNCHANGED <<plan, items, made, tasks, up, history, events>>

\* The backend dies, and with it what is not committed.
Crash ==
  /\ up /\ Event
  /\ up' = FALSE /\ tx' = [p \in DOMAIN tx |-> Idle]
  /\ UNCHANGED <<rows, history>>

\* It starts when the heartbeat is old enough, and recover_orphans requeues.
Start ==
  /\ ~ up /\ up' = TRUE
  /\ job' = IF job.status = "running" THEN [job EXCEPT !.status = "queued"] ELSE job
  /\ UNCHANGED <<plan, items, made, tasks, tx, history, events>>

Execute == ExecuteRead \/ ExecuteCreate \/ ExecuteCommit \/ ExecuteFail
Finish(p) == DecomposeClear(p) \/ DecomposeCommit(p) \/ ApproveCommit(p) \/ Conflict(p) \/ ControlApply(p)
Next ==
  \/ \E p \in Requests : DecomposeBegin(p) \/ ApproveBegin(p) \/ ControlLoad(p) \/ Finish(p)
  \/ Claim \/ Execute \/ Edit \/ CreateTask \/ Crash \/ Start

\* The worker polls, a request that has begun goes on, the backend is restarted.
Fairness ==
  /\ WF_vars(Claim) /\ WF_vars(Execute) /\ WF_vars(Start)
  /\ \A p \in Requests : WF_vars(Finish(p))

Spec == Init /\ [][Next]_vars
FairSpec == Spec /\ Fairness

-----------------------------------------------------------------------------
(* Properties *)

Ids == 1..made

Plans == {"none", "decomposed", "approved"}
Rows == [code : Nat, status : {"backlog", "other", "in_progress"}, by : {"plan", "person"}]
Decompositions ==
  [op : {"decompose"}, stage : {"clear", "write"}, plan : Plans \ {"approved"}, ids : SUBSET Ids, base : Nat]
Approvals == [op : {"approve"}, stage : {"write"}, had : BOOLEAN, ids : SUBSET Ids]
JobControls == [op : {"control"}, control : DOMAIN Accepts]
Executions == [op : {"execute"}, stage : {"read", "create", "commit"}, ids : SUBSET Ids, base : Nat]

\* Every variable has its type.
TypeOK ==
  /\ plan \in Plans /\ made \in Nat
  /\ DOMAIN items \subseteq Ids /\ items \in [DOMAIN items -> Rows]
  /\ job \in [status : {"none", "queued", "running", "paused", "cancelled", "failed",
                        "completed"}, attempts : Nat]
  /\ tasks \in Seq(Ids \union {NoItem})
  /\ DOMAIN tx = Requests \union {Worker}
  /\ tx[Worker] \in {Idle} \union Executions
  /\ \A p \in Requests : tx[p] \in {Idle} \union Decompositions \union Approvals \union JobControls
  /\ up \in BOOLEAN /\ stale \in BOOLEAN
  /\ approved \subseteq Ids /\ touched \subseteq Ids
  /\ DOMAIN returned \subseteq Ids /\ returned \in [DOMAIN returned -> Nat]

\* What is executed of a plan was in one the Founder approved
\* (project_decomposition.py: "MUST be Founder-approved before any execution").
OnlyApprovedRuns ==
  \A i \in {tasks[n] : n \in DOMAIN tasks} \ {NoItem} :
    i \in approved \/ (i \in DOMAIN items /\ items[i].by = "person") \/ i \in touched

\* That holds as long as no decision is taken over a plan it has not read: the
\* lock of decompose keeps an approved plan, whatever fails and is retried.
FreshApprovedRuns == stale \/ OnlyApprovedRuns

\* However often the job fails, is recovered, or is put in line again - even one
\* that has ended, by a control decided before it did - an item becomes one
\* development task, and one more each time a person has put it back to the
\* backlog (_project_execution, run_once).
OneTaskPerTurn ==
  \A i \in {tasks[n] : n \in DOMAIN tasks} \ {NoItem} :
    Cardinality({n \in DOMAIN tasks : tasks[n] = i}) <= 1 + Returns(i)

\* A completed execution has left out no item of the approved plan that
\* nobody has edited (_project_execution, complete).
CompletedMeansExecuted ==
  (~ stale /\ job.status = "completed") =>
    \A i \in (Planned \cap approved) \ touched : \E n \in DOMAIN tasks : tasks[n] = i

\* A queued execution ends, unless people stop it (claim_next, fail, recover_orphans).
ExecutionEnds ==
  job.status = "queued" ~> job.status \in {"completed", "failed", "cancelled", "paused"}
=============================================================================
