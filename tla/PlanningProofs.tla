--------------------------- MODULE PlanningProofs ---------------------------
(***************************************************************************)
(* What is executed of a plan: FreshApprovedRuns, OneTaskPerTurn and       *)
(* CompletedMeansExecuted, for any requests, plans, attempts and bounds.   *)
(*                                                                         *)
(* None of them is inductive.  The first and the last follow from the life *)
(* of the job: an approval of the whole plan is what makes it, nothing     *)
(* makes a task before it, an execution in flight has what is not executed *)
(* yet, and a decomposition that commits over it has read another plan.    *)
(* That an item is executed once for each of its turns does not rest on    *)
(* the job, which controls may put in line at any time: an item that is in *)
(* the backlog, or taken by the execution in flight, has a turn to spend.  *)
(***************************************************************************)
EXTENDS Planning, FiniteSetTheorems, TLAPS

Executed == {tasks[n] : n \in DOMAIN tasks} \ {NoItem}

\* There is a job when something is executed or controlled, and it has not
\* completed while an execution is in flight.
JobFirst ==
  /\ tx[Worker] # Idle => job.status \notin {"none", "completed"}
  /\ Executed # {} => job.status # "none"
  /\ \A p \in Requests : tx[p].op = "control" => job.status # "none"

\* Unless a decision was taken over a plan it had not read, the plan of the job
\* is the approved one.
PlanStays == ~ stale /\ job.status # "none" => plan = "approved" /\ Planned \subseteq approved

\* What was planned and nobody has edited is open or executed; of what is open
\* an execution in flight has all, and a completed one has left nothing.
NothingLeftOut ==
  /\ \A i \in Planned \ touched : items[i].status = "backlog" \/ i \in Executed
  /\ ~ stale /\ tx[Worker] # Idle /\ tx[Worker].stage # "read" =>
       Planned \ touched \subseteq tx[Worker].ids \union Executed
  /\ ~ stale /\ job.status = "completed" => Planned \ touched \subseteq Executed

\* How often an item is executed, and whether it is going to be.
Turns(i) == Cardinality({n \in DOMAIN tasks : tasks[n] = i})
Due(i) ==
  \/ i \in DOMAIN items /\ items[i].status = "backlog"
  \/ tx[Worker] # Idle /\ i \in tx[Worker].ids

\* An item that is due has a turn to spend.
TurnInv ==
  \A i \in Nat \ {NoItem} :
    /\ Turns(i) \in Nat /\ Turns(i) <= 1 + Returns(i)
    /\ Due(i) => Turns(i) <= Returns(i)

\* The items a task may be made for.
MayRun(i) == i \in approved \/ (i \in DOMAIN items /\ items[i].by = "person") \/ i \in touched

PlanInv == JobFirst /\ PlanStays /\ NothingLeftOut /\ FreshApprovedRuns

-----------------------------------------------------------------------------
(* The types *)

LEMMA TypeInit == Init => TypeOK
<1> SUFFICES ASSUME Init PROVE TypeOK
  OBVIOUS
<1>1. items \in [DOMAIN items -> Rows] /\ DOMAIN items \subseteq Ids
  BY DEF Init, Rows, Ids
<1>2. tasks \in Seq(Ids \union {NoItem})
  BY DEF Init
<1>3. DOMAIN returned \subseteq Ids /\ returned \in [DOMAIN returned -> Nat]
  BY DEF Init, Ids
<1>4. /\ plan \in Plans /\ made \in Nat /\ up \in BOOLEAN /\ stale \in BOOLEAN
      /\ approved \subseteq Ids /\ touched \subseteq Ids
  BY DEF Init, Plans
<1>5. /\ DOMAIN tx = Requests \union {Worker} /\ tx[Worker] = Idle
      /\ \A p \in Requests : tx[p] = Idle
      /\ job = [status |-> "none", attempts |-> 0]
  BY DEF Init, NoJob
<1> QED
  BY <1>1, <1>2, <1>3, <1>4, <1>5 DEF TypeOK

Jobs == [status : {"none", "queued", "running", "paused", "cancelled", "failed", "completed"},
         attempts : Nat]
RequestTypes == {Idle} \union Decompositions \union Approvals \union JobControls

\* Types of the columns are kept when rows are added.
LEMMA TypesGrow ==
  ASSUME TypeOK, made' \in Nat, made <= made'
  PROVE  /\ Ids \subseteq Ids'
         /\ tasks \in Seq(Ids' \union {NoItem})
         /\ tx[Worker] \in {Idle} \union Executions'
         /\ \A p \in Requests : tx[p] \in RequestTypes'
<1>1. Ids \subseteq Ids'
  BY DEF TypeOK, Ids
<1>2. tasks \in Seq(Ids' \union {NoItem})
  BY <1>1 DEF TypeOK
<1>3. Executions \subseteq Executions' /\ Decompositions \subseteq Decompositions'
      /\ Approvals \subseteq Approvals'
  BY <1>1 DEF Executions, Decompositions, Approvals
<1> QED
  BY <1>1, <1>2, <1>3 DEF TypeOK, RequestTypes, Idle

\* The tasks of an execution are for its items, one for each.
LEMMA ExecutedIds ==
  ASSUME TypeOK, NEW t \in Executions
  PROVE  LET n == Cardinality(t.ids) IN
         /\ n \in Nat
         /\ TasksOf(t) \in [1..n -> t.ids]
         /\ \A i \in t.ids : \E k \in 1..n : TasksOf(t)[k] = i
         /\ \A k, l \in 1..n : TasksOf(t)[k] = TasksOf(t)[l] => k = l
<1> DEFINE n == Cardinality(t.ids)
           Lists(s) == \A i \in t.ids : \E k \in DOMAIN s : s[k] = i
<1>1. IsFiniteSet(t.ids)
  <2>1. IsFiniteSet(Ids)
    <3>1. made \in Int
      BY DEF TypeOK
    <3> QED
      BY <3>1, FS_Interval DEF Ids
  <2>2. t.ids \subseteq Ids
    BY DEF Executions
  <2> QED
    BY <2>1, <2>2, FS_Subset
<1>2. n \in Nat /\ ExistsBijection(1..n, t.ids)
  BY <1>1, FS_CardinalityType
<1>3. PICK b \in [1..n -> t.ids] : Lists(b)
  BY <1>2 DEF ExistsBijection, Bijection, Surjection
<1>4. TasksOf(t) \in [1..n -> t.ids] /\ Lists(TasksOf(t))
  BY <1>3 DEF TasksOf
<1>5. TasksOf(t) \in Surjection(1..n, t.ids)
  BY <1>4 DEF Surjection
<1>6. IsFiniteSet(1..n) /\ Cardinality(1..n) = n
  BY <1>2, FS_Interval
<1>7. TasksOf(t) \in Injection(1..n, t.ids)
  BY <1>1, <1>5, <1>6, FS_SurjSameCardinalityImpliesInj
<1> QED
  BY <1>2, <1>4, <1>7 DEF Injection, IsInjective

\* What people do to an item: only putting it back to the backlog is a return.
LEMMA EditReturns ==
  ASSUME TypeOK, NEW i \in DOMAIN items, UpdateItem(i) \/ AssignItem(i) \/ DeleteItem(i)
  PROVE  /\ DOMAIN returned' \subseteq Ids /\ returned' \in [DOMAIN returned' -> Nat]
         /\ \A j \in Nat : Returns(j) \in Nat /\ Returns(j)' \in Nat /\ Returns(j) <= Returns(j)'
         /\ \A j \in DOMAIN items' : items'[j].status = "backlog" =>
              (j \in DOMAIN items /\ items[j].status = "backlog") \/ Returns(j)' = Returns(j) + 1
<1>1. /\ DOMAIN returned \subseteq Ids /\ returned \in [DOMAIN returned -> Nat] /\ i \in Ids
      /\ items \in [DOMAIN items -> Rows]
  BY DEF TypeOK
<1>2. \A j \in Nat : Returns(j) \in Nat
  BY <1>1 DEF Returns
<1>3. CASE returned' = returned /\ (AssignItem(i) \/ DeleteItem(i) \/ UpdateItem(i))
  <2>1. \A j \in Nat : Returns(j)' = Returns(j) /\ Returns(j) <= Returns(j)
    BY <1>2, <1>3 DEF Returns
  <2>2. CASE AssignItem(i) \/ DeleteItem(i)
    <3>1. \A j \in DOMAIN items' : items'[j].status = "backlog" => j \in DOMAIN items /\ items[j].status = "backlog"
      <4>1. CASE AssignItem(i)
        BY <1>1, <4>1 DEF AssignItem, Rows
      <4>2. CASE DeleteItem(i)
        BY <4>2 DEF DeleteItem
      <4> QED
        BY <2>2, <4>1, <4>2
    <3> QED
      BY <1>1, <1>2, <1>3, <2>1, <3>1
  <2>3. CASE UpdateItem(i)
    <3>1. PICK s \in {"backlog", "other", "in_progress"} :
            /\ items' = [items EXCEPT ![i].status = s]
            /\ returned' = IF s # "backlog" \/ items[i].status = s THEN returned
                           ELSE [j \in DOMAIN returned \union {i} |-> IF j = i THEN Returns(i) + 1 ELSE returned[j]]
      BY <2>3 DEF UpdateItem
    <3>2. s # "backlog" \/ items[i].status = s
      <4> SUFFICES ASSUME s = "backlog", items[i].status # s PROVE FALSE
        OBVIOUS
      <4>1. i \in DOMAIN returned' /\ returned'[i] = Returns(i) + 1
        BY <3>1
      <4>2. Returns(i) = returned[i] /\ Returns(i) \in Nat
        BY <1>1, <1>2, <1>3, <4>1 DEF Returns, Ids
      <4> QED
        BY <1>3, <4>1, <4>2
    <3>3. \A j \in DOMAIN items' : items'[j].status = "backlog" => j \in DOMAIN items /\ items[j].status = "backlog"
      BY <1>1, <3>1, <3>2 DEF Rows
    <3> QED
      BY <1>1, <1>2, <1>3, <2>1, <3>3
  <2> QED
    BY <1>3, <2>2, <2>3
<1>4. CASE UpdateItem(i) /\ returned' # returned
  <2>1. PICK s \in {"backlog", "other", "in_progress"} :
          /\ items' = [items EXCEPT ![i].status = s]
          /\ returned' = [j \in DOMAIN returned \union {i} |-> IF j = i THEN Returns(i) + 1 ELSE returned[j]]
    BY <1>4 DEF UpdateItem
  <2>2. i \in Nat /\ Returns(i) \in Nat
    BY <1>1, <1>2 DEF Ids
  <2>3. DOMAIN returned' \subseteq Ids /\ returned' \in [DOMAIN returned' -> Nat]
    BY <1>1, <2>1, <2>2
  <2>4. \A j \in Nat : Returns(j)' = IF j = i THEN Returns(i) + 1 ELSE Returns(j)
    BY <2>1 DEF Returns
  <2>5. \A j \in DOMAIN items' \ {i} : j \in DOMAIN items /\ items'[j] = items[j]
    BY <2>1
  <2> QED
    BY <1>2, <2>2, <2>3, <2>4, <2>5
<1> QED
  BY <1>3, <1>4 DEF AssignItem, DeleteItem

LEMMA TypeNext == TypeOK /\ [Next]_vars => TypeOK'
<1> SUFFICES ASSUME TypeOK, [Next]_vars PROVE TypeOK'
  OBVIOUS
<1>p. \A p \in Requests : p # Worker /\ p \in DOMAIN tx
  BY WorkerAssumption DEF TypeOK
<1>t. /\ \A t \in Decompositions : t.op = "decompose" /\ t.plan \in Plans /\ t.ids \subseteq Ids
      /\ \A t \in Approvals : t.op = "approve" /\ t.ids \subseteq Ids
      /\ \A t \in Executions : t.op = "execute" /\ t.ids \subseteq Ids /\ t.base \in Nat
      /\ \A t \in JobControls : t.op = "control" /\ t.control \in DOMAIN Accepts
      /\ Idle.op = "idle"
  BY DEF Decompositions, Approvals, Executions, JobControls, Idle
<1>d. DOMAIN items \subseteq Ids /\ Cardinality(DOMAIN items) \in Nat
      /\ \A S : Cardinality(DOMAIN items \ S) \in Nat
  <2>1. IsFiniteSet(Ids) /\ DOMAIN items \subseteq Ids
    BY FS_Interval DEF TypeOK, Ids
  <2>2. \A S : IsFiniteSet(DOMAIN items \ S)
    BY <2>1, FS_Subset
  <2> QED
    BY <2>1, <2>2, FS_Subset, FS_CardinalityType
<1>1. ASSUME NEW p \in Requests,
             tx' = [tx EXCEPT ![p] = tx'[p]], tx'[p] \in RequestTypes,
             UNCHANGED <<rows, up, history>>
      PROVE  TypeOK'
  BY <1>1, <1>p DEF TypeOK, rows, history, Ids, RequestTypes, Decompositions, Approvals, Executions
<1>2. ASSUME tx' = [tx EXCEPT ![Worker] = tx'[Worker]], tx'[Worker] \in {Idle} \union Executions,
             UNCHANGED <<plan, items, made, tasks, up, history>>, job' \in Jobs
      PROVE  TypeOK'
  BY <1>2, <1>p DEF TypeOK, history, Jobs, Ids, Decompositions, Approvals, Executions
<1>3. ASSUME NEW p \in Requests, DecomposeBegin(p) PROVE TypeOK'
  <2>1. [op |-> "decompose", stage |-> "clear", plan |-> plan, ids |-> DOMAIN items, base |-> 0]
          \in Decompositions
    BY <1>3, <1>d DEF DecomposeBegin, Unlocked, TypeOK, Decompositions
  <2>2. tx' = [tx EXCEPT ![p] = tx'[p]] /\ tx'[p] \in Decompositions
    BY <1>3, <1>p, <2>1 DEF DecomposeBegin, TypeOK
  <2> QED
    BY <1>1, <1>3, <2>2 DEF DecomposeBegin, RequestTypes
<1>4. ASSUME NEW p \in Requests, DecomposeClear(p) PROVE TypeOK'
  <2>1. tx[p] \in Decompositions
    BY <1>4, <1>t DEF DecomposeClear, TypeOK
  <2>2. tx'[p] = [tx[p] EXCEPT !.stage = "write", !.base = Cardinality(DOMAIN items \ tx[p].ids)]
        /\ tx' = [tx EXCEPT ![p] = tx'[p]]
    BY <1>4, <1>p, <2>1 DEF DecomposeClear, TypeOK, Decompositions
  <2>3. tx'[p] \in Decompositions
    <3> DEFINE n == Cardinality(DOMAIN items \ tx[p].ids)
    <3>1. n \in Nat
      BY <1>d
    <3> HIDE DEF n
    <3>2. [tx[p] EXCEPT !.stage = "write", !.base = n] \in Decompositions
      BY <2>1, <3>1 DEF Decompositions
    <3> QED
      BY <2>2, <3>2 DEF n
  <2> QED
    BY <1>1, <1>4, <2>2, <2>3 DEF DecomposeClear, RequestTypes
<1>5. ASSUME NEW p \in Requests, DecomposeCommit(p) PROVE TypeOK'
  <2>1. tx[p] \in Decompositions /\ made' \in Nat /\ made <= made' /\ PlanSize \in Nat
    BY <1>5, <1>t, SizesAssumption DEF DecomposeCommit, TypeOK
  <2>2. items' \in [DOMAIN items' -> Rows] /\ DOMAIN items' \subseteq Ids'
    <3>1. items' = Replanned(tx[p]) /\ made' = made + PlanSize /\ tx[p].base \in Nat
      BY <1>5, <2>1 DEF DecomposeCommit, Decompositions
    <3>2. DOMAIN Replanned(tx[p]) = (DOMAIN items \ tx[p].ids) \union (made + 1 .. made + PlanSize)
      BY DEF Replanned
    <3>3. ASSUME NEW i \in DOMAIN Replanned(tx[p]) PROVE Replanned(tx[p])[i] \in Rows /\ i \in 1..(made + PlanSize)
      <4>1. CASE i \in DOMAIN items
        BY <4>1, <3>2, <1>d, <2>1 DEF Replanned, TypeOK, Ids
      <4>2. CASE i \notin DOMAIN items
        <5>1. i \in made + 1 .. made + PlanSize /\ tx[p].base + i - made \in Nat
          BY <4>2, <3>1, <3>2, <2>1 DEF TypeOK
        <5> QED
          BY <4>2, <5>1, <2>1 DEF Replanned, Rows, TypeOK
      <4> QED
        BY <4>1, <4>2
    <3> QED
      BY <3>1, <3>2, <3>3 DEF Ids, Replanned
  <2>3. \A q \in Requests : tx'[q] = Idle \/ tx'[q] = tx[q]
    BY <1>5 DEF DecomposeCommit, TypeOK
  <2>4. tx'[Worker] = tx[Worker] /\ DOMAIN tx' = DOMAIN tx
    BY <1>5, <1>p DEF DecomposeCommit, TypeOK
  <2>5. plan' \in Plans /\ stale' \in BOOLEAN
    BY <1>5 DEF DecomposeCommit, TypeOK, Plans
  <2>6. /\ tx'[Worker] \in {Idle} \union Executions'
        /\ \A q \in Requests : tx'[q] \in RequestTypes'
    BY <2>1, <2>3, <2>4, TypesGrow DEF RequestTypes, Idle
  <2> QED
    BY <1>5, <2>1, <2>2, <2>4, <2>5, <2>6, TypesGrow DEF DecomposeCommit, TypeOK, RequestTypes
<1>6. ASSUME NEW p \in Requests, ApproveBegin(p) PROVE TypeOK'
  <2>1. [op |-> "approve", stage |-> "write", had |-> job # NoJob, ids |-> DOMAIN items] \in Approvals
    BY <1>d DEF Approvals
  <2>2. tx' = [tx EXCEPT ![p] = tx'[p]] /\ tx'[p] \in Approvals
    BY <1>6, <1>p, <2>1 DEF ApproveBegin, TypeOK
  <2> QED
    BY <1>1, <1>6, <2>2 DEF ApproveBegin, RequestTypes
<1>7. ASSUME NEW p \in Requests, ApproveCommit(p) PROVE TypeOK'
  <2>1. tx[p] \in Approvals
    BY <1>7, <1>t DEF ApproveCommit, TypeOK
  <2>2. job' \in Jobs /\ plan' \in Plans /\ stale' \in BOOLEAN /\ approved' \subseteq Ids
    BY <1>7, <1>t, <2>1 DEF ApproveCommit, Enqueued, TypeOK, Jobs, Plans
  <2>3. tx' = [tx EXCEPT ![p] = Idle]
    BY <1>7 DEF ApproveCommit
  <2> QED
    BY <1>7, <1>p, <2>2, <2>3 DEF ApproveCommit, TypeOK, Jobs, Ids, Decompositions, Approvals, Executions
<1>8. ASSUME NEW p \in Requests, Conflict(p) PROVE TypeOK'
  <2>1. tx' = [tx EXCEPT ![p] = tx'[p]] /\ tx'[p] = Idle
    BY <1>8, <1>p DEF Conflict
  <2> QED
    BY <1>1, <1>8, <2>1 DEF Conflict, RequestTypes
<1>9. CASE Claim
  <2>1. [op |-> "execute", stage |-> "read", ids |-> {}, base |-> 0] \in Executions
    BY DEF Executions
  <2>2. tx' = [tx EXCEPT ![Worker] = tx'[Worker]] /\ tx'[Worker] \in Executions /\ job' \in Jobs
    BY <1>9, <2>1 DEF Claim, TypeOK, Jobs
  <2> QED
    BY <1>2, <1>9, <2>2 DEF Claim
<1>10. CASE ExecuteRead \/ ExecuteCreate \/ ExecuteFail
  <2>1. tx[Worker] \in Executions
    BY <1>10, <1>t DEF ExecuteRead, ExecuteCreate, ExecuteFail, TypeOK
  <2>2. CASE ExecuteRead
    <3>1. [tx[Worker] EXCEPT !.stage = "create", !.ids = Open] \in Executions
      BY <2>1, <1>d DEF Open, Executions
    <3>2. tx'[Worker] = [tx[Worker] EXCEPT !.stage = "create", !.ids = Open]
          /\ tx' = [tx EXCEPT ![Worker] = tx'[Worker]]
      BY <2>2, <2>1 DEF ExecuteRead, TypeOK, Executions
    <3> QED
      BY <1>2, <2>2, <3>1, <3>2 DEF ExecuteRead, rows, TypeOK, Jobs
  <2>3. CASE ExecuteCreate
    <3>1. [tx[Worker] EXCEPT !.stage = "commit", !.base = Len(tasks)] \in Executions
      <4>1. Len(tasks) \in Nat
        BY DEF TypeOK
      <4> QED
        BY <2>1, <4>1 DEF Executions
    <3>2. tx'[Worker] = [tx[Worker] EXCEPT !.stage = "commit", !.base = Len(tasks)]
          /\ tx' = [tx EXCEPT ![Worker] = tx'[Worker]]
      BY <2>3, <2>1 DEF ExecuteCreate, TypeOK, Executions
    <3> QED
      BY <1>2, <2>3, <3>1, <3>2 DEF ExecuteCreate, rows, TypeOK, Jobs
  <2>4. CASE ExecuteFail
    <3>1. tx' = [tx EXCEPT ![Worker] = tx'[Worker]] /\ tx'[Worker] = Idle /\ job' \in Jobs
      BY <2>4 DEF ExecuteFail, Failed, TypeOK, Jobs
    <3> QED
      BY <1>2, <2>4, <3>1 DEF ExecuteFail
  <2> QED
    BY <1>10, <2>2, <2>3, <2>4
<1>11. CASE ExecuteCommit
  <2>1. tx[Worker] \in Executions
    BY <1>11, <1>t DEF ExecuteCommit, TypeOK
  <2>2. TasksOf(tx[Worker]) \in [1..Cardinality(tx[Worker].ids) -> tx[Worker].ids]
        /\ Cardinality(tx[Worker].ids) \in Nat
    BY <2>1, ExecutedIds
  <2>3. tasks' \in Seq(Ids \union {NoItem})
    <3>1. TasksOf(tx[Worker]) \in Seq(Ids \union {NoItem})
      BY <2>2, <2>1, <1>t
    <3> QED
      BY <1>11, <3>1 DEF ExecuteCommit, TypeOK
  <2>4. items' \in [DOMAIN items -> Rows] /\ DOMAIN items' = DOMAIN items
    BY <1>11 DEF ExecuteCommit, Started, TypeOK, Rows
  <2>5. job' \in Jobs
    BY <1>11 DEF ExecuteCommit, TypeOK, Jobs
  <2> QED
    BY <1>11, <1>p, <2>3, <2>4, <2>5
    DEF ExecuteCommit, TypeOK, Jobs, history, Ids, Decompositions, Approvals, Executions
<1>12. CASE Edit
  <2>1. made' \in Nat /\ made <= made' /\ touched' \subseteq Ids
        /\ DOMAIN returned' \subseteq Ids /\ returned' \in [DOMAIN returned' -> Nat]
        /\ items' \in [DOMAIN items' -> Rows] /\ DOMAIN items' \subseteq Ids'
    <3>1. CASE CreateItem
      <4>1. PICK c \in 1..MaxItems : items' =
              [i \in DOMAIN items \union {made + 1} |->
                 IF i \in DOMAIN items THEN items[i]
                 ELSE [code |-> c, status |-> "backlog", by |-> "person"]]
        BY <3>1 DEF CreateItem
      <4>2. [code |-> c, status |-> "backlog", by |-> "person"] \in Rows
        BY SizesAssumption DEF Rows
      <4>3. /\ DOMAIN items' = DOMAIN items \union {made + 1} /\ made' = made + 1
            /\ touched' = touched /\ returned' = returned
        BY <3>1, <4>1 DEF CreateItem
      <4>4. \A i \in DOMAIN items' : items'[i] \in Rows
        BY <4>1, <4>2, <4>3 DEF TypeOK
      <4>5. items' = [i \in DOMAIN items' |-> items'[i]]
        BY <4>1, <4>3
      <4> QED
        BY <4>3, <4>4, <4>5 DEF TypeOK, Ids
    <3>2. ASSUME NEW i \in DOMAIN items, UpdateItem(i) \/ AssignItem(i) \/ DeleteItem(i)
          PROVE  /\ made' = made /\ touched' \subseteq Ids
                 /\ DOMAIN returned' \subseteq Ids /\ returned' \in [DOMAIN returned' -> Nat]
                 /\ items' \in [DOMAIN items' -> Rows] /\ DOMAIN items' \subseteq Ids
      <4>1. made' = made /\ touched' \subseteq Ids
        BY <3>2, <1>d DEF UpdateItem, AssignItem, DeleteItem, TypeOK
      <4>r. DOMAIN returned' \subseteq Ids /\ returned' \in [DOMAIN returned' -> Nat]
        BY <3>2, EditReturns DEF TypeOK
      <4>d. items \in [DOMAIN items -> Rows] /\ DOMAIN items \subseteq Ids
        BY DEF TypeOK
      <4>s. ASSUME NEW s \in {"backlog", "other", "in_progress"}, items' = [items EXCEPT ![i].status = s]
            PROVE  items' \in [DOMAIN items' -> Rows] /\ DOMAIN items' \subseteq Ids
        <5>1. [items[i] EXCEPT !.status = s] \in Rows
          BY <4>d DEF Rows
        <5>2. items' = [items EXCEPT ![i] = [items[i] EXCEPT !.status = s]]
          BY <4>s
        <5> HIDE DEF Rows
        <5> QED
          BY ONLY <4>d, <5>1, <5>2, i \in DOMAIN items
      <4>2. CASE UpdateItem(i)
        <5>1. items' \in [DOMAIN items' -> Rows] /\ DOMAIN items' \subseteq Ids
          BY <4>2, <4>s DEF UpdateItem
        <5> QED
          BY <4>1, <4>r, <5>1
      <4>3. CASE AssignItem(i)
        <5>1. items[i].status \in {"backlog", "other", "in_progress"}
          BY <4>d DEF Rows
        <5>2. items' = [items EXCEPT ![i].status =
                          IF items[i].status = "backlog" THEN "other" ELSE items[i].status]
          BY <4>3 DEF AssignItem
        <5> QED
          <6>1. items' \in [DOMAIN items' -> Rows] /\ DOMAIN items' \subseteq Ids
            BY <4>s, <5>1, <5>2
          <6> QED
            BY <4>1, <4>r, <6>1
      <4>4. CASE DeleteItem(i)
        BY <4>4 DEF DeleteItem, TypeOK
      <4> QED
        BY <3>2, <4>1, <4>r, <4>2, <4>3, <4>4
    <3>3. CASE ~ CreateItem
      <4>1. PICK i \in DOMAIN items : UpdateItem(i) \/ AssignItem(i) \/ DeleteItem(i)
        BY <1>12, <3>3 DEF Edit
      <4>2. /\ made' = made /\ touched' \subseteq Ids
            /\ DOMAIN returned' \subseteq Ids /\ returned' \in [DOMAIN returned' -> Nat]
            /\ items' \in [DOMAIN items' -> Rows] /\ DOMAIN items' \subseteq Ids
        BY <3>2, <4>1
      <4> QED
        BY <4>2 DEF TypeOK, Ids
    <3> QED
      BY <3>1, <3>3
  <2>2. touched' \subseteq Ids' /\ approved \subseteq Ids' /\ DOMAIN returned' \subseteq Ids'
    BY <2>1, TypesGrow DEF TypeOK
  <2>3. /\ tasks' \in Seq(Ids' \union {NoItem})
        /\ tx'[Worker] \in {Idle} \union Executions'
        /\ \A p \in Requests : tx'[p] \in RequestTypes'
    BY <1>12, <2>1, TypesGrow DEF Edit
  <2> QED
    BY <1>12, <2>1, <2>2, <2>3 DEF Edit, TypeOK, RequestTypes
<1>13. CASE CreateTask
  <2>1. tasks' \in Seq(Ids \union {NoItem})
    BY <1>13 DEF CreateTask, TypeOK
  <2> QED
    BY <1>13, <2>1 DEF CreateTask, TypeOK, history, Ids, Decompositions, Approvals, Executions
<1>14. ASSUME NEW p \in Requests, ControlLoad(p) PROVE TypeOK'
  <2>1. PICK control \in DOMAIN Accepts : tx' = [tx EXCEPT ![p] = [op |-> "control", control |-> control]]
    BY <1>14 DEF ControlLoad
  <2>2. [op |-> "control", control |-> control] \in JobControls
    BY DEF JobControls
  <2>3. tx' = [tx EXCEPT ![p] = tx'[p]] /\ tx'[p] \in JobControls
    BY <1>p, <2>1, <2>2 DEF TypeOK
  <2> QED
    BY <1>1, <1>14, <2>3 DEF ControlLoad, RequestTypes
<1>18. ASSUME NEW p \in Requests, ControlApply(p) PROVE TypeOK'
  <2>1. tx[p].control \in DOMAIN Accepts
    BY <1>18, <1>t DEF ControlApply, TypeOK
  <2>2. job' \in Jobs
    BY <1>18, <2>1 DEF ControlApply, Accepts, Writes, TypeOK, Jobs
  <2>3. tx' = [tx EXCEPT ![p] = Idle]
    BY <1>18 DEF ControlApply
  <2> QED
    BY <1>18, <1>p, <2>2, <2>3
    DEF ControlApply, TypeOK, Jobs, history, Ids, Decompositions, Approvals, Executions
<1>15. CASE Crash
  BY <1>15, <1>p DEF Crash, TypeOK, rows, history, Ids, Decompositions, Approvals, Executions
<1>16. CASE Start
  <2>1. job' \in Jobs
    BY <1>16 DEF Start, TypeOK, Jobs
  <2> QED
    BY <1>16, <2>1 DEF Start, TypeOK, Jobs, history, Ids, Decompositions, Approvals, Executions
<1>17. CASE UNCHANGED vars
  BY <1>17 DEF vars, TypeOK, rows, history, Ids, Decompositions, Approvals, Executions
<1> QED
  BY <1>3, <1>4, <1>5, <1>6, <1>7, <1>8, <1>9, <1>10, <1>11, <1>12, <1>13, <1>14, <1>15, <1>16, <1>17,
     <1>18
  DEF Next, Finish, Execute
-----------------------------------------------------------------------------
(* The invariant *)

LEMMA PlanInit == Init => PlanInv
<1> SUFFICES ASSUME Init PROVE PlanInv
  OBVIOUS
<1>1. Executed = {} /\ Planned = {} /\ tx[Worker] = Idle /\ job.status = "none"
  BY DEF Init, Executed, Planned, NoJob
<1> QED
  BY <1>1, WorkerAssumption DEF Init, PlanInv, JobFirst, PlanStays, NothingLeftOut,
     FreshApprovedRuns, OnlyApprovedRuns, Executed, Idle

\* A step of a request before its commit.
LEMMA PlanQuiet ==
  ASSUME PlanInv, UNCHANGED <<rows, history>>, tx'[Worker] = tx[Worker],
         \A p \in Requests : tx'[p].op = "control" => job.status # "none"
  PROVE  PlanInv'
BY DEF PlanInv, rows, history, JobFirst, PlanStays, NothingLeftOut,
       FreshApprovedRuns, OnlyApprovedRuns, Executed, Planned

\* A step of the job that leaves plan, items and tasks alone.
LEMMA PlanJob ==
  ASSUME PlanInv, UNCHANGED <<plan, items, tasks, history>>, job.status # "none",
         job'.status \notin {"none", "completed"},
         ~ stale /\ tx'[Worker] # Idle /\ tx'[Worker].stage # "read" =>
           Planned \ touched \subseteq tx'[Worker].ids \union Executed
  PROVE  PlanInv'
BY DEF PlanInv, history, JobFirst, PlanStays, NothingLeftOut,
       FreshApprovedRuns, OnlyApprovedRuns, Executed, Planned

-----------------------------------------------------------------------------
(* What an execution commits *)

\* The tasks of an execution: its items are executed, each once more.
\* What the commit of an execution adds to n tasks that were m.
Adds(n, m) ==
  /\ tx[Worker] \in Executions /\ tx[Worker] # Idle
  /\ tx[Worker].stage = "commit" /\ tx[Worker].ids \subseteq DOMAIN items
  /\ tx'[Worker] = Idle
  /\ n \in Nat /\ m \in Nat
  /\ DOMAIN tasks' = 1..(m + n) /\ DOMAIN tasks = 1..m
  /\ \A k \in 1..m : tasks'[k] = tasks[k]
  /\ \A k \in 1..n : tasks'[m + k] = TasksOf(tx[Worker])[k]

LEMMA TasksAdded ==
  ASSUME TypeOK, ExecuteCommit
  PROVE  Adds(Cardinality(tx[Worker].ids), Len(tasks))
<1> DEFINE t == tx[Worker]
           n == Cardinality(t.ids)
           m == Len(tasks)
<1>1. t \in Executions /\ t # Idle /\ t.stage = "commit"
  BY DEF ExecuteCommit, TypeOK, Idle
<1>2. n \in Nat /\ TasksOf(t) \in [1..n -> t.ids]
  BY <1>1, ExecutedIds
<1>3. /\ tasks' = tasks \o TasksOf(t) /\ t.ids \subseteq DOMAIN items
      /\ tx'[Worker] = Idle
  BY DEF ExecuteCommit, CanCommit, TypeOK
<1>4. tasks \in Seq(Nat)
  BY DEF TypeOK, Ids, NoItem
<1>5. t.ids \subseteq Nat
  BY <1>1 DEF Executions, Ids, TypeOK
<1>6. TasksOf(t) \in Seq(Nat) /\ Len(TasksOf(t)) = n /\ m \in Nat
  BY <1>2, <1>4, <1>5
<1>7. /\ DOMAIN tasks' = 1..(m + n) /\ DOMAIN tasks = 1..m
      /\ \A k \in 1..m : tasks'[k] = tasks[k]
      /\ \A k \in 1..n : tasks'[m + k] = TasksOf(t)[k]
  <2> DEFINE s == TasksOf(t)
  <2>1. s \in Seq(Nat) /\ Len(s) = n /\ tasks' = tasks \o s
    BY <1>3, <1>6
  <2> HIDE DEF s
  <2>2. /\ DOMAIN tasks' = 1..(m + n) /\ DOMAIN tasks = 1..m
        /\ \A k \in 1..m : tasks'[k] = tasks[k]
        /\ \A k \in 1..n : tasks'[m + k] = s[k]
    BY <1>2, <1>4, <1>6, <2>1
  <2> QED
    BY <2>2 DEF s
<1> QED
  BY <1>1, <1>2, <1>3, <1>6, <1>7 DEF Adds

LEMMA CommitTasks ==
  ASSUME TypeOK, ExecuteCommit
  PROVE  /\ tx[Worker] \in Executions /\ tx[Worker] # Idle
         /\ tx[Worker].stage = "commit" /\ tx[Worker].ids \subseteq DOMAIN items
         /\ tx'[Worker] = Idle
         /\ Executed' = Executed \union tx[Worker].ids
<1> DEFINE t == tx[Worker]
<1>1. PICK n, m : Adds(n, m) /\ n = Cardinality(t.ids)
  BY TasksAdded
<1>2. /\ t \in Executions /\ t # Idle
      /\ t.stage = "commit" /\ t.ids \subseteq DOMAIN items
      /\ tx'[Worker] = Idle
      /\ n \in Nat /\ m \in Nat
      /\ DOMAIN tasks' = 1..(m + n) /\ DOMAIN tasks = 1..m
      /\ \A k \in 1..m : tasks'[k] = tasks[k]
      /\ \A k \in 1..n : tasks'[m + k] = TasksOf(t)[k]
  BY <1>1 DEF Adds
<1>3. /\ TasksOf(t) \in [1..n -> t.ids]
      /\ \A i \in t.ids : \E k \in 1..n : TasksOf(t)[k] = i
  BY <1>1, <1>2, ExecutedIds
<1>4. \A k \in 1..(m + n) : k \in 1..m \/ \E l \in 1..n : k = m + l
  <2> TAKE k \in 1..(m + n)
  <2>1. k \notin 1..m => k - m \in 1..n /\ k = m + (k - m)
    BY <1>2
  <2> QED
    BY <2>1
<1>5. NoItem \notin t.ids
  BY <1>2 DEF Executions, Ids, NoItem, TypeOK
<1>6. Executed' \subseteq Executed \union t.ids
  <2>1. SUFFICES ASSUME NEW k \in DOMAIN tasks', tasks'[k] # NoItem
                 PROVE  tasks'[k] \in Executed \union t.ids
    BY DEF Executed
  <2>2. CASE k \in 1..m
    BY <1>2, <2>1, <2>2 DEF Executed
  <2>3. CASE k \notin 1..m
    <3>1. PICK l \in 1..n : k = m + l
      BY <1>2, <1>4, <2>3
    <3> QED
      BY <1>2, <1>3, <3>1
  <2> QED
    BY <2>2, <2>3
<1>7. Executed \subseteq Executed'
  <2>1. 1..m \subseteq 1..(m + n)
    BY <1>2
  <2> QED
    BY <1>2, <2>1 DEF Executed
<1>8. t.ids \subseteq Executed'
  <2>1. \A l \in 1..n : m + l \in 1..(m + n)
    BY <1>2
  <2> SUFFICES ASSUME NEW i \in t.ids PROVE i \in Executed'
    OBVIOUS
  <2>2. PICK l \in 1..n : TasksOf(t)[l] = i
    BY <1>3
  <2>3. m + l \in DOMAIN tasks' /\ tasks'[m + l] = i /\ i # NoItem
    BY <1>2, <1>5, <2>1, <2>2
  <2> QED
    BY <2>3 DEF Executed
<1> QED
  BY <1>2, <1>6, <1>7, <1>8

LEMMA CommitTurns ==
  ASSUME TypeOK, ExecuteCommit, NEW i \in Nat \ {NoItem}
  PROVE  /\ Turns(i) \in Nat
         /\ Turns(i)' = IF i \in tx[Worker].ids THEN Turns(i) + 1 ELSE Turns(i)
<1> DEFINE t == tx[Worker]
           Old == {k \in DOMAIN tasks : tasks[k] = i}
           New == {k \in DOMAIN tasks' : tasks'[k] = i}
<1>1. PICK n, m : Adds(n, m) /\ n = Cardinality(t.ids)
  BY TasksAdded
<1>2. /\ t \in Executions /\ n \in Nat /\ m \in Nat
      /\ DOMAIN tasks' = 1..(m + n) /\ DOMAIN tasks = 1..m
      /\ \A k \in 1..m : tasks'[k] = tasks[k]
      /\ \A k \in 1..n : tasks'[m + k] = TasksOf(t)[k]
  BY <1>1 DEF Adds
<1>3. /\ TasksOf(t) \in [1..n -> t.ids]
      /\ \A j \in t.ids : \E k \in 1..n : TasksOf(t)[k] = j
      /\ \A k, l \in 1..n : TasksOf(t)[k] = TasksOf(t)[l] => k = l
  BY <1>1, <1>2, ExecutedIds
<1>4. /\ \A k \in 1..(m + n) : k \in 1..m \/ \E l \in 1..n : k = m + l
      /\ \A l \in 1..n : m + l \in 1..(m + n) /\ m + l \notin 1..m
      /\ 1..m \subseteq 1..(m + n)
  <2>1. \A k \in 1..(m + n) : k \notin 1..m => k - m \in 1..n /\ k = m + (k - m)
    BY <1>2
  <2>2. /\ \A l \in 1..n : m + l \in 1..(m + n) /\ m + l \notin 1..m
        /\ 1..m \subseteq 1..(m + n)
    BY <1>2
  <2> QED
    BY <2>1, <2>2
<1>5. IsFiniteSet(Old) /\ Cardinality(Old) \in Nat
  <2>1. IsFiniteSet(1..m) /\ Old \subseteq 1..m
    BY <1>2, FS_Interval
  <2> QED
    BY <2>1, FS_Subset, FS_CardinalityType
<1>6. CASE i \notin t.ids
  <2>1. ASSUME NEW k \in New PROVE k \in Old
    <3>1. CASE k \in 1..m
      BY <1>2, <3>1
    <3>2. CASE k \notin 1..m
      <4>1. PICK l \in 1..n : k = m + l
        BY <1>2, <1>4, <3>2
      <4>2. tasks'[k] = TasksOf(t)[l] /\ TasksOf(t)[l] \in t.ids
        BY <1>2, <1>3, <4>1
      <4> QED
        BY <1>6, <4>2
    <3> QED
      BY <3>1, <3>2
  <2>2. Old \subseteq New
    BY <1>2, <1>4
  <2> QED
    BY <1>5, <1>6, <2>1, <2>2 DEF Turns
<1>7. CASE i \in t.ids
  <2>1. PICK l \in 1..n : TasksOf(t)[l] = i
    BY <1>3, <1>7
  <2>2. PICK k : k = m + l
    OBVIOUS
  <2>3. k \notin Old /\ k \in New
    BY <1>2, <1>4, <2>1, <2>2
  <2>4. New = Old \union {k}
    <3>1. ASSUME NEW j \in New PROVE j \in Old \/ j = k
      <4>1. CASE j \in 1..m
        BY <1>2, <4>1
      <4>2. CASE j \notin 1..m
        <5>1. PICK q \in 1..n : j = m + q
          BY <1>2, <1>4, <4>2
        <5>2. TasksOf(t)[q] = i
          BY <1>2, <5>1
        <5>3. q = l
          BY <1>3, <2>1, <5>2
        <5> QED
          BY <2>2, <5>1, <5>3
      <4> QED
        BY <4>1, <4>2
    <3>2. Old \subseteq New
      BY <1>2, <1>4
    <3> QED
      BY <2>3, <3>1, <3>2
  <2>5. Cardinality(New) = Cardinality(Old) + 1
    BY <1>5, <2>3, <2>4, FS_AddElement
  <2> QED
    BY <1>5, <1>7, <2>5 DEF Turns
<1> QED
  BY <1>6, <1>7

-----------------------------------------------------------------------------
(* The plan and what is left of it *)

LEMMA PlanNext == TypeOK /\ PlanInv /\ [Next]_vars => PlanInv'
<1> SUFFICES ASSUME TypeOK, PlanInv, [Next]_vars PROVE PlanInv'
  OBVIOUS
<1>p. \A p \in Requests : p # Worker
  BY WorkerAssumption
<1>w. /\ tx[Worker] # Idle => job.status \notin {"none", "completed"}
      /\ Executed # {} => job.status # "none"
      /\ \A p \in Requests : tx[p].op = "control" => job.status # "none"
  BY DEF PlanInv, JobFirst
<1>o. Idle.op = "idle"
  BY DEF Idle
<1>j. job.status \in {"none", "queued", "running", "paused", "cancelled", "failed", "completed"}
  BY DEF TypeOK
<1>1. ASSUME NEW p \in Requests,
             DecomposeBegin(p) \/ DecomposeClear(p) \/ ApproveBegin(p) \/ Conflict(p)
      PROVE  PlanInv'
  <2>1. tx'[Worker] = tx[Worker] /\ UNCHANGED <<rows, history>>
    BY <1>1, <1>p DEF DecomposeBegin, DecomposeClear, ApproveBegin, Conflict, TypeOK
  <2>2. \A q \in Requests \ {p} : tx'[q] = tx[q]
    BY <1>1 DEF DecomposeBegin, DecomposeClear, ApproveBegin, Conflict, TypeOK
  <2>3. tx'[p].op # "control"
    <3>1. tx[p] \in RequestTypes /\ p \in DOMAIN tx
      BY DEF TypeOK, RequestTypes
    <3>2. CASE DecomposeClear(p)
      <4>1. tx[p] \in Decompositions
        BY <1>o, <3>1, <3>2 DEF DecomposeClear, RequestTypes, Approvals, JobControls
      <4>2. tx'[p].op = tx[p].op
        BY <3>1, <3>2, <4>1 DEF DecomposeClear, Decompositions
      <4> QED
        BY <3>2, <4>2 DEF DecomposeClear
    <3>3. CASE DecomposeBegin(p) \/ ApproveBegin(p) \/ Conflict(p)
      BY <1>o, <3>1, <3>3 DEF DecomposeBegin, ApproveBegin, Conflict
    <3> QED
      BY <1>1, <3>2, <3>3
  <2>4. \A q \in Requests : tx'[q].op = "control" => job.status # "none"
    BY <1>w, <2>2, <2>3
  <2> QED
    BY <2>1, <2>4, PlanQuiet
<1>13. ASSUME NEW p \in Requests, ControlLoad(p) PROVE PlanInv'
  <2>1. /\ tx'[Worker] = tx[Worker] /\ UNCHANGED <<rows, history>>
        /\ \A q \in Requests \ {p} : tx'[q] = tx[q]
    BY <1>13, <1>p DEF ControlLoad, TypeOK
  <2>2. job.status # "none"
    BY <1>13 DEF ControlLoad, Accepts
  <2> QED
    BY <2>1, <2>2, PlanQuiet
<1>2. ASSUME NEW p \in Requests, DecomposeCommit(p) PROVE PlanInv'
  <2>1. tx[p] \in Decompositions /\ tx[p].plan # "approved"
    BY <1>2, <1>o DEF DecomposeCommit, TypeOK, Approvals, Decompositions, JobControls, Plans
  <2>2. tx'[Worker] = tx[Worker] /\ job' = job /\ tasks' = tasks /\ touched' = touched /\ (stale => stale')
    BY <1>2, <1>p DEF DecomposeCommit, TypeOK
  <2>3. ~ stale' => job.status = "none"
    BY <1>2, <2>1 DEF DecomposeCommit, PlanInv, PlanStays
  <2>4. \A i \in Planned' : (i \in Planned /\ items'[i] = items[i]) \/ items'[i].status = "backlog"
    BY <1>2 DEF DecomposeCommit, Planned, Replanned
  <2>5. Executed' = Executed
    BY <2>2 DEF Executed
  <2>c. \A q \in Requests : tx'[q].op = "control" => job.status # "none"
    <3>1. \A q \in Requests : tx'[q] = tx[q] \/ tx'[q] = Idle
      BY <1>2 DEF DecomposeCommit, TypeOK
    <3> QED
      BY <1>o, <1>w, <3>1
  <2>6. JobFirst' /\ PlanStays' /\ NothingLeftOut'
    <3>1. JobFirst'
      BY <2>2, <2>5, <2>c, <1>w DEF JobFirst
    <3>2. PlanStays'
      BY <2>2, <2>3 DEF PlanStays
    <3>3. NothingLeftOut'
      BY <2>2, <2>3, <2>4, <2>5, <1>w DEF PlanInv, NothingLeftOut
    <3> QED
      BY <3>1, <3>2, <3>3
  <2>7. FreshApprovedRuns'
    BY <2>2, <2>3, <2>5, <1>w DEF PlanInv, FreshApprovedRuns, OnlyApprovedRuns, Executed
  <2> QED
    BY <2>6, <2>7 DEF PlanInv
<1>3. ASSUME NEW p \in Requests, ApproveCommit(p) PROVE PlanInv'
  <2>1. /\ tx'[Worker] = tx[Worker] /\ tasks' = tasks /\ touched' = touched /\ items' = items
        /\ plan' = "approved" /\ approved \subseteq approved'
        /\ ~ stale' => ~ stale /\ Planned \subseteq approved'
    BY <1>3, <1>p DEF ApproveCommit, TypeOK
  <2>2. job' = job \/ (job.status = "none" /\ job'.status = "queued")
    BY <1>3 DEF ApproveCommit, KeyTaken, Enqueued, NoJob
  <2>3. Executed' = Executed /\ Planned' = Planned
    BY <2>1 DEF Executed, Planned
  <2>c. \A q \in Requests : tx'[q] = tx[q] \/ tx'[q] = Idle
    BY <1>3 DEF ApproveCommit, TypeOK
  <2>4. JobFirst' /\ PlanStays'
    <3>1. JobFirst'
      BY <1>o, <2>1, <2>2, <2>3, <2>c, <1>w DEF JobFirst
    <3>2. PlanStays'
      BY <2>1, <2>3 DEF PlanStays
    <3> QED
      BY <3>1, <3>2
  <2>5. NothingLeftOut'
    BY <2>1, <2>2, <2>3, <1>w DEF PlanInv, NothingLeftOut
  <2>6. FreshApprovedRuns'
    BY <2>1, <2>3 DEF PlanInv, FreshApprovedRuns, OnlyApprovedRuns
  <2> QED
    BY <2>4, <2>5, <2>6 DEF PlanInv
<1>4. CASE Claim
  <2>1. job.status = "queued" /\ job'.status = "running"
    BY <1>4 DEF Claim
  <2>2. tx'[Worker].stage = "read"
    BY <1>4 DEF Claim, TypeOK
  <2> QED
    BY <1>4, <2>1, <2>2, PlanJob DEF Claim
<1>5. CASE ExecuteRead \/ ExecuteCreate \/ ExecuteFail
  <2>1. tx[Worker] \in Executions /\ tx[Worker] # Idle
    BY <1>5, <1>o DEF ExecuteRead, ExecuteCreate, ExecuteFail, TypeOK
  <2>2. CASE ExecuteRead
    <3>1. tx'[Worker].ids = Open /\ job' = job
      BY <2>1, <2>2 DEF ExecuteRead, TypeOK, Executions, rows
    <3>2. Planned \ touched \subseteq Open \union Executed
      BY <2>1, <1>w DEF PlanInv, NothingLeftOut, Open, Planned
    <3> QED
      BY <2>1, <2>2, <3>1, <3>2, <1>w, PlanJob DEF ExecuteRead, rows
  <2>3. CASE ExecuteCreate
    <3>1. tx'[Worker].ids = tx[Worker].ids /\ job' = job /\ tx[Worker].stage # "read"
      BY <2>1, <2>3 DEF ExecuteCreate, TypeOK, Executions, rows
    <3> QED
      BY <2>1, <2>3, <3>1, <1>w, PlanJob DEF ExecuteCreate, rows, PlanInv, NothingLeftOut
  <2>4. CASE ExecuteFail
    <3>1. tx'[Worker] = Idle /\ job'.status \in {"queued", "failed"}
      BY <2>4 DEF ExecuteFail, Failed, TypeOK
    <3> QED
      BY <2>1, <2>4, <3>1, <1>w, PlanJob DEF ExecuteFail
  <2> QED
    BY <1>5, <2>2, <2>3, <2>4
<1>6. CASE ExecuteCommit
  <2> DEFINE t == tx[Worker]
  <2>1. /\ t \in Executions /\ t # Idle /\ t.stage = "commit" /\ t.ids \subseteq DOMAIN items
        /\ tx'[Worker] = Idle /\ Executed' = Executed \union t.ids
    BY <1>6, CommitTasks
  <2>2. /\ job'.status = "completed"
        /\ stale' = stale /\ approved' = approved /\ touched' = touched /\ plan' = plan
    BY <1>6 DEF ExecuteCommit, TypeOK, history
  <2>3. /\ DOMAIN items' = DOMAIN items /\ \A i \in DOMAIN items : items'[i].by = items[i].by
        /\ \A i \in DOMAIN items \ t.ids : items'[i] = items[i]
    BY <1>6 DEF ExecuteCommit, Started, TypeOK, Rows
  <2>4. Planned' = Planned /\ Planned \subseteq DOMAIN items
    BY <2>3 DEF Planned
  <2>5. JobFirst' /\ PlanStays'
    <3>1. JobFirst'
      BY <2>1, <2>2 DEF JobFirst
    <3>2. PlanStays'
      BY <2>1, <2>2, <2>4, <1>w DEF PlanInv, PlanStays
    <3> QED
      BY <3>1, <3>2
  <2>6. NothingLeftOut'
    <3>1. \A i \in Planned' \ touched' : items'[i].status = "backlog" \/ i \in Executed'
      BY <2>1, <2>2, <2>3, <2>4 DEF PlanInv, NothingLeftOut
    <3>2. ~ stale' => Planned' \ touched' \subseteq Executed'
      BY <2>1, <2>2, <2>4 DEF PlanInv, NothingLeftOut
    <3> QED
      BY <2>1, <3>1, <3>2 DEF NothingLeftOut
  <2>7. FreshApprovedRuns'
    <3>1. ASSUME ~ stale, NEW i \in t.ids PROVE i \in approved \/ items[i].by = "person"
      <4>1. i \in DOMAIN items /\ items[i].by \in {"plan", "person"}
        BY <2>1 DEF TypeOK, Rows
      <4> QED
        BY <3>1, <4>1, <2>1, <1>w DEF PlanInv, PlanStays, Planned
    <3>2. ASSUME ~ stale, NEW i \in Executed PROVE MayRun(i)
      BY <3>2 DEF PlanInv, FreshApprovedRuns, OnlyApprovedRuns, Executed, MayRun
    <3>3. ASSUME ~ stale, NEW i \in Executed' PROVE MayRun(i)'
      BY <2>1, <2>2, <2>3, <3>1, <3>2, <3>3 DEF MayRun
    <3> QED
      BY <2>2, <3>3 DEF FreshApprovedRuns, OnlyApprovedRuns, Executed, MayRun
  <2> QED
    BY <2>5, <2>6, <2>7 DEF PlanInv
<1>7. CASE Edit
  <2>1. UNCHANGED <<plan, job, tasks, tx, approved, stale>>
    BY <1>7 DEF Edit
  <2>2. /\ touched \subseteq touched' /\ Planned' \subseteq Planned
        /\ \A i \in Planned' \ touched' : items'[i].status = items[i].status
        /\ \A i \in DOMAIN items \ touched' : i \in DOMAIN items' /\ items'[i].by = items[i].by
    <3>1. CASE CreateItem
      BY <3>1 DEF CreateItem, Planned, TypeOK, Rows
    <3>2. ASSUME NEW j \in DOMAIN items, UpdateItem(j) \/ AssignItem(j) \/ DeleteItem(j)
          PROVE  /\ touched' = touched \union {j} /\ DOMAIN items \ {j} \subseteq DOMAIN items'
                 /\ DOMAIN items' \subseteq DOMAIN items
                 /\ \A i \in DOMAIN items' : items'[i].by = items[i].by
                 /\ \A i \in DOMAIN items' \ {j} : items'[i] = items[i]
      <4>1. CASE UpdateItem(j)
        BY <4>1 DEF UpdateItem, TypeOK, Rows
      <4>2. CASE AssignItem(j)
        BY <4>2 DEF AssignItem, TypeOK, Rows
      <4>3. CASE DeleteItem(j)
        BY <4>3 DEF DeleteItem
      <4> QED
        BY <3>2, <4>1, <4>2, <4>3
    <3>3. CASE ~ CreateItem
      <4>1. PICK j \in DOMAIN items : UpdateItem(j) \/ AssignItem(j) \/ DeleteItem(j)
        BY <1>7, <3>3 DEF Edit
      <4> QED
        BY <4>1, <3>2 DEF Planned
    <3> QED
      BY <3>1, <3>3
  <2>3. Executed' = Executed
    BY <2>1 DEF Executed
  <2>4. JobFirst' /\ PlanStays'
    BY <2>1, <2>2, <2>3 DEF PlanInv, JobFirst, PlanStays
  <2>5. NothingLeftOut'
    BY <2>1, <2>2, <2>3 DEF PlanInv, NothingLeftOut
  <2>6. FreshApprovedRuns'
    BY <2>1, <2>2 DEF PlanInv, FreshApprovedRuns, OnlyApprovedRuns
  <2> QED
    BY <2>4, <2>5, <2>6 DEF PlanInv
<1>8. CASE CreateTask
  <2>1. /\ UNCHANGED <<plan, items, job, tx, history>>
        /\ tasks \in Seq(Nat) /\ tasks' = Append(tasks, NoItem)
    BY <1>8 DEF CreateTask, TypeOK, Ids, NoItem
  <2>2. /\ DOMAIN tasks' = DOMAIN tasks \union {Len(tasks) + 1}
        /\ tasks'[Len(tasks) + 1] = NoItem
        /\ \A k \in DOMAIN tasks : tasks'[k] = tasks[k] /\ k # Len(tasks) + 1
    BY <2>1
  <2>3. Executed' = Executed /\ Planned' = Planned
    BY <2>1, <2>2 DEF Executed, Planned
  <2>4. JobFirst' /\ PlanStays' /\ NothingLeftOut'
    BY <2>1, <2>3 DEF PlanInv, JobFirst, PlanStays, NothingLeftOut, history
  <2>6. FreshApprovedRuns'
    BY <2>1, <2>3 DEF PlanInv, FreshApprovedRuns, OnlyApprovedRuns, Executed, history
  <2> QED
    BY <2>4, <2>6 DEF PlanInv
<1>9. ASSUME NEW p \in Requests, ControlApply(p) PROVE PlanInv'
  <2>1. job.status # "none" /\ tx'[Worker] = tx[Worker] /\ tx[p].op = "control"
    BY <1>9, <1>p, <1>w DEF ControlApply, TypeOK
  <2>2. job'.status \in {"cancelled", "paused", "queued"}
    <3>1. tx[p] \in JobControls
      BY <2>1, <1>o DEF TypeOK, Decompositions, Approvals
    <3>2. tx[p].control \in {"cancel", "pause", "resume", "retry"}
      BY <3>1 DEF JobControls, Accepts
    <3>3. job'.status = Writes[tx[p].control]
      BY <1>9 DEF ControlApply, TypeOK
    <3> QED
      BY <3>2, <3>3 DEF Writes
  <2> QED
    BY <1>9, <2>1, <2>2, PlanJob DEF ControlApply, PlanInv, NothingLeftOut
<1>10. CASE Crash
  <2>1. /\ tx'[Worker] = Idle /\ UNCHANGED <<rows, history>>
        /\ \A p \in Requests : tx'[p] = Idle
    BY <1>10 DEF Crash, TypeOK
  <2> QED
    BY <1>o, <2>1 DEF PlanInv, rows, history, JobFirst, PlanStays, NothingLeftOut,
                FreshApprovedRuns, OnlyApprovedRuns, Executed, Planned
<1>11. CASE Start
  <2>1. job' = job \/ (job.status = "running" /\ job'.status = "queued")
    BY <1>11 DEF Start, TypeOK
  <2>2. CASE job' = job
    BY <1>11, <1>w, <2>2, PlanQuiet DEF Start, rows
  <2>3. CASE job' # job
    BY <1>11, <2>1, <2>3, PlanJob DEF Start, PlanInv, NothingLeftOut
  <2> QED
    BY <2>2, <2>3
<1>12. CASE UNCHANGED vars
  BY <1>12, <1>w, PlanQuiet DEF vars
<1> QED
  BY <1>1, <1>2, <1>3, <1>4, <1>5, <1>6, <1>7, <1>8, <1>9, <1>10, <1>11, <1>12, <1>13
  DEF Next, Finish, Execute

-----------------------------------------------------------------------------
(* The turns of an item *)

LEMMA TurnInit == Init => TurnInv
<1> SUFFICES ASSUME Init, NEW i \in Nat \ {NoItem}
             PROVE  Turns(i) = 0 /\ Returns(i) = 0
  BY DEF TurnInv
<1>1. {n \in DOMAIN tasks : tasks[n] = i} = {}
  BY DEF Init
<1> QED
  BY <1>1, FS_EmptySet DEF Init, Turns, Returns

\* A step that makes no task, returns no item and makes none due.
LEMMA TurnQuiet ==
  ASSUME TurnInv, \A i \in Nat \ {NoItem} : Turns(i)' = Turns(i),
         returned' = returned, \A i \in Nat \ {NoItem} : Due(i)' => Due(i)
  PROVE  TurnInv'
<1>1. \A i \in Nat : Returns(i)' = Returns(i)
  BY DEF Returns
<1> QED
  BY <1>1 DEF TurnInv

LEMMA TurnNext == TypeOK /\ TurnInv /\ [Next]_vars => TurnInv'
<1> SUFFICES ASSUME TypeOK, TurnInv, [Next]_vars PROVE TurnInv'
  OBVIOUS
<1>p. \A p \in Requests : p # Worker
  BY WorkerAssumption
<1>o. Idle.op = "idle"
  BY DEF Idle
<1>s. tasks' = tasks => \A i \in Nat \ {NoItem} : Turns(i)' = Turns(i)
  BY DEF Turns
<1>n. \A i \in Nat \ DOMAIN items : i > made => Turns(i) = 0
  <2> SUFFICES ASSUME NEW i \in Nat, i > made, i # NoItem PROVE {n \in DOMAIN tasks : tasks[n] = i} = {}
    <3>1. \A i \in Nat : i > made => i # NoItem
      BY DEF TypeOK, NoItem
    <3> QED
      BY <3>1, FS_EmptySet DEF Turns
  <2>1. \A n \in DOMAIN tasks : tasks[n] \in Ids \union {NoItem}
    BY DEF TypeOK
  <2> QED
    BY <2>1 DEF Ids, NoItem, TypeOK
<1>r. \A i \in Nat : Returns(i) \in Nat
  BY DEF Returns, TypeOK
<1>1. ASSUME UNCHANGED <<items, tasks, returned>>,
             tx'[Worker] \in {tx[Worker], Idle}
      PROVE  TurnInv'
  <2>1. \A i \in Nat \ {NoItem} : Due(i)' => Due(i)
    BY <1>1 DEF Due
  <2> QED
    BY <1>1, <1>s, <2>1, TurnQuiet
<1>2. ASSUME NEW p \in Requests,
             DecomposeBegin(p) \/ DecomposeClear(p) \/ ApproveBegin(p) \/ ApproveCommit(p)
             \/ Conflict(p) \/ ControlLoad(p) \/ ControlApply(p)
      PROVE  TurnInv'
  <2>1. tx'[Worker] = tx[Worker] /\ UNCHANGED <<items, tasks, returned>>
    BY <1>2, <1>p DEF DecomposeBegin, DecomposeClear, ApproveBegin, ApproveCommit, Conflict,
       ControlLoad, ControlApply, TypeOK, rows, history
  <2> QED
    BY <1>1, <2>1
<1>3. ASSUME NEW p \in Requests, DecomposeCommit(p) PROVE TurnInv'
  <2>1. /\ tx'[Worker] = tx[Worker] /\ tasks' = tasks /\ returned' = returned
        /\ items' = Replanned(tx[p])
    BY <1>3, <1>p DEF DecomposeCommit, TypeOK
  <2>2. \A i \in DOMAIN items' : (i \in DOMAIN items /\ items'[i] = items[i]) \/ i \in made + 1 .. made + PlanSize
    BY <2>1 DEF Replanned
  <2>3. \A i \in Nat \ {NoItem} : Turns(i)' = Turns(i) /\ Returns(i)' = Returns(i)
    BY <1>s, <2>1 DEF Returns
  <2>4. ASSUME NEW i \in Nat \ {NoItem}, Due(i)' PROVE Due(i) \/ Turns(i) = 0
    <3>1. CASE i \in made + 1 .. made + PlanSize
      <4>1. i > made /\ i \notin DOMAIN items
        BY <3>1, SizesAssumption DEF TypeOK, Ids
      <4> QED
        BY <1>n, <4>1
    <3>2. CASE i \notin made + 1 .. made + PlanSize
      BY <2>1, <2>2, <2>4, <3>2 DEF Due
    <3> QED
      BY <3>1, <3>2
  <2> QED
    BY <1>r, <2>3, <2>4 DEF TurnInv
<1>4. CASE Claim
  <2>1. UNCHANGED <<items, tasks, returned>> /\ tx'[Worker].ids = {} /\ tx'[Worker] # Idle
    <3>1. tx'[Worker] = [op |-> "execute", stage |-> "read", ids |-> {}, base |-> 0]
      BY <1>4 DEF Claim, TypeOK
    <3> QED
      BY <1>4, <3>1, <1>o DEF Claim, history
  <2>2. \A i \in Nat \ {NoItem} : Due(i)' => Due(i)
    BY <2>1 DEF Due
  <2> QED
    BY <1>s, <2>1, <2>2, TurnQuiet
<1>5. CASE ExecuteRead \/ ExecuteCreate
  <2>1. /\ UNCHANGED <<items, tasks, returned>> /\ tx[Worker] \in Executions /\ tx[Worker] # Idle
        /\ tx'[Worker].ids \subseteq Open \union tx[Worker].ids
    <3>1. tx[Worker] \in Executions /\ tx[Worker] # Idle
      BY <1>5, <1>o DEF ExecuteRead, ExecuteCreate, TypeOK
    <3>2. CASE ExecuteRead
      BY <3>1, <3>2 DEF ExecuteRead, TypeOK, Executions, rows, history
    <3>3. CASE ExecuteCreate
      BY <3>1, <3>3 DEF ExecuteCreate, TypeOK, Executions, rows, history
    <3> QED
      BY <1>5, <3>1, <3>2, <3>3
  <2>2. \A i \in Nat \ {NoItem} : Due(i)' => Due(i)
    BY <2>1 DEF Due, Open
  <2> QED
    BY <1>s, <2>1, <2>2, TurnQuiet
<1>6. CASE ExecuteFail \/ Crash \/ Start \/ UNCHANGED vars
  <2>1. tx'[Worker] \in {tx[Worker], Idle} /\ UNCHANGED <<items, tasks, returned>>
    BY <1>6 DEF ExecuteFail, Crash, Start, TypeOK, rows, history, vars
  <2> QED
    BY <1>1, <2>1
<1>7. CASE ExecuteCommit
  <2> DEFINE ids == tx[Worker].ids
  <2>1. /\ tx[Worker] \in Executions /\ tx[Worker] # Idle /\ tx'[Worker] = Idle
        /\ \A i \in Nat \ {NoItem} :
             Turns(i) \in Nat /\ Turns(i)' = IF i \in ids THEN Turns(i) + 1 ELSE Turns(i)
    <3>1. tx[Worker] \in Executions /\ tx[Worker] # Idle /\ tx'[Worker] = Idle
      BY <1>7, CommitTasks
    <3>2. ASSUME NEW i \in Nat \ {NoItem}
          PROVE  Turns(i) \in Nat /\ Turns(i)' = IF i \in ids THEN Turns(i) + 1 ELSE Turns(i)
      BY <1>7, CommitTurns
    <3> QED
      BY <3>1, <3>2
  <2>2. \A i \in Nat : Returns(i)' = Returns(i)
    BY <1>7 DEF ExecuteCommit, history, Returns
  <2>3. items' = Started(ids)
    BY <1>7 DEF ExecuteCommit
  <2>4. ASSUME NEW i \in Nat \ {NoItem} PROVE (Due(i)' => Due(i) /\ i \notin ids) /\ (i \in ids => Due(i))
    <3>1. i \in ids => Due(i)
      BY <2>1 DEF Due
    <3>2. ASSUME Due(i)' PROVE Due(i) /\ i \notin ids
      <4>1. i \in DOMAIN items' /\ items'[i].status = "backlog"
        BY <2>1, <3>2 DEF Due
      <4>2. i \in DOMAIN items /\ items[i] \in Rows
        BY <2>3, <4>1 DEF Started, TypeOK
      <4>3. i \notin ids
        BY <2>3, <4>1, <4>2 DEF Started, Rows
      <4> QED
        BY <2>3, <4>1, <4>2, <4>3 DEF Started, Due
    <3> QED
      BY <3>1, <3>2
  <2>5. ASSUME NEW i \in Nat \ {NoItem}
        PROVE  /\ Turns(i)' \in Nat /\ Turns(i)' <= 1 + Returns(i)
               /\ Due(i)' => Turns(i)' <= Returns(i)
    <3>1. PICK old, new, r \in Nat : old = Turns(i) /\ new = Turns(i)' /\ r = Returns(i)
      BY <1>r, <2>1
    <3>2. /\ old <= 1 + r /\ (Due(i) => old <= r)
          /\ new = IF i \in ids THEN old + 1 ELSE old
          /\ (Due(i)' => Due(i) /\ i \notin ids) /\ (i \in ids => Due(i))
      BY <2>1, <2>4, <3>1 DEF TurnInv
    <3>3. CASE i \in ids
      <4>1. old <= r /\ new = old + 1 /\ ~ Due(i)'
        BY <3>2, <3>3
      <4>2. new \in Nat /\ new <= 1 + r
        BY <3>1, <4>1
      <4> QED
        BY <3>1, <4>1, <4>2
    <3>4. CASE i \notin ids
      BY <3>1, <3>2, <3>4
    <3> QED
      BY <3>3, <3>4
  <2> QED
    BY <2>2, <2>5 DEF TurnInv
<1>8. CASE Edit
  <2>1. tx' = tx /\ tasks' = tasks
    BY <1>8 DEF Edit
  <2>2. CASE CreateItem
    <3>1. \A i \in DOMAIN items' : (i \in DOMAIN items /\ items'[i] = items[i]) \/ i = made + 1
      BY <2>2 DEF CreateItem
    <3>2. \A i \in Nat \ {NoItem} : Turns(i)' = Turns(i) /\ Returns(i)' = Returns(i)
      BY <1>s, <2>1, <2>2 DEF Returns, CreateItem
    <3>3. ASSUME NEW i \in Nat \ {NoItem}, Due(i)' PROVE Due(i) \/ Turns(i) = 0
      <4>1. CASE i = made + 1
        <5>1. i > made /\ i \notin DOMAIN items
          BY <4>1 DEF TypeOK, Ids
        <5> QED
          BY <1>n, <5>1
      <4>2. CASE i # made + 1
        BY <2>1, <3>1, <3>3, <4>2 DEF Due
      <4> QED
        BY <4>1, <4>2
    <3> QED
      BY <1>r, <3>2, <3>3 DEF TurnInv
  <2>3. ASSUME NEW j \in DOMAIN items, UpdateItem(j) \/ AssignItem(j) \/ DeleteItem(j)
        PROVE  TurnInv'
    <3>1. /\ \A i \in Nat : Returns(i) \in Nat /\ Returns(i)' \in Nat /\ Returns(i) <= Returns(i)'
          /\ \A i \in DOMAIN items' : items'[i].status = "backlog" =>
               (i \in DOMAIN items /\ items[i].status = "backlog") \/ Returns(i)' = Returns(i) + 1
      BY <2>3, EditReturns
    <3>2. ASSUME NEW i \in Nat \ {NoItem}
          PROVE  /\ Turns(i)' \in Nat /\ Turns(i)' <= 1 + Returns(i)'
                 /\ Due(i)' => Turns(i)' <= Returns(i)'
      <4>1. PICK c, r, s \in Nat : c = Turns(i) /\ c = Turns(i)' /\ r = Returns(i) /\ s = Returns(i)'
        <5>1. Turns(i)' = Turns(i) /\ Turns(i) \in Nat
          BY <1>s, <2>1 DEF TurnInv
        <5>2. Returns(i) \in Nat /\ Returns(i)' \in Nat
          BY <3>1
        <5> QED
          BY <5>1, <5>2
      <4>2. r <= s /\ c <= 1 + r /\ (Due(i) => c <= r)
        BY <3>1, <4>1 DEF TurnInv
      <4>3. Due(i)' => Due(i) \/ s = r + 1
        BY <2>1, <3>1, <4>1 DEF Due
      <4>4. c <= 1 + s
        BY <4>1, <4>2
      <4>5. Due(i)' => c <= s
        <5>1. CASE Due(i)
          BY <4>1, <4>2, <5>1
        <5>2. CASE s = r + 1
          BY <4>1, <4>2, <5>2
        <5> QED
          BY <4>3, <5>1, <5>2
      <4> QED
        BY <4>1, <4>4, <4>5
    <3> QED
      BY <3>2 DEF TurnInv
  <2> QED
    BY <1>8, <2>2, <2>3 DEF Edit
<1>9. CASE CreateTask
  <2>1. /\ UNCHANGED <<items, tx, returned>>
        /\ tasks \in Seq(Nat) /\ tasks' = Append(tasks, NoItem)
    BY <1>9 DEF CreateTask, TypeOK, Ids, NoItem, history
  <2>2. /\ DOMAIN tasks' = DOMAIN tasks \union {Len(tasks) + 1}
        /\ tasks'[Len(tasks) + 1] = NoItem
        /\ \A k \in DOMAIN tasks : tasks'[k] = tasks[k]
    BY <2>1
  <2>3. \A i \in Nat \ {NoItem} : {n \in DOMAIN tasks' : tasks'[n] = i} = {n \in DOMAIN tasks : tasks[n] = i}
    BY <2>2
  <2>4. \A i \in Nat \ {NoItem} : Turns(i)' = Turns(i) /\ (Due(i)' => Due(i))
    BY <2>1, <2>3 DEF Turns, Due
  <2> QED
    BY <2>1, <2>4, TurnQuiet
<1> QED
  BY <1>2, <1>3, <1>4, <1>5, <1>6, <1>7, <1>8, <1>9 DEF Next, Finish, Execute

-----------------------------------------------------------------------------
(* The theorems *)

THEOREM TypeCorrect == Spec => []TypeOK
BY TypeInit, TypeNext, PTL DEF Spec

LEMMA PlanInvariant == Spec => []PlanInv /\ []TurnInv
<1>1. Init => TypeOK /\ PlanInv /\ TurnInv
  BY TypeInit, PlanInit, TurnInit
<1>2. TypeOK /\ PlanInv /\ TurnInv /\ [Next]_vars => (TypeOK /\ PlanInv /\ TurnInv)'
  BY TypeNext, PlanNext, TurnNext
<1> QED
  BY <1>1, <1>2, PTL DEF Spec

\* Unless a decision was committed over a plan it had not read, only items of an
\* approved plan, items of people and items people edited are executed
\* (DecompositionService.decompose, approve_plan; _project_execution).
THEOREM OnlyTheApprovedRuns == Spec => []FreshApprovedRuns
<1>1. PlanInv => FreshApprovedRuns
  BY DEF PlanInv
<1> QED
  BY <1>1, PlanInvariant, PTL

\* However often the job fails, is recovered, or is put in line again - even one
\* that has ended, by a control decided before it did - an item becomes one
\* development task, and one more each time a person has put it back to the
\* backlog (_project_execution, run_once).
THEOREM OneTaskPerTurnCorrect == Spec => []OneTaskPerTurn
<1>1. TypeOK /\ TurnInv => OneTaskPerTurn
  <2> SUFFICES ASSUME TypeOK, TurnInv, NEW n \in DOMAIN tasks, tasks[n] # NoItem
               PROVE  Turns(tasks[n]) <= 1 + Returns(tasks[n])
    BY DEF OneTaskPerTurn, Turns
  <2>1. tasks[n] \in Nat \ {NoItem}
    BY DEF TypeOK, Ids, NoItem
  <2> QED
    BY <2>1 DEF TurnInv
<1> QED
  BY <1>1, PlanInvariant, TypeCorrect, PTL

\* A completed execution has left out no item of the approved plan that nobody
\* has edited (_project_execution, JobQueue.complete).
THEOREM CompletedLeftNothingOut == Spec => []CompletedMeansExecuted
<1>1. PlanInv => CompletedMeansExecuted
  <2> SUFFICES ASSUME PlanInv, ~ stale, job.status = "completed",
                      NEW i \in (Planned \cap approved) \ touched
               PROVE  \E n \in DOMAIN tasks : tasks[n] = i
    BY DEF CompletedMeansExecuted
  <2>1. i \in Executed
    BY DEF PlanInv, NothingLeftOut
  <2> QED
    BY <2>1 DEF Executed
<1> QED
  BY <1>1, PlanInvariant, PTL
=============================================================================
