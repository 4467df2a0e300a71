--------------------------- MODULE JobQueueProofs ---------------------------
(* Proofs about JobQueue, for any jobs, workers, clients and bounds. *)
EXTENDS JobQueue, FiniteSetTheorems, TLAPS

-----------------------------------------------------------------------------
(* The type invariant *)

LEMMA TypeInit == Init => TypeOK
  BY BoundsAssumption, JobsAssumption
  DEF Init, TypeOK, Statuses, Waiting, Terminal, Busy, NoJob, NoRequest, NothingSeen

\* The steps of the worker that runs jobs keep the types.
LEMMA TypeRun ==
  ASSUME TypeOK, NEW w \in Workers,
         \/ SelectCandidate(w) \/ Claim(w) \/ LoseRace(w) \/ Heartbeat(w)
         \/ Complete(w) \/ LoadFailed(w) \/ Fail(w) \/ LoseOutcome(w)
  PROVE  TypeOK'
<1> USE DEF TypeOK, Statuses, Waiting, Terminal, Busy, NoJob, NothingSeen,
                           rows, work, hist
<1>1. CASE SelectCandidate(w)
  BY <1>1, JobsAssumption DEF SelectCandidate, Claimable
<1>2. CASE Claim(w)
  <2>1. job[w] \in Jobs
    BY <1>2 DEF Claim
  <2>2. /\ status' \in [Jobs -> Statuses]
        /\ attempts' \in [Jobs -> Nat]
        /\ fresh' \in [Jobs -> BOOLEAN]
    BY <1>2, <2>1 DEF Claim
  <2>3. /\ pc' \in [Workers -> {"down", "recovering", "idle", "selected"} \union Busy]
        /\ \A v \in Workers : job'[v] # NoJob <=> pc'[v] \in {"selected"} \union Busy
    BY <1>2 DEF Claim
  <2>4. QED
    BY <1>2, <2>2, <2>3 DEF Claim
<1>3. CASE LoseRace(w)
  BY <1>3 DEF LoseRace
<1>4. CASE Heartbeat(w)
  BY <1>4 DEF Heartbeat
<1>5. CASE Complete(w)
  <2>1. job[w] \in Jobs
    BY <1>5 DEF Complete
  <2>2. status' \in [Jobs -> Statuses] /\ effects' \in [Jobs -> Nat]
    BY <1>5, <2>1 DEF Complete
  <2>3. QED
    BY <1>5, <2>2 DEF Complete
<1>6. CASE LoadFailed(w)
  BY <1>6 DEF LoadFailed
<1>7. CASE Fail(w)
  BY <1>7 DEF Fail
<1>8. CASE LoseOutcome(w)
  BY <1>8 DEF LoseOutcome
<1>9. QED
  BY <1>1, <1>2, <1>3, <1>4, <1>5, <1>6, <1>7, <1>8

\* The steps of starting and ending a process keep the types.
LEMMA TypeLife ==
  ASSUME TypeOK, NEW w \in Workers, Exit(w) \/ Start(w) \/ RecoverOrphans(w)
  PROVE  TypeOK'
<1> USE DEF TypeOK, Statuses, Waiting, Terminal, Busy, NoJob, NothingSeen,
                           rows, work, hist
<1>1. CASE Exit(w)
  BY <1>1 DEF Exit
<1>2. CASE Start(w)
  BY <1>2 DEF Start
<1>3. CASE RecoverOrphans(w)
  <2>1. status' \in [Jobs -> Statuses] /\ due' \in [Jobs -> BOOLEAN]
    BY <1>3 DEF RecoverOrphans
  <2>2. requeues' \in [Jobs -> Nat]
    BY <1>3 DEF RecoverOrphans
  <2>3. QED
    BY <1>3, <2>1, <2>2 DEF RecoverOrphans
<1>4. QED
  BY <1>1, <1>2, <1>3

\* Producers, requests and time keep the types.
LEMMA TypeClients ==
  ASSUME TypeOK, 
         \/ \E j \in Jobs : Enqueue(j) \/ Elapse(j) \/ Expire(j)
         \/ \E c \in Clients :
              Apply(c) \/ \E op \in Controls, j \in Jobs : Load(c, op, j)
  PROVE  TypeOK'
<1> USE DEF TypeOK, Statuses, Waiting, Terminal, rows, work, hist
<1>1. ASSUME NEW j \in Jobs, Enqueue(j)
      PROVE  TypeOK'
  BY <1>1 DEF Enqueue
<1>2. ASSUME NEW j \in Jobs, Elapse(j)
      PROVE  TypeOK'
  BY <1>2 DEF Elapse
<1>3. ASSUME NEW j \in Jobs, Expire(j)
      PROVE  TypeOK'
  BY <1>3 DEF Expire
<1>4. ASSUME NEW c \in Clients, Apply(c)
      PROVE  TypeOK'
  <2>1. req[c].op \in Controls /\ req[c].job \in Jobs
    BY <1>4 DEF Apply
  <2>2. Writes[req[c].op] \in Statuses
    BY <2>1 DEF Writes, Controls
  <2>3. /\ status' = [status EXCEPT ![req[c].job] = Writes[req[c].op]]
        /\ due' \in {due, [due EXCEPT ![req[c].job] = TRUE]}
        /\ requeues' \in {requeues, [requeues EXCEPT ![req[c].job] = requeues[req[c].job] + 1]}
    BY <1>4 DEF Apply
  <2>4. status' \in [Jobs -> Statuses] /\ due' \in [Jobs -> BOOLEAN]
    BY <2>1, <2>2, <2>3
  <2>5. requeues' \in [Jobs -> Nat]
    BY <2>1, <2>3
  <2>6. req' \in [Clients -> [op : Controls, job : Jobs] \union {NoRequest}]
    BY <1>4 DEF Apply
  <2>7. QED
    BY <1>4, <2>4, <2>5, <2>6 DEF Apply
<1>5. ASSUME NEW c \in Clients, NEW op \in Controls, NEW j \in Jobs, Load(c, op, j)
      PROVE  TypeOK'
  BY <1>5 DEF Load
<1>6. QED
  BY <1>1, <1>2, <1>3, <1>4, <1>5

LEMMA TypeStep == TypeOK /\ [Next]_vars => TypeOK'
<1> SUFFICES ASSUME TypeOK, [Next]_vars PROVE TypeOK'
  OBVIOUS
<1>1. CASE UNCHANGED vars
  BY <1>1 DEF TypeOK, vars, rows, work, hist
<1>2. CASE Next
  BY <1>2, TypeRun, TypeLife, TypeClients DEF Next, WorkerStep
<1>3. QED
  BY <1>1, <1>2

THEOREM TypeCorrect == Spec => []TypeOK
  BY TypeInit, TypeStep, PTL DEF Spec
-----------------------------------------------------------------------------
(* A job that is not inserted yet is known to nobody *)

LEMMA AbsentStep == TypeOK /\ AbsentIsUnknown /\ [Next]_vars => AbsentIsUnknown'
<1> SUFFICES ASSUME TypeOK, AbsentIsUnknown, [Next]_vars,
                    NEW k \in Jobs, status'[k] = "absent"
             PROVE  /\ attempts'[k] = 0 /\ effects'[k] = 0 /\ requeues'[k] = 0
                    /\ \A w \in Workers : job'[w] # k /\ k \notin orphans'[w]
                    /\ \A c \in Clients : req'[c].job # k
  BY DEF AbsentIsUnknown
<1> DEFINE Unknown == /\ attempts[k] = 0 /\ effects[k] = 0 /\ requeues[k] = 0
                      /\ \A w \in Workers : job[w] # k /\ k \notin orphans[w]
                      /\ \A c \in Clients : req[c].job # k
<1>0. status[k] = "absent" => Unknown
  BY DEF AbsentIsUnknown
<1>k. k # NoJob
  BY JobsAssumption
<1> SUFFICES Unknown'
  OBVIOUS
<1> USE <1>0, <1>k DEF TypeOK, rows, work, hist, Busy
<1>1. CASE UNCHANGED vars
  BY <1>1 DEF vars
<1>2. ASSUME NEW j \in Jobs, Enqueue(j) \/ Elapse(j) \/ Expire(j)
      PROVE  Unknown'
  BY <1>2 DEF Enqueue, Elapse, Expire
<1>3. ASSUME NEW w \in Workers, SelectCandidate(w)
      PROVE  Unknown'
  BY <1>3 DEF SelectCandidate, Claimable
<1>4. ASSUME NEW w \in Workers, Claim(w)
      PROVE  Unknown'
  BY <1>4 DEF Claim
<1>5. ASSUME NEW w \in Workers, LoseRace(w)
      PROVE  Unknown'
  BY <1>5 DEF LoseRace
<1>6. ASSUME NEW w \in Workers, Heartbeat(w) \/ LoadFailed(w)
      PROVE  Unknown'
  BY <1>6 DEF Heartbeat, LoadFailed
<1>7. ASSUME NEW w \in Workers, Complete(w)
      PROVE  Unknown'
  BY <1>7 DEF Complete
<1>8. ASSUME NEW w \in Workers, Fail(w)
      PROVE  Unknown'
  BY <1>8 DEF Fail
<1>9. ASSUME NEW w \in Workers, LoseOutcome(w) \/ Exit(w)
      PROVE  Unknown'
  BY <1>9 DEF LoseOutcome, Exit
<1>10. ASSUME NEW w \in Workers, Start(w) \/ RecoverOrphans(w)
       PROVE  Unknown'
  <2>1. LooksOrphaned(k) => status[k] = "running"
    BY DEF LooksOrphaned
  <2>2. k \notin orphans[w] /\ status[k] = "absent"
    BY <1>10 DEF Start, RecoverOrphans
  <2>3. Unknown
    BY <2>2
  <2>4. CASE Start(w)
    BY <2>1, <2>2, <2>3, <2>4 DEF Start
  <2>5. CASE RecoverOrphans(w)
    BY <2>2, <2>3, <2>5 DEF RecoverOrphans
  <2>6. QED
    BY <1>10, <2>4, <2>5
<1>11. ASSUME NEW c \in Clients, Apply(c)
       PROVE  Unknown'
  <2>1. Writes[req[c].op] # "absent"
    BY <1>11 DEF Apply, Writes, Controls
  <2>2. req[c].job # k /\ Unknown
    BY <1>11, <2>1 DEF Apply
  <2>3. \A d \in Clients : req'[d].job # k
    BY <1>11, <2>2 DEF Apply, NoRequest
  <2>4. QED
    BY <1>11, <2>2, <2>3 DEF Apply
<1>12. ASSUME NEW c \in Clients, NEW op \in Controls, NEW j \in Jobs, Load(c, op, j)
       PROVE  Unknown'
  <2>1. j # k
    <3>1. "absent" \notin Accepts[op]
      <4>1. op \in {"cancel", "pause", "resume", "retry"}
        BY DEF Controls
      <4>2. CASE op = "cancel"
        BY <4>2 DEF Accepts
      <4>3. CASE op = "pause"
        BY <4>3 DEF Accepts
      <4>4. CASE op = "resume"
        BY <4>4 DEF Accepts
      <4>5. CASE op = "retry"
        BY <4>5 DEF Accepts
      <4>6. QED
        BY <4>1, <4>2, <4>3, <4>4, <4>5
    <3>2. QED
      BY <1>12, <3>1 DEF Load
  <2>2. \A d \in Clients : req'[d].job # k
    BY <1>12, <2>1 DEF Load
  <2>3. QED
    BY <1>12, <2>2 DEF Load
<1>13. QED
  BY <1>1, <1>2, <1>3, <1>4, <1>5, <1>6, <1>7, <1>8, <1>9, <1>10, <1>11, <1>12
     DEF Next, WorkerStep

-----------------------------------------------------------------------------
(* The counter that fail() has loaded, and jobs that are given up *)

LEMMA ExhaustedStep ==
  TypeOK /\ SeenIsPast /\ FailedIsExhausted /\ [Next]_vars
    => SeenIsPast' /\ FailedIsExhausted'
<1> SUFFICES ASSUME TypeOK, SeenIsPast, FailedIsExhausted, [Next]_vars
             PROVE  SeenIsPast' /\ FailedIsExhausted'
  OBVIOUS
<1> USE DEF TypeOK, SeenIsPast, FailedIsExhausted, rows, work, hist, Busy
<1>1. CASE UNCHANGED vars
  BY <1>1 DEF vars
<1>2. ASSUME NEW j \in Jobs, Enqueue(j) \/ Elapse(j) \/ Expire(j)
      PROVE  SeenIsPast' /\ FailedIsExhausted'
  BY <1>2 DEF Enqueue, Elapse, Expire
<1>3. ASSUME NEW w \in Workers, SelectCandidate(w) \/ LoseRace(w) \/ Heartbeat(w)
      PROVE  SeenIsPast' /\ FailedIsExhausted'
  BY <1>3 DEF SelectCandidate, LoseRace, Heartbeat
<1>4. ASSUME NEW w \in Workers, Claim(w)
      PROVE  SeenIsPast' /\ FailedIsExhausted'
  <2>1. job[w] \in Jobs /\ \A v \in Workers : pc[v] = "failing" => job[v] \in Jobs
    BY <1>4 DEF Claim
  <2>2. \A j \in Jobs : attempts'[j] \in Nat /\ attempts'[j] >= attempts[j]
    BY <1>4, <2>1 DEF Claim
  <2>3. \A v \in Workers : pc'[v] = "failing" => pc[v] = "failing"
    BY <1>4 DEF Claim
  <2>4. \A j \in Jobs : status'[j] = "failed" => status[j] = "failed"
    BY <1>4 DEF Claim
  <2>5. QED
    BY <1>4, <2>1, <2>2, <2>3, <2>4, AttemptsAssumption DEF Claim
<1>5. ASSUME NEW w \in Workers, Complete(w)
      PROVE  SeenIsPast' /\ FailedIsExhausted'
  BY <1>5 DEF Complete
<1>6. ASSUME NEW w \in Workers, LoadFailed(w)
      PROVE  SeenIsPast' /\ FailedIsExhausted'
  BY <1>6 DEF LoadFailed
<1>7. ASSUME NEW w \in Workers, Fail(w)
      PROVE  SeenIsPast' /\ FailedIsExhausted'
  <2>1. job[w] \in Jobs /\ seen[w].attempts \in Nat /\ attempts[job[w]] \in Nat
    BY <1>7 DEF Fail
  <2>2. ~MayRetry(seen[w].attempts) => attempts[job[w]] >= MaxAttempts
    BY <1>7, <2>1, AttemptsAssumption DEF Fail, MayRetry
  <2>3. SeenIsPast'
    BY <1>7 DEF Fail
  <2>4. FailedIsExhausted'
    BY <1>7, <2>1, <2>2 DEF Fail
  <2>5. QED
    BY <2>3, <2>4
<1>8. ASSUME NEW w \in Workers, LoseOutcome(w) \/ Exit(w)
      PROVE  SeenIsPast' /\ FailedIsExhausted'
  BY <1>8 DEF LoseOutcome, Exit
<1>9. ASSUME NEW w \in Workers, Start(w) \/ RecoverOrphans(w)
      PROVE  SeenIsPast' /\ FailedIsExhausted'
  BY <1>9 DEF Start, RecoverOrphans
<1>10. ASSUME NEW c \in Clients, Apply(c)
       PROVE  SeenIsPast' /\ FailedIsExhausted'
  <2>1. Writes[req[c].op] # "failed"
    BY <1>10 DEF Apply, Writes, Controls
  <2>2. QED
    BY <1>10, <2>1 DEF Apply
<1>11. ASSUME NEW c \in Clients, NEW op \in Controls, NEW j \in Jobs, Load(c, op, j)
       PROVE  SeenIsPast' /\ FailedIsExhausted'
  BY <1>11 DEF Load
<1>12. QED
  BY <1>1, <1>2, <1>3, <1>4, <1>5, <1>6, <1>7, <1>8, <1>9, <1>10, <1>11
     DEF Next, WorkerStep
-----------------------------------------------------------------------------
(* Executions are paid for *)

\* Executors are counted by a natural number.
LEMMA ExecutorsFinite ==
  ASSUME NEW k
  PROVE  /\ IsFiniteSet(Executors(k)) /\ Cardinality(Executors(k)) \in Nat
         /\ IsFiniteSet(Executors(k)') /\ Cardinality(Executors(k)') \in Nat
<1>1. Executors(k) \in SUBSET Workers /\ Executors(k)' \in SUBSET Workers
  BY DEF Executors
<1>2. QED
  BY <1>1, ActorsAssumption, FS_Subset, FS_CardinalityType

\* A worker that drops its job is one executor less of that job.
LEMMA ExecutorLeaves ==
  ASSUME TypeOK, NEW k, NEW w \in Workers,
         pc' \in {[pc EXCEPT ![w] = "idle"], [pc EXCEPT ![w] = "down"]},
         job' = [job EXCEPT ![w] = NoJob]
  PROVE  /\ Executors(k)' = Executors(k) \ {w}
         /\ Cardinality(Executors(k)') =
              Cardinality(Executors(k)) - (IF w \in Executors(k) THEN 1 ELSE 0)
<1>1. Executors(k)' = Executors(k) \ {w}
  BY DEF Executors, TypeOK, Busy
<1>2. IsFiniteSet(Executors(k)) /\ Cardinality(Executors(k)) \in Nat
  BY ExecutorsFinite
<1>3. Cardinality(Executors(k) \ {w}) =
        IF w \in Executors(k) THEN Cardinality(Executors(k)) - 1 ELSE Cardinality(Executors(k))
  BY <1>2, FS_RemoveElement
<1>4. QED
  BY <1>1, <1>2, <1>3

LEMMA ExecutionStep ==
  TypeOK /\ TypeOK' /\ AbsentIsUnknown /\ ExecutionBudget /\ [Next]_vars => ExecutionBudget'
<1> SUFFICES ASSUME TypeOK, TypeOK', AbsentIsUnknown, ExecutionBudget, [Next]_vars,
                    NEW k \in Jobs
             PROVE  (Cardinality(Executors(k)) + effects[k] + InLine(k) <= 1 + requeues[k])'
  BY DEF ExecutionBudget
<1> DEFINE Bound == Cardinality(Executors(k)) + effects[k] + InLine(k) <= 1 + requeues[k]
<1>0. Bound
  BY DEF ExecutionBudget
<1>t. /\ Cardinality(Executors(k)) \in Nat /\ Cardinality(Executors(k)') \in Nat
      /\ effects[k] \in Nat /\ requeues[k] \in Nat
      /\ effects'[k] \in Nat /\ requeues'[k] \in Nat
      /\ InLine(k) \in {0, 1} /\ InLine(k)' \in {0, 1}
  BY ExecutorsFinite DEF TypeOK, InLine
<1> SUFFICES Bound'
  OBVIOUS
<1>1. ASSUME /\ Executors(k)' = Executors(k) /\ effects'[k] = effects[k]
             /\ requeues'[k] = requeues[k] /\ InLine(k)' <= InLine(k)
      PROVE  Bound'
  BY <1>0, <1>1, <1>t
<1>2. CASE UNCHANGED vars
  BY <1>1, <1>t, <1>2 DEF vars, rows, work, hist, Executors, InLine
<1>3. ASSUME NEW j \in Jobs, Enqueue(j)
      PROVE  Bound'
  <2>1. Executors(k)' = Executors(k) /\ effects'[k] = effects[k] /\ requeues'[k] = requeues[k]
    BY <1>3 DEF Enqueue, Executors, work, hist
  <2>2. CASE j = k
    <3>1. effects[k] = 0 /\ Executors(k) = {}
      BY <1>3, <2>2 DEF Enqueue, AbsentIsUnknown, Executors
    <3>2. Cardinality(Executors(k)) = 0
      BY <3>1, FS_EmptySet
    <3>3. QED
      BY <2>1, <3>1, <3>2, <1>t
  <2>3. CASE j # k
    <3>1. InLine(k)' = InLine(k)
      BY <1>3, <2>3 DEF Enqueue, InLine, TypeOK
    <3>2. QED
      BY <1>1, <1>t, <2>1, <3>1
  <2>4. QED
    BY <2>2, <2>3
<1>4. ASSUME NEW j \in Jobs, Elapse(j) \/ Expire(j)
      PROVE  Bound'
  BY <1>1, <1>t, <1>4 DEF Elapse, Expire, Executors, InLine, work, hist
<1>5. ASSUME NEW w \in Workers,
             SelectCandidate(w) \/ LoseRace(w) \/ Heartbeat(w) \/ LoadFailed(w) \/ Start(w)
      PROVE  Bound'
  <2>1. Executors(k)' = Executors(k)
    BY <1>5 DEF SelectCandidate, LoseRace, Heartbeat, LoadFailed, Start, Executors, TypeOK, Busy
  <2>2. effects' = effects /\ requeues' = requeues /\ status' = status
    BY <1>5 DEF SelectCandidate, LoseRace, Heartbeat, LoadFailed, Start, rows, hist
  <2>3. QED
    BY <1>1, <1>t, <2>1, <2>2 DEF InLine
<1>6. ASSUME NEW w \in Workers, Claim(w)
      PROVE  Bound'
  <2>1. effects' = effects /\ requeues' = requeues
    BY <1>6 DEF Claim, hist
  <2>2. CASE job[w] = k
    <3>1. Executors(k)' = Executors(k) \union {w} /\ w \notin Executors(k)
      BY <1>6, <2>2 DEF Claim, Executors, TypeOK, Busy
    <3>2. Cardinality(Executors(k)') = Cardinality(Executors(k)) + 1
      BY <3>1, ExecutorsFinite, FS_AddElement
    <3>3. InLine(k) = 1 /\ InLine(k)' = 0
      BY <1>6, <2>2 DEF Claim, StillQueued, InLine, Waiting, TypeOK
    <3>4. QED
      BY <1>0, <1>t, <2>1, <3>2, <3>3
  <2>3. CASE job[w] # k
    <3>1. Executors(k)' = Executors(k) /\ status'[k] = status[k]
      BY <1>6, <2>3 DEF Claim, Executors, TypeOK, Busy
    <3>2. QED
      BY <1>1, <1>t, <2>1, <3>1 DEF InLine
  <2>4. QED
    BY <2>2, <2>3
<1>7. ASSUME NEW w \in Workers, Complete(w)
      PROVE  Bound'
  <2>1. Cardinality(Executors(k)') =
          Cardinality(Executors(k)) - (IF w \in Executors(k) THEN 1 ELSE 0)
    BY <1>7, ExecutorLeaves DEF Complete
  <2>2. w \in Executors(k) <=> job[w] = k
    BY <1>7 DEF Complete, Executors, Busy
  <2>3. effects'[k] = effects[k] + (IF job[w] = k THEN 1 ELSE 0) /\ requeues' = requeues
    BY <1>7 DEF Complete, TypeOK
  <2>4. InLine(k)' <= InLine(k)
    BY <1>7, <1>t DEF Complete, InLine, Waiting, TypeOK
  <2>5. QED
    BY <1>0, <1>t, <2>1, <2>2, <2>3, <2>4
<1>8. ASSUME NEW w \in Workers, Fail(w)
      PROVE  Bound'
  <2>1. Cardinality(Executors(k)') =
          Cardinality(Executors(k)) - (IF w \in Executors(k) THEN 1 ELSE 0)
    BY <1>8, ExecutorLeaves DEF Fail
  <2>2. w \in Executors(k) <=> job[w] = k
    BY <1>8 DEF Fail, Executors, Busy
  <2>3. effects' = effects /\ requeues' = requeues
    BY <1>8 DEF Fail, hist
  <2>4. job[w] # k => InLine(k)' = InLine(k)
    BY <1>8 DEF Fail, InLine, TypeOK
  <2>5. QED
    BY <1>0, <1>t, <2>1, <2>2, <2>3, <2>4
<1>9. ASSUME NEW w \in Workers, LoseOutcome(w) \/ Exit(w)
      PROVE  Bound'
  <2>1. Cardinality(Executors(k)') =
          Cardinality(Executors(k)) - (IF w \in Executors(k) THEN 1 ELSE 0)
    BY <1>9, ExecutorLeaves DEF LoseOutcome, Exit
  <2>2. effects' = effects /\ requeues' = requeues /\ status' = status
    BY <1>9 DEF LoseOutcome, Exit, rows, hist
  <2>3. QED
    BY <1>0, <1>t, <2>1, <2>2 DEF InLine
<1>10. ASSUME NEW w \in Workers, RecoverOrphans(w)
       PROVE  Bound'
  <2>1. Executors(k)' = Executors(k) /\ effects' = effects
    BY <1>10 DEF RecoverOrphans, Executors, TypeOK, Busy
  <2>2. requeues'[k] - requeues[k] >= InLine(k)' - InLine(k)
    BY <1>10, <1>t DEF RecoverOrphans, InLine, Waiting, TypeOK
  <2>3. QED
    BY <1>0, <1>t, <2>1, <2>2
<1>11. ASSUME NEW c \in Clients, Apply(c)
       PROVE  Bound'
  <2>1. Executors(k)' = Executors(k) /\ effects' = effects
    BY <1>11 DEF Apply, Executors, work
  <2>2. req[c].job \in Jobs
    BY <1>11 DEF Apply, TypeOK
  <2>3. requeues'[k] - requeues[k] >= InLine(k)' - InLine(k)
    BY <1>11, <1>t, <2>2 DEF Apply, InLine, TypeOK
  <2>4. QED
    BY <1>0, <1>t, <2>1, <2>3
<1>12. ASSUME NEW c \in Clients, NEW op \in Controls, NEW j \in Jobs, Load(c, op, j)
       PROVE  Bound'
  BY <1>1, <1>t, <1>12 DEF Load, Executors, InLine, rows, work, hist
<1>13. QED
  BY <1>2, <1>3, <1>4, <1>5, <1>6, <1>7, <1>8, <1>9, <1>10, <1>11, <1>12
     DEF Next, WorkerStep
-----------------------------------------------------------------------------
(* Attempts are bounded *)

\* Requeuers are among the executors.
LEMMA RequeuersFinite ==
  ASSUME NEW k
  PROVE  /\ IsFiniteSet(Requeuers(k)) /\ Cardinality(Requeuers(k)) \in Nat
         /\ Cardinality(Requeuers(k)') \in Nat
         /\ Cardinality(Requeuers(k)') <= Cardinality(Executors(k)')
<1>1. Requeuers(k) \in SUBSET Executors(k) /\ Requeuers(k)' \in SUBSET Executors(k)'
  BY DEF Requeuers, Executors, Busy
<1>2. QED
  BY <1>1, ExecutorsFinite, FS_Subset, FS_CardinalityType

\* A worker that drops its job is one requeuer less, if it was one.
LEMMA RequeuerLeaves ==
  ASSUME TypeOK, NEW k, NEW w \in Workers,
         pc' \in {[pc EXCEPT ![w] = "idle"], [pc EXCEPT ![w] = "down"]},
         job' = [job EXCEPT ![w] = NoJob],
         seen' = [seen EXCEPT ![w] = NothingSeen]
  PROVE  Cardinality(Requeuers(k)') =
           Cardinality(Requeuers(k)) - (IF w \in Requeuers(k) THEN 1 ELSE 0)
<1>1. Requeuers(k)' = Requeuers(k) \ {w}
  BY DEF Requeuers, TypeOK
<1>2. IsFiniteSet(Requeuers(k)) /\ Cardinality(Requeuers(k)) \in Nat
  BY RequeuersFinite
<1>3. Cardinality(Requeuers(k) \ {w}) =
        IF w \in Requeuers(k) THEN Cardinality(Requeuers(k)) - 1 ELSE Cardinality(Requeuers(k))
  BY <1>2, FS_RemoveElement
<1>4. QED
  BY <1>1, <1>2, <1>3

LEMMA CreditStep ==
  TypeOK /\ TypeOK' /\ AbsentIsUnknown /\ ExecutionBudget /\ AttemptCredit /\ [Next]_vars
    => AttemptCredit'
<1> SUFFICES ASSUME TypeOK, TypeOK', AbsentIsUnknown, ExecutionBudget, AttemptCredit,
                    [Next]_vars, NEW k \in Jobs
             PROVE  (attempts[k] + Cardinality(Requeuers(k)) + InLine(k)
                       <= MaxAttempts + requeues[k])'
  BY DEF AttemptCredit
<1> DEFINE Credit == attempts[k] + Cardinality(Requeuers(k)) + InLine(k)
                       <= MaxAttempts + requeues[k]
<1>0. Credit
  BY DEF AttemptCredit
<1>t. /\ Cardinality(Requeuers(k)) \in Nat /\ Cardinality(Requeuers(k)') \in Nat
      /\ attempts[k] \in Nat /\ requeues[k] \in Nat
      /\ attempts'[k] \in Nat /\ requeues'[k] \in Nat
      /\ InLine(k) \in {0, 1} /\ InLine(k)' \in {0, 1}
      /\ MaxAttempts \in Nat /\ MaxAttempts >= 1
  BY RequeuersFinite, AttemptsAssumption DEF TypeOK, InLine
<1> SUFFICES Credit'
  OBVIOUS
<1>1. ASSUME /\ Requeuers(k)' = Requeuers(k) /\ attempts'[k] = attempts[k]
             /\ requeues'[k] = requeues[k] /\ InLine(k)' <= InLine(k)
      PROVE  Credit'
  BY <1>0, <1>1, <1>t
<1>2. CASE UNCHANGED vars
  BY <1>1, <1>t, <1>2 DEF vars, rows, work, hist, Requeuers, InLine
<1>3. ASSUME NEW j \in Jobs, Enqueue(j)
      PROVE  Credit'
  <2>1. Requeuers(k)' = Requeuers(k) /\ attempts' = attempts /\ requeues' = requeues
    BY <1>3 DEF Enqueue, Requeuers, work, hist
  <2>2. CASE j = k
    <3>1. attempts[k] = 0 /\ Requeuers(k) = {}
      BY <1>3, <2>2 DEF Enqueue, AbsentIsUnknown, Requeuers
    <3>2. Cardinality(Requeuers(k)) = 0
      BY <3>1, FS_EmptySet
    <3>3. QED
      BY <2>1, <3>1, <3>2, <1>t
  <2>3. CASE j # k
    <3>1. InLine(k)' = InLine(k)
      BY <1>3, <2>3 DEF Enqueue, InLine, TypeOK
    <3>2. QED
      BY <1>1, <1>t, <2>1, <3>1
  <2>4. QED
    BY <2>2, <2>3
<1>4. ASSUME NEW j \in Jobs, Elapse(j) \/ Expire(j)
      PROVE  Credit'
  BY <1>1, <1>t, <1>4 DEF Elapse, Expire, Requeuers, InLine, work, hist
<1>5. ASSUME NEW w \in Workers,
             SelectCandidate(w) \/ LoseRace(w) \/ Heartbeat(w) \/ Start(w)
      PROVE  Credit'
  <2>1. Requeuers(k)' = Requeuers(k)
    BY <1>5 DEF SelectCandidate, LoseRace, Heartbeat, Start, Requeuers, TypeOK
  <2>2. attempts' = attempts /\ requeues' = requeues /\ status' = status
    BY <1>5 DEF SelectCandidate, LoseRace, Heartbeat, Start, rows, hist
  <2>3. QED
    BY <1>1, <1>t, <2>1, <2>2 DEF InLine
<1>6. ASSUME NEW w \in Workers, Claim(w)
      PROVE  Credit'
  <2>1. Requeuers(k)' = Requeuers(k) /\ requeues' = requeues
    BY <1>6 DEF Claim, Requeuers, TypeOK, hist
  <2>2. CASE job[w] = k
    <3>1. attempts'[k] = attempts[k] + 1
      BY <1>6, <2>2 DEF Claim, TypeOK
    <3>2. InLine(k) = 1 /\ InLine(k)' = 0
      BY <1>6, <2>2 DEF Claim, StillQueued, InLine, Waiting, TypeOK
    <3>3. QED
      BY <1>0, <1>t, <2>1, <3>1, <3>2
  <2>3. CASE job[w] # k
    <3>1. attempts'[k] = attempts[k] /\ status'[k] = status[k]
      BY <1>6, <2>3 DEF Claim, TypeOK
    <3>2. QED
      BY <1>1, <1>t, <2>1, <3>1 DEF InLine
  <2>4. QED
    BY <2>2, <2>3
<1>7. ASSUME NEW w \in Workers, Complete(w)
      PROVE  Credit'
  <2>1. Requeuers(k)' = Requeuers(k) /\ attempts' = attempts /\ requeues' = requeues
    BY <1>7 DEF Complete, Requeuers, TypeOK
  <2>2. InLine(k)' <= InLine(k)
    BY <1>7, <1>t DEF Complete, InLine, Waiting, TypeOK
  <2>3. QED
    BY <1>1, <1>t, <2>1, <2>2
<1>8. ASSUME NEW w \in Workers, LoadFailed(w)
      PROVE  Credit'
  <2>1. attempts' = attempts /\ requeues' = requeues /\ status' = status
    BY <1>8 DEF LoadFailed, rows, hist
  <2>2. CASE job[w] = k /\ MayRetry(attempts[k])
    \* One more requeuer: there are still attempts left, and no more
    \* requeuers than executors, which are paid for.
    <3>1. Executors(k)' = Executors(k)
      BY <1>8 DEF LoadFailed, Executors, TypeOK, Busy
    <3>2. /\ Cardinality(Requeuers(k)') <= Cardinality(Executors(k))
          /\ Cardinality(Executors(k)) \in Nat
      BY <3>1, RequeuersFinite, ExecutorsFinite
    <3>3. Cardinality(Executors(k)) + effects[k] + InLine(k) <= 1 + requeues[k] /\ effects[k] \in Nat
      BY DEF ExecutionBudget, TypeOK
    <3>4. attempts[k] < MaxAttempts
      BY <2>2 DEF MayRetry
    <3>5. InLine(k)' = InLine(k)
      BY <2>1 DEF InLine
    <3>6. QED
      BY <1>t, <2>1, <3>2, <3>3, <3>4, <3>5
  <2>3. CASE ~(job[w] = k /\ MayRetry(attempts[k]))
    <3>1. Requeuers(k)' = Requeuers(k)
      BY <1>8, <2>3 DEF LoadFailed, Requeuers, MayRetry, TypeOK
    <3>2. QED
      BY <1>1, <1>t, <2>1, <3>1 DEF InLine
  <2>4. QED
    BY <2>2, <2>3
<1>9. ASSUME NEW w \in Workers, Fail(w)
      PROVE  Credit'
  <2>1. Cardinality(Requeuers(k)') =
          Cardinality(Requeuers(k)) - (IF w \in Requeuers(k) THEN 1 ELSE 0)
    BY <1>9, RequeuerLeaves DEF Fail
  <2>2. w \in Requeuers(k) <=> job[w] = k /\ MayRetry(seen[w].attempts)
    BY <1>9 DEF Fail, Requeuers
  <2>3. attempts' = attempts /\ requeues' = requeues
    BY <1>9 DEF Fail, hist
  <2>4. ~(job[w] = k /\ MayRetry(seen[w].attempts)) => InLine(k)' <= InLine(k)
    BY <1>9, <1>t DEF Fail, InLine, Waiting, TypeOK
  <2>5. QED
    BY <1>0, <1>t, <2>1, <2>2, <2>3, <2>4
<1>10. ASSUME NEW w \in Workers, LoseOutcome(w) \/ Exit(w)
      PROVE  Credit'
  <2>1. Cardinality(Requeuers(k)') =
          Cardinality(Requeuers(k)) - (IF w \in Requeuers(k) THEN 1 ELSE 0)
    BY <1>10, RequeuerLeaves DEF LoseOutcome, Exit
  <2>2. attempts' = attempts /\ requeues' = requeues /\ status' = status
    BY <1>10 DEF LoseOutcome, Exit, rows, hist
  <2>3. QED
    BY <1>0, <1>t, <2>1, <2>2 DEF InLine
<1>11. ASSUME NEW w \in Workers, RecoverOrphans(w)
       PROVE  Credit'
  <2>1. Requeuers(k)' = Requeuers(k) /\ attempts' = attempts
    BY <1>11 DEF RecoverOrphans, Requeuers, TypeOK
  <2>2. requeues'[k] - requeues[k] >= InLine(k)' - InLine(k)
    BY <1>11, <1>t DEF RecoverOrphans, InLine, Waiting, TypeOK
  <2>3. QED
    BY <1>0, <1>t, <2>1, <2>2
<1>12. ASSUME NEW c \in Clients, Apply(c)
       PROVE  Credit'
  <2>1. Requeuers(k)' = Requeuers(k) /\ attempts' = attempts
    BY <1>12 DEF Apply, Requeuers, work
  <2>2. req[c].job \in Jobs
    BY <1>12 DEF Apply, TypeOK
  <2>3. requeues'[k] - requeues[k] >= InLine(k)' - InLine(k)
    BY <1>12, <1>t, <2>2 DEF Apply, InLine, TypeOK
  <2>4. QED
    BY <1>0, <1>t, <2>1, <2>3
<1>13. ASSUME NEW c \in Clients, NEW op \in Controls, NEW j \in Jobs, Load(c, op, j)
       PROVE  Credit'
  BY <1>1, <1>t, <1>13 DEF Load, Requeuers, InLine, rows, work, hist
<1>14. QED
  BY <1>2, <1>3, <1>4, <1>5, <1>6, <1>7, <1>8, <1>9, <1>10, <1>11, <1>12, <1>13
     DEF Next, WorkerStep
-----------------------------------------------------------------------------
(* A running row has somebody who will change it *)

LEMMA WriterStep == TypeOK /\ RunningHasWriter /\ [Next]_vars => RunningHasWriter'
<1> SUFFICES ASSUME TypeOK, RunningHasWriter, [Next]_vars, exits' = 0, faults' = 0,
                    NEW k \in Jobs, status'[k] = "running"
             PROVE  (\E v \in Executors(k) : pc[v] = "failing" => seen[v].status = "running")'
  BY DEF RunningHasWriter
<1> DEFINE Writer(v) == /\ pc[v] \in Busy /\ job[v] = k
                        /\ pc[v] = "failing" => seen[v].status = "running"
<1>0. exits = 0 /\ faults = 0 /\ status[k] = "running" => \E v \in Workers : Writer(v)
  BY DEF RunningHasWriter, Executors
<1> SUFFICES (\E v \in Workers : Writer(v))'
  BY DEF Executors
<1> HIDE DEF Writer
<1>1. ASSUME exits = 0, faults = 0, status[k] = "running",
             \A v \in Workers : Writer(v) => Writer(v)'
      PROVE  (\E v \in Workers : Writer(v))'
  BY <1>0, <1>1
<1> USE DEF TypeOK, rows, work, hist, Busy, Writer
<1>2. CASE UNCHANGED vars
  BY <1>1, <1>2 DEF vars
<1>3. ASSUME NEW j \in Jobs, Enqueue(j) \/ Elapse(j) \/ Expire(j)
      PROVE  (\E v \in Workers : Writer(v))'
  BY <1>1, <1>3 DEF Enqueue, Elapse, Expire
<1>4. ASSUME NEW w \in Workers,
             SelectCandidate(w) \/ LoseRace(w) \/ Heartbeat(w) \/ LoadFailed(w) \/ Start(w)
      PROVE  (\E v \in Workers : Writer(v))'
  <2>1. status' = status /\ exits' = exits /\ faults' = faults
    BY <1>4 DEF SelectCandidate, LoseRace, Heartbeat, LoadFailed, Start
  <2>2. \A v \in Workers : Writer(v) => Writer(v)'
    BY <1>4, <2>1 DEF SelectCandidate, LoseRace, Heartbeat, LoadFailed, Start
  <2>3. QED
    BY <1>1, <2>1, <2>2
<1>5. ASSUME NEW w \in Workers, Claim(w)
      PROVE  (\E v \in Workers : Writer(v))'
  <2>1. CASE job[w] = k
    <3>1. Writer(w)'
      BY <1>5, <2>1 DEF Claim
    <3>2. QED
      BY <3>1
  <2>2. CASE job[w] # k
    <3>1. \A v \in Workers : Writer(v) => Writer(v)'
      BY <1>5, <2>2 DEF Claim
    <3>2. QED
      BY <1>1, <1>5, <2>2, <3>1 DEF Claim
  <2>3. QED
    BY <2>1, <2>2
<1>6. ASSUME NEW w \in Workers, Complete(w)
      PROVE  (\E v \in Workers : Writer(v))'
  <2>1. job[w] # k
    BY <1>6 DEF Complete
  <2>2. \A v \in Workers : Writer(v) => Writer(v)'
    BY <1>6, <2>1 DEF Complete
  <2>3. QED
    BY <1>1, <1>6, <2>1, <2>2 DEF Complete
<1>7. ASSUME NEW w \in Workers, Fail(w)
      PROVE  (\E v \in Workers : Writer(v))'
  \* If w holds job k, it has left the row alone, so it had not seen "running".
  <2>1. status[k] = "running" /\ ~Writer(w)
    BY <1>7 DEF Fail
  <2>2. \A v \in Workers \ {w} : Writer(v) => Writer(v)'
    BY <1>7 DEF Fail
  <2>3. exits = 0 /\ faults = 0
    BY <1>7 DEF Fail
  <2>4. QED
    BY <1>1, <2>1, <2>2, <2>3
<1>8. ASSUME NEW w \in Workers, LoseOutcome(w) \/ Exit(w)
      PROVE  FALSE
  BY <1>8 DEF LoseOutcome, Exit
<1>9. ASSUME NEW w \in Workers, RecoverOrphans(w)
      PROVE  (\E v \in Workers : Writer(v))'
  BY <1>1, <1>9 DEF RecoverOrphans
<1>10. ASSUME NEW c \in Clients, Apply(c)
       PROVE  (\E v \in Workers : Writer(v))'
  <2>1. Writes[req[c].op] # "running"
    BY <1>10 DEF Apply, Writes, Controls
  <2>2. status' = status \/ status[k] = "running"
    BY <1>10, <2>1 DEF Apply
  <2>3. QED
    BY <1>1, <1>10, <2>2 DEF Apply
<1>11. ASSUME NEW c \in Clients, NEW op \in Controls, NEW j \in Jobs, Load(c, op, j)
       PROVE  (\E v \in Workers : Writer(v))'
  BY <1>1, <1>11 DEF Load
<1>12. QED
  BY <1>2, <1>3, <1>4, <1>5, <1>6, <1>7, <1>8, <1>9, <1>10, <1>11 DEF Next, WorkerStep

-----------------------------------------------------------------------------
(* The inductive invariant and what follows from it *)

LEMMA InvInit == Init => IInv
<1> SUFFICES ASSUME Init PROVE IInv
  OBVIOUS
<1>1. TypeOK
  BY TypeInit
<1>2. \A j \in Jobs : Executors(j) = {} /\ Requeuers(j) = {} /\ InLine(j) = 0
  BY DEF Init, Executors, Requeuers, InLine, Waiting, Busy
<1>3. ExecutionBudget /\ AttemptCredit
  <2> SUFFICES ASSUME NEW j \in Jobs
               PROVE  /\ Cardinality(Executors(j)) + effects[j] + InLine(j) <= 1 + requeues[j]
                      /\ attempts[j] + Cardinality(Requeuers(j)) + InLine(j)
                           <= MaxAttempts + requeues[j]
    BY DEF ExecutionBudget, AttemptCredit
  <2>1. Cardinality(Executors(j)) = 0 /\ Cardinality(Requeuers(j)) = 0 /\ InLine(j) = 0
    BY <1>2, FS_EmptySet
  <2>2. effects[j] = 0 /\ attempts[j] = 0 /\ requeues[j] = 0
    BY DEF Init
  <2> QED
    BY <2>1, <2>2, AttemptsAssumption
<1>4. AbsentIsUnknown
  BY JobsAssumption DEF Init, AbsentIsUnknown, NoRequest
<1>5. SeenIsPast /\ FailedIsExhausted /\ RunningHasWriter
  BY DEF Init, SeenIsPast, FailedIsExhausted, RunningHasWriter
<1>6. QED
  BY <1>1, <1>3, <1>4, <1>5 DEF IInv

LEMMA InvStep == IInv /\ [Next]_vars => IInv'
  BY TypeStep, AbsentStep, ExecutionStep, CreditStep, ExhaustedStep, WriterStep DEF IInv

LEMMA InvCorrect == Spec => []IInv
  BY InvInit, InvStep, PTL DEF Spec

\* Places in line, executions in progress and committed effects of a job are
\* bounded by one plus the times it was put back (the guarded UPDATE of
\* claim_next never lets two workers take one place), for any number of
\* workers, requests, exits and faults.
THEOREM ExecutionBudgetCorrect == Spec => []ExecutionBudget
<1>1. IInv => ExecutionBudget
  BY DEF IInv
<1>2. QED
  BY InvCorrect, <1>1, PTL

\* max_attempts bounds the attempts, but for one per recovery, retry or resume,
\* and a job is recorded as failed only after all of them.
THEOREM AttemptsAreKeptCorrect == Spec => []AttemptsAreKept
<1>1. ASSUME IInv, NEW j \in Jobs
      PROVE  attempts[j] <= MaxAttempts + requeues[j]
  <2>1. attempts[j] + Cardinality(Requeuers(j)) + InLine(j) <= MaxAttempts + requeues[j]
    BY <1>1 DEF IInv, AttemptCredit
  <2>2. Cardinality(Requeuers(j)) \in Nat /\ InLine(j) \in {0, 1}
    BY RequeuersFinite DEF InLine
  <2>3. attempts[j] \in Nat /\ requeues[j] \in Nat /\ MaxAttempts \in Nat
    BY <1>1, AttemptsAssumption DEF IInv, TypeOK
  <2>4. QED
    BY <2>1, <2>2, <2>3
<1>2. IInv => AttemptsAreKept
  BY <1>1 DEF AttemptsAreKept, AttemptBudget, IInv
<1>3. QED
  BY InvCorrect, <1>2, PTL

\* Until a process ends or the database fails while an outcome is recorded,
\* no row says "running" when nobody runs it.
THEOREM RunningIsRunCorrect == Spec => []RunningIsRun
<1>1. IInv => RunningIsRun
  BY DEF IInv, RunningHasWriter, RunningIsRun, Abandoned
<1>2. QED
  BY InvCorrect, <1>1, PTL

-----------------------------------------------------------------------------
(* One worker process *)

\* The deployment that the worker run checks: a single worker.
OneWorker == \E w : Workers = {w}

\* As long as no control request was accepted, nobody but the worker writes
\* the rows: the job it executes says "running", so do the rows it is about to
\* put back, and a row says "completed" exactly when its effects are committed.
Alone ==
  ops = 0 =>
    /\ \A c \in Clients : req[c] = NoRequest
    /\ \A w \in Workers :
         /\ pc[w] \in Busy => status[job[w]] = "running"
         /\ orphans[w] # {} => pc[w] = "recovering"
         /\ \A j \in orphans[w] : status[j] = "running"
    /\ \A j \in Jobs : effects[j] = IF status[j] = "completed" THEN 1 ELSE 0

LEMMA AloneInit == Init => Alone
  BY DEF Init, Alone, Busy

LEMMA AloneStep ==
  ASSUME OneWorker, TypeOK, Alone, [Next]_vars
  PROVE  Alone'
<1> SUFFICES ASSUME ops' = 0 PROVE Alone'
  BY DEF Alone
<1> PICK u : Workers = {u}
  BY DEF OneWorker
<1> USE DEF TypeOK, rows, work, hist, Busy
<1>o. ops = 0
  <2>1. CASE \E c \in Clients, op \in Controls, j \in Jobs : Load(c, op, j)
    BY <2>1 DEF Load
  <2>2. CASE ~ \E c \in Clients, op \in Controls, j \in Jobs : Load(c, op, j)
    BY <2>2 DEF Next, vars, WorkerStep, Enqueue, Elapse, Expire, SelectCandidate, Claim,
                LoseRace, Heartbeat, Complete, LoadFailed, Fail, LoseOutcome, Exit, Start,
                RecoverOrphans, Apply
  <2>3. QED
    BY <2>1, <2>2
<1>a. /\ \A c \in Clients : req[c] = NoRequest
      /\ pc[u] \in Busy => status[job[u]] = "running"
      /\ orphans[u] # {} => pc[u] = "recovering"
      /\ \A j \in orphans[u] : status[j] = "running"
      /\ \A j \in Jobs : effects[j] = IF status[j] = "completed" THEN 1 ELSE 0
  BY <1>o DEF Alone
<1>t. /\ pc[u] \in Busy => job[u] \in Jobs
      /\ pc[u] = "selected" => job[u] \in Jobs
      /\ orphans[u] \subseteq Jobs
  BY DEF NoJob
<1>g. SUFFICES /\ \A c \in Clients : req'[c] = NoRequest
               /\ pc'[u] \in Busy => status'[job'[u]] = "running"
               /\ orphans'[u] # {} => pc'[u] = "recovering"
               /\ \A j \in orphans'[u] : status'[j] = "running"
               /\ \A j \in Jobs : effects'[j] = IF status'[j] = "completed" THEN 1 ELSE 0
  BY DEF Alone
<1>1. CASE UNCHANGED vars
  BY <1>1, <1>a DEF vars
<1>2. CASE \E j \in Jobs : Enqueue(j) \/ Elapse(j) \/ Expire(j)
  <2>1. CASE \E j \in Jobs : Enqueue(j)
    BY <2>1, <1>a, <1>t DEF Enqueue
  <2>2. CASE \E j \in Jobs : Elapse(j) \/ Expire(j)
    BY <2>2, <1>a DEF Elapse, Expire
  <2>3. QED
    BY <1>2, <2>1, <2>2
<1>3. CASE SelectCandidate(u)
  BY <1>3, <1>a DEF SelectCandidate
<1>4. CASE Claim(u)
  BY <1>4, <1>a, <1>t DEF Claim, StillQueued
<1>5. CASE LoseRace(u) \/ LoseOutcome(u) \/ Exit(u)
  BY <1>5, <1>a DEF LoseRace, LoseOutcome, Exit
<1>6. CASE Heartbeat(u) \/ LoadFailed(u)
  BY <1>6, <1>a DEF Heartbeat, LoadFailed
<1>7. CASE Complete(u)
  BY <1>7, <1>a, <1>t DEF Complete
<1>8. CASE Fail(u)
  BY <1>8, <1>a, <1>t DEF Fail
<1>9. CASE Start(u)
  BY <1>9, <1>a DEF Start, LooksOrphaned
<1>10. CASE RecoverOrphans(u)
  BY <1>10, <1>a, <1>t DEF RecoverOrphans
<1>11. ASSUME NEW c \in Clients,
              Apply(c) \/ \E op \in Controls, j \in Jobs : Load(c, op, j)
       PROVE  FALSE
  BY <1>11, <1>o, <1>a DEF Apply, Load
<1>12. QED
  BY <1>1, <1>2, <1>3, <1>4, <1>5, <1>6, <1>7, <1>8, <1>9, <1>10, <1>11
  DEF Next, WorkerStep

\* With one worker and before any control request, whatever the crashes and
\* the faults of the database: the handler's transaction commits at most once,
\* and exactly when the job is recorded as completed.
THEOREM ExactlyOnceCorrect ==
  ASSUME OneWorker
  PROVE  Spec => []ExactlyOnce
<1>1. TypeOK /\ Alone /\ [Next]_vars => Alone'
  BY AloneStep
<1>2. Alone => ExactlyOnce
  BY DEF Alone, ExactlyOnce
<1>3. QED
  BY TypeCorrect, AloneInit, <1>1, <1>2, PTL DEF Spec

\* What the worker has selected stays due until it is claimed: only fail()
\* puts scheduled_at in the future, and the worker is not failing a job then.
SelectedIsDue == \A w \in Workers : pc[w] = "selected" => due[job[w]]

LEMMA SelectedStep ==
  ASSUME OneWorker, TypeOK, SelectedIsDue, [Next]_vars
  PROVE  SelectedIsDue'
<1> PICK u : Workers = {u}
  BY DEF OneWorker
<1> USE DEF TypeOK, SelectedIsDue, rows, work, hist
<1>t. pc[u] = "selected" => job[u] \in Jobs
  BY DEF NoJob
<1>1. CASE UNCHANGED vars
  BY <1>1 DEF vars
<1>2. ASSUME NEW j \in Jobs, Enqueue(j) \/ Elapse(j) \/ Expire(j) PROVE SelectedIsDue'
  BY <1>2, <1>t DEF Enqueue, Elapse, Expire
<1>3. CASE SelectCandidate(u)
  <2>1. PICK j \in Claimable : job' = [job EXCEPT ![u] = j]
    BY <1>3 DEF SelectCandidate
  <2>2. QED
    BY <1>3, <2>1 DEF SelectCandidate, Claimable
<1>4. CASE Claim(u) \/ LoseRace(u) \/ Heartbeat(u) \/ Complete(u) \/ LoadFailed(u)
  BY <1>4 DEF Claim, LoseRace, Heartbeat, Complete, LoadFailed
<1>5. CASE Fail(u) \/ LoseOutcome(u)
  BY <1>5 DEF Fail, LoseOutcome
<1>6. CASE Exit(u) \/ Start(u) \/ RecoverOrphans(u)
  BY <1>6 DEF Exit, Start, RecoverOrphans
<1>7. ASSUME NEW c \in Clients, Apply(c) PROVE SelectedIsDue'
  BY <1>7, <1>t DEF Apply
<1>8. ASSUME NEW c \in Clients, NEW op \in Controls, NEW j \in Jobs, Load(c, op, j)
      PROVE  SelectedIsDue'
  BY <1>8 DEF Load
<1>9. QED
  BY <1>1, <1>2, <1>3, <1>4, <1>5, <1>6, <1>7, <1>8 DEF Next, WorkerStep

\* With one worker the backoff that fail() sets is waited out, although the
\* guarded UPDATE of claim_next does not look at scheduled_at again.
THEOREM ClaimsOnlyDueCorrect ==
  ASSUME OneWorker
  PROVE  Spec => ClaimsOnlyDue
<1>1. Init => SelectedIsDue
  BY DEF Init, SelectedIsDue
<1>2. TypeOK /\ SelectedIsDue /\ [Next]_vars => SelectedIsDue'
  BY SelectedStep
<1>3. SelectedIsDue
        => [\A w \in Workers : pc[w] = "selected" /\ pc'[w] = "claimed" => due[job[w]]]_vars
  BY DEF SelectedIsDue
<1>4. QED
  BY TypeCorrect, <1>1, <1>2, <1>3, PTL DEF Spec, ClaimsOnlyDue

-----------------------------------------------------------------------------
(* The queue implements DurableExecution *)

LEMMA PromiseInit == Init => Promise!Init
<1> SUFFICES ASSUME Init PROVE Promise!Init
  OBVIOUS
<1>1. \A j \in Jobs : Executors(j) = {}
  BY DEF Init, Executors, Busy
<1>2. \A j \in Jobs : Cardinality(Executors(j)) = 0
  BY <1>1, FS_EmptySet
<1>3. Running = [j \in Jobs |-> 0]
  BY <1>2 DEF Running
<1>4. Paid = [j \in Jobs |-> 0] /\ effects = [j \in Jobs |-> 0]
  BY DEF Init, Paid
<1>5. QED
  BY <1>3, <1>4 DEF Promise!Init

\* A step that adds no executor, takes none away, commits nothing and puts no
\* job in line is none of the promise.
LEMMA NoPromiseStep ==
  ASSUME TypeOK, UNCHANGED <<effects, requeues>>,
         \A j \in Jobs : Executors(j)' = Executors(j),
         \A j \in Jobs : status'[j] = "absent" <=> status[j] = "absent"
  PROVE  UNCHANGED Promise!vars
<1>1. Paid' = Paid
  BY DEF Paid
<1>2. Running' = Running
  BY DEF Running
<1>3. QED
  BY <1>1, <1>2 DEF Promise!vars

\* A worker that lets go of the job it executes is one execution less.
LEMMA ExecutionEnds ==
  ASSUME TypeOK, NEW w \in Workers, pc[w] \in Busy,
         pc' \in {[pc EXCEPT ![w] = "idle"], [pc EXCEPT ![w] = "down"]},
         job' = [job EXCEPT ![w] = NoJob]
  PROVE  /\ job[w] \in Jobs
         /\ Running[job[w]] > 0
         /\ Running' = [Running EXCEPT ![job[w]] = @ - 1]
<1>1. job[w] \in Jobs
  BY DEF TypeOK, Busy
<1>2. \A k \in Jobs : w \in Executors(k) <=> k = job[w]
  BY DEF Executors
<1>3. \A k \in Jobs : Cardinality(Executors(k)') =
        Cardinality(Executors(k)) - (IF w \in Executors(k) THEN 1 ELSE 0)
  BY ExecutorLeaves
<1>4. \A k \in Jobs : Cardinality(Executors(k)) \in Nat /\ Cardinality(Executors(k)') \in Nat
  BY ExecutorsFinite
<1>5. \A k \in Jobs : Cardinality(Executors(k)') =
        IF k = job[w] THEN Cardinality(Executors(k)) - 1 ELSE Cardinality(Executors(k))
  BY <1>2, <1>3, <1>4
<1>6. Cardinality(Executors(job[w])) > 0
  BY <1>1, <1>4, <1>5
<1>7. Running' = [k \in Jobs |-> IF k = job[w] THEN Running[k] - 1 ELSE Running[k]]
  BY <1>5 DEF Running
<1>8. Running' = [Running EXCEPT ![job[w]] = Running[job[w]] - 1]
  BY <1>1, <1>7 DEF Running
<1>9. QED
  BY <1>1, <1>6, <1>8 DEF Running

\* A worker that lets go of its job drops it, if it was executing it at all.
LEMMA DropStep ==
  ASSUME TypeOK, NEW w \in Workers,
         pc' \in {[pc EXCEPT ![w] = "idle"], [pc EXCEPT ![w] = "down"]},
         job' = [job EXCEPT ![w] = NoJob],
         UNCHANGED <<effects, requeues>>,
         \A j \in Jobs : status'[j] = "absent" <=> status[j] = "absent"
  PROVE  [Promise!Next]_(Promise!vars)
<1>1. CASE pc[w] \in Busy
  <2>1. /\ job[w] \in Jobs
        /\ Running[job[w]] > 0
        /\ Running' = [Running EXCEPT ![job[w]] = @ - 1]
    BY <1>1, ExecutionEnds
  <2>2. Paid' = Paid
    BY DEF Paid
  <2>3. Promise!Drop(job[w])
    BY <2>1, <2>2 DEF Promise!Drop
  <2>4. QED
    BY <2>1, <2>3 DEF Promise!Next
<1>2. CASE pc[w] \notin Busy
  <2>1. \A j \in Jobs : Executors(j)' = Executors(j)
    BY <1>2 DEF TypeOK, Executors, Busy
  <2>2. QED
    BY <2>1, NoPromiseStep
<1>3. QED
  BY <1>1, <1>2

\* The claim that wins takes an execution: the place in line has paid for it.
LEMMA ClaimStep ==
  ASSUME IInv, NEW w \in Workers, Claim(w)
  PROVE  Promise!Next
<1>1. job[w] \in Jobs /\ status[job[w]] = "queued"
  BY DEF IInv, TypeOK, Claim, StillQueued
<1>2. \A k \in Jobs : /\ Cardinality(Executors(k)) \in Nat
                      /\ IsFiniteSet(Executors(k))
  BY ExecutorsFinite
<1>3. Running[job[w]] + effects[job[w]] < Paid[job[w]]
  <2>1. Cardinality(Executors(job[w])) + effects[job[w]] + InLine(job[w]) <= 1 + requeues[job[w]]
    BY <1>1 DEF IInv, ExecutionBudget
  <2>2. InLine(job[w]) = 1 /\ Paid[job[w]] = 1 + requeues[job[w]]
    BY <1>1 DEF InLine, Waiting, Paid
  <2>3. effects[job[w]] \in Nat /\ requeues[job[w]] \in Nat
    BY <1>1 DEF IInv, TypeOK
  <2>4. Running[job[w]] = Cardinality(Executors(job[w]))
    BY <1>1 DEF Running
  <2>5. QED
    BY <1>1, <1>2, <2>1, <2>2, <2>3, <2>4
<1>4. Running' = [Running EXCEPT ![job[w]] = @ + 1]
  <2>1. \A k \in Jobs : k # job[w] => Executors(k)' = Executors(k)
    BY DEF IInv, TypeOK, Claim, Executors, Busy
  <2>2. \A k \in Jobs : Cardinality(Executors(k)') =
          IF k = job[w] THEN Cardinality(Executors(k)) + 1 ELSE Cardinality(Executors(k))
    <3>1. ASSUME NEW k \in Jobs, k = job[w]
          PROVE  Cardinality(Executors(k)') = Cardinality(Executors(k)) + 1
      <4>1. Executors(k)' = Executors(k) \union {w} /\ w \notin Executors(k)
        BY <3>1 DEF IInv, TypeOK, Claim, Executors, Busy
      <4>2. QED
        BY <1>2, <4>1, FS_AddElement
    <3>2. QED
      BY <2>1, <3>1
  <2>3. Running' = [k \in Jobs |-> IF k = job[w] THEN Running[k] + 1 ELSE Running[k]]
    BY <2>2 DEF Running
  <2>4. QED
    BY <1>1, <2>3 DEF Running
<1>5. Paid' = Paid
  BY <1>1 DEF IInv, TypeOK, Claim, Paid, hist
<1>6. effects' = effects
  BY DEF Claim, hist
<1>7. Promise!Take(job[w])
  BY <1>3, <1>4, <1>5, <1>6 DEF Promise!Take
<1>8. QED
  BY <1>1, <1>7 DEF Promise!Next

\* complete() commits the handler's effects together with the end of the execution.
LEMMA CompleteStep ==
  ASSUME IInv, NEW w \in Workers, Complete(w)
  PROVE  Promise!Next
<1>1. pc[w] \in Busy /\ status[job[w]] # "absent"
  BY DEF IInv, TypeOK, AbsentIsUnknown, Complete, Busy
<1>2. /\ job[w] \in Jobs
      /\ Running[job[w]] > 0
      /\ Running' = [Running EXCEPT ![job[w]] = @ - 1]
  BY <1>1, ExecutionEnds DEF IInv, Complete
<1>3. Paid' = Paid
  BY <1>1 DEF IInv, TypeOK, Complete, Paid
<1>4. effects' = [effects EXCEPT ![job[w]] = @ + 1]
  BY DEF Complete
<1>5. Promise!Commit(job[w])
  BY <1>2, <1>3, <1>4 DEF Promise!Commit
<1>6. QED
  BY <1>2, <1>5 DEF Promise!Next

\* What is inserted, recovered or asked for again is put in line.
LEMMA PutStep ==
  ASSUME \A j \in Jobs : Executors(j)' = Executors(j),
         effects' = effects,
         NEW S \in SUBSET Jobs,
         Paid' = [j \in Jobs |-> IF j \in S THEN Paid[j] + 1 ELSE Paid[j]]
  PROVE  Promise!Next
<1>1. Running' = Running
  BY DEF Running
<1>2. Promise!Put(S)
  BY <1>1 DEF Promise!Put
<1>3. QED
  BY <1>2 DEF Promise!Next

LEMMA PromiseStep == IInv /\ [Next]_vars => [Promise!Next]_(Promise!vars)
<1> SUFFICES ASSUME IInv, [Next]_vars PROVE [Promise!Next]_(Promise!vars)
  OBVIOUS
<1>t. TypeOK /\ AbsentIsUnknown
  BY DEF IInv
<1>1. CASE UNCHANGED vars
  BY <1>1, <1>t, NoPromiseStep DEF vars, rows, work, hist, Executors
<1>2. ASSUME NEW j \in Jobs, Enqueue(j)
      PROVE  Promise!Next
  <2>1. Paid' = [k \in Jobs |-> IF k \in {j} THEN Paid[k] + 1 ELSE Paid[k]]
    <3>1. requeues[j] = 0
      BY <1>2, <1>t DEF Enqueue, AbsentIsUnknown
    <3>2. QED
      BY <1>2, <1>t, <3>1 DEF Enqueue, Paid, TypeOK, hist
  <2>2. QED
    BY <1>2, <2>1, PutStep DEF Enqueue, work, hist, Executors
<1>3. ASSUME NEW j \in Jobs, Elapse(j) \/ Expire(j)
      PROVE  UNCHANGED Promise!vars
  BY <1>3, <1>t, NoPromiseStep DEF Elapse, Expire, work, hist, Executors
<1>4. ASSUME NEW w \in Workers,
             SelectCandidate(w) \/ Heartbeat(w) \/ LoadFailed(w) \/ Start(w)
      PROVE  UNCHANGED Promise!vars
  <2>1. \A j \in Jobs : Executors(j)' = Executors(j)
    BY <1>4, <1>t DEF SelectCandidate, Heartbeat, LoadFailed, Start, Executors, TypeOK, Busy
  <2>2. effects' = effects /\ requeues' = requeues /\ status' = status
    BY <1>4 DEF SelectCandidate, Heartbeat, LoadFailed, Start, rows, hist
  <2>3. QED
    BY <1>t, <2>1, <2>2, NoPromiseStep
<1>5. ASSUME NEW w \in Workers, LoseRace(w) \/ LoseOutcome(w) \/ Exit(w)
      PROVE  [Promise!Next]_(Promise!vars)
  BY <1>5, <1>t, DropStep DEF LoseRace, LoseOutcome, Exit, rows, hist
<1>6. ASSUME NEW w \in Workers, Fail(w)
      PROVE  [Promise!Next]_(Promise!vars)
  <2>1. job[w] \in Jobs /\ status[job[w]] # "absent"
    BY <1>6, <1>t DEF Fail, TypeOK, AbsentIsUnknown, Busy
  <2>2. \A j \in Jobs : status'[j] = "absent" <=> status[j] = "absent"
    BY <1>6, <1>t, <2>1 DEF Fail, TypeOK
  <2>3. QED
    BY <1>6, <1>t, <2>2, DropStep DEF Fail, hist
<1>7. ASSUME NEW w \in Workers, RecoverOrphans(w)
      PROVE  Promise!Next
  <2> DEFINE S == {j \in orphans[w] : status[j] \notin Waiting}
  <2>1. S \in SUBSET Jobs /\ \A j \in orphans[w] : status[j] # "absent"
    BY <1>7, <1>t DEF TypeOK, AbsentIsUnknown
  <2>2. Paid' = [j \in Jobs |-> IF j \in S THEN Paid[j] + 1 ELSE Paid[j]]
    BY <1>7, <1>t, <2>1 DEF RecoverOrphans, Paid, TypeOK
  <2>3. \A j \in Jobs : Executors(j)' = Executors(j)
    BY <1>7, <1>t DEF RecoverOrphans, Executors, TypeOK, Busy
  <2>4. effects' = effects
    BY <1>7 DEF RecoverOrphans
  <2>5. QED
    BY <2>1, <2>2, <2>3, <2>4, PutStep
<1>8. ASSUME NEW c \in Clients, Apply(c)
      PROVE  Promise!Next
  <2> DEFINE S == IF Writes[req[c].op] \in Waiting /\ status[req[c].job] \notin Waiting
                  THEN {req[c].job} ELSE {}
  <2>1. req[c].op \in Controls /\ req[c].job \in Jobs
    BY <1>8, <1>t DEF Apply, TypeOK
  <2>2. status[req[c].job] # "absent" /\ Writes[req[c].op] # "absent"
    BY <1>t, <2>1 DEF AbsentIsUnknown, Writes, Controls
  <2>3. Paid' = [j \in Jobs |-> IF j \in S THEN Paid[j] + 1 ELSE Paid[j]]
    BY <1>8, <1>t, <2>1, <2>2 DEF Apply, Paid, TypeOK
  <2>4. \A j \in Jobs : Executors(j)' = Executors(j)
    BY <1>8 DEF Apply, work, Executors
  <2>5. effects' = effects /\ S \in SUBSET Jobs
    BY <1>8, <2>1 DEF Apply
  <2>6. QED
    BY <2>3, <2>4, <2>5, PutStep
<1>9. ASSUME NEW c \in Clients, NEW op \in Controls, NEW j \in Jobs, Load(c, op, j)
      PROVE  UNCHANGED Promise!vars
  BY <1>9, <1>t, NoPromiseStep DEF Load, Executors, rows, work, hist
<1>10. QED
  BY <1>1, <1>2, <1>3, <1>4, <1>5, <1>6, <1>7, <1>8, <1>9, ClaimStep, CompleteStep
     DEF Next, WorkerStep

\* However workers, requests, recoveries and exits interleave, the queue
\* starts no execution that was not paid for by a place in line, and commits
\* the effects of an execution only while it is in progress.
THEOREM Implements == Spec => KeepsPromise
<1>1. Init => Promise!Init
  BY PromiseInit
<1>2. IInv /\ [Next]_vars => [Promise!Next]_(Promise!vars)
  BY PromiseStep
<1>3. QED
  BY <1>1, <1>2, InvCorrect, PTL DEF Spec, KeepsPromise, Promise!Spec
=============================================================================
