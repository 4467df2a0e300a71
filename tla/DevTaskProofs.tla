---------------------------- MODULE DevTaskProofs ----------------------------
(***************************************************************************)
(* Proofs about DevTask, for any clients, bounds and rules and whoever     *)
(* runs the workflow.  A step is looked at by what it does to the task,    *)
(* whatever job it is about.  The invariants: the gate rows behind         *)
(* whatever depends on them, the version that a run in flight has left to  *)
(* write, the approvals behind what is built, the runs that were asked     *)
(* for, and the gate row that has judged what had a pull request.          *)
(*                                                                         *)
(* The last parts are about the git branch of a task, which is Sandbox,    *)
(* and about the edits of its texts, CodeModification.                     *)
(***************************************************************************)
EXTENDS DevTask, Sandbox, FiniteSetTheorems, SequenceTheorems, WellFoundedInduction, TLAPS

-----------------------------------------------------------------------------
(* The kinds of steps *)

TxShape == tx = [p \in Procs |-> tx[p]]

\* The rows that the properties are about.
TaskStays == UNCHANGED <<row, work, gates, pipelines, decided, reworks>>

\* A transaction that holds nothing of the task.
Passive(t) == t.op \notin {"run", "evaluate", "decide", "pipeline"}

\* p leaves a transaction that has written no row of the task.
Leaves(p) ==
  /\ TaskStays /\ UNCHANGED <<raced, begun>>
  /\ tx[p].op \notin {"run", "evaluate"}
  /\ \E t : Passive(t) /\ tx' = [tx EXCEPT ![p] = t]

\* Nothing moves, or everything stops.
Stops ==
  /\ TaskStays /\ UNCHANGED <<raced, begun>>
  /\ tx' = tx \/ tx' = [p \in Procs |-> Idle]

BeginsRun(p) == TaskStays /\ MayRun(p) /\ BeginRun(p)

BeginsPipeline(p) ==
  TaskStays /\ tx[p] = Idle /\ BeginPipeline(p) /\ UNCHANGED <<raced, begun>>

StepKinds ==
  \/ \E p \in Procs, outcome \in DOMAIN Kept : RunCommit(p, outcome)
  \/ \E c \in Clients : EvaluateRead(c) \/ EvaluateCommit(c)
  \/ \E c \in Clients, verdict \in Verdicts, override \in BOOLEAN :
       DecideRead(c, verdict, override)
  \/ \E c \in Clients : DecideCommit(c)
  \/ \E p \in Procs : PipelineCommit(p)
  \/ \E p \in Procs : BeginsRun(p) \/ BeginsPipeline(p) \/ Leaves(p)
  \/ Stops

\* What a step does to the task, whoever takes it and whatever job it is about.
LEMMA StepCases == [Next]_vars => StepKinds
<1> SUFFICES ASSUME [Next]_vars PROVE StepKinds
  OBVIOUS
<1>w. Worker \in Procs
  BY DEF Procs
<1>i. Passive(Idle) /\ Idle.op \notin {"run", "evaluate"}
  BY DEF Passive, Idle
<1>p. ASSUME NEW p \in Procs, PipelineConflict(p) PROVE Leaves(p)
  <2>1. Passive([op |-> "raised", kind |-> "pipeline"])
    BY DEF Passive
  <2>2. \E t : Passive(t) /\ tx' = [tx EXCEPT ![p] = t]
    <3>1. CASE p = Worker
      BY <1>p, <2>1, <3>1 DEF PipelineConflict
    <3>2. CASE p # Worker
      BY <1>p, <1>i, <3>2 DEF PipelineConflict
    <3> QED
      BY <3>1, <3>2
  <2> QED
    BY <1>p, <2>2 DEF PipelineConflict, Leaves, TaskStays
<1>1. CASE WorkerStep
  <2>1. CASE ClaimRun
    BY <1>w, <2>1 DEF ClaimRun, Claim, BeginsRun, TaskStays, StepKinds
  <2>2. CASE ClaimPipeline
    BY <1>w, <2>2 DEF ClaimPipeline, Claim, BeginsPipeline, TaskStays, StepKinds
  <2>3. ASSUME NEW kind \in Kinds, ClaimRefused(kind) PROVE Leaves(Worker)
    <3>1. Passive([op |-> "raised", kind |-> kind])
      BY DEF Passive
    <3> QED
      BY <1>i, <2>3, <3>1 DEF ClaimRefused, Claim, Leaves, TaskStays
  <2>4. CASE PipelineCommit(Worker)
    BY <1>w, <2>4 DEF StepKinds
  <2>5. CASE LoadFailed
    <3>1. \A k, s, a : Passive([op |-> "failing", kind |-> k, seen |-> s, again |-> a])
      BY DEF Passive
    <3>2. Leaves(Worker)
      BY <2>5, <3>1 DEF LoadFailed, Leaves, TaskStays
    <3> QED
      BY <1>w, <3>2 DEF StepKinds
  <2>6. CASE Fail
    <3>1. Leaves(Worker)
      BY <1>i, <2>6 DEF Fail, Leaves, TaskStays
    <3> QED
      BY <1>w, <3>1 DEF StepKinds
  <2> QED
    BY <1>1, <1>p, <1>w, <2>1, <2>2, <2>3, <2>4, <2>5, <2>6 DEF WorkerStep, StepKinds
<1>2. ASSUME NEW c \in Clients, ClientStep(c) PROVE StepKinds
  <2>c. c \in Procs
    BY DEF Procs
  <2>1. CASE RequestRun(c)
    BY <2>1, <2>c DEF RequestRun, BeginsRun, TaskStays, StepKinds
  <2>2. CASE DecideConflict(c)
    <3>1. Leaves(c)
      BY <1>i, <2>2 DEF DecideConflict, Leaves, TaskStays
    <3> QED
      BY <2>c, <3>1 DEF StepKinds
  <2>3. CASE RequestPipeline(c)
    BY <2>3, <2>c DEF RequestPipeline, BeginsPipeline, TaskStays, StepKinds
  <2>4. ASSUME NEW control \in Controls, NEW kind \in Kinds, ControlLoad(c, control, kind)
        PROVE  Leaves(c)
    <3>1. Passive([op |-> "control", control |-> control, kind |-> kind])
      BY DEF Passive
    <3> QED
      BY <1>i, <2>4, <3>1 DEF ControlLoad, Leaves, TaskStays
  <2>5. CASE ControlApply(c)
    <3>1. Leaves(c)
      BY <1>i, <2>5 DEF ControlApply, Leaves, TaskStays
    <3> QED
      BY <2>c, <3>1 DEF StepKinds
  <2> QED
    BY <1>2, <1>p, <2>c, <2>1, <2>2, <2>3, <2>4, <2>5 DEF ClientStep, StepKinds
<1>3. CASE RequestRunAsync
  BY <1>3 DEF RequestRunAsync, Stops, TaskStays, StepKinds
<1>4. CASE Crash
  BY <1>4 DEF Crash, Stops, TaskStays, StepKinds
<1>5. CASE UNCHANGED vars
  BY <1>5 DEF vars, Stops, TaskStays, StepKinds
<1> QED
  BY <1>1, <1>2, <1>3, <1>4, <1>5 DEF Next

\* One transaction moves, the others stay.
LEMMA OneMoves ==
  ASSUME TxShape, NEW p \in Procs, NEW t, tx' = [tx EXCEPT ![p] = t]
  PROVE  TxShape' /\ tx'[p] = t /\ \A q \in Procs \ {p} : tx'[q] = tx[q]
BY DEF TxShape

\* Nobody moves, or everybody is idle.
LEMMA AllStop ==
  ASSUME TxShape, Stops
  PROVE  TxShape' /\ \A p \in Procs : tx'[p] = tx[p] \/ tx'[p] = Idle
BY DEF TxShape, Stops

-----------------------------------------------------------------------------
(* Gate rows *)

\* Transactions that rest on a gate row: an approval, a pipeline.
RestsOnGate(t) == \/ t.op = "decide" /\ t.verdict = "approved"
                  \/ t.op = "pipeline"

GateInv ==
  /\ TxShape
  /\ NothingShipsUngated
  /\ \A p \in Procs : RestsOnGate(tx[p]) => gates # {}

\* A gate row is only ever replaced by another.
LEMMA GatesStay ==
  ASSUME [Next]_vars
  PROVE  gates # {} => gates' # {}
<1>1. ASSUME NEW p, NEW outcome, RunCommit(p, outcome)
      PROVE  gates # {} => gates' # {}
  BY <1>1 DEF RunCommit, Replaced
<1>2. ASSUME NEW c, EvaluateCommit(c)
      PROVE  gates # {} => gates' # {}
  BY <1>2 DEF EvaluateCommit, Replaced
<1>3. ASSUME TaskStays PROVE gates' = gates
  BY <1>3 DEF TaskStays
<1> QED
  BY <1>1, <1>2, <1>3, StepCases DEF StepKinds, EvaluateRead, DecideRead, DecideCommit,
     PipelineCommit, BeginsRun, BeginsPipeline, Leaves, Stops

LEMMA GateInvInit == Init => GateInv
BY DEF Init, GateInv, TxShape, NothingShipsUngated, RestsOnGate, Idle

LEMMA PassiveRestsOnNothing ==
  /\ \A t : Passive(t) => ~RestsOnGate(t)
  /\ ~RestsOnGate(Idle)
BY DEF Passive, RestsOnGate, Idle

\* What one transaction does: the others stay as they are.
LEMMA GateInvKept ==
  ASSUME GateInv, gates # {} => gates' # {},
         NEW p \in Procs, NEW t, tx' = [tx EXCEPT ![p] = t],
         RestsOnGate(t) => gates # {},
         (status' = "approved" \/ pipelines' # <<>>) => gates # {}
  PROVE  GateInv'
<1>1. TxShape' /\ tx'[p] = t /\ \A q \in Procs \ {p} : tx'[q] = tx[q]
  BY OneMoves DEF GateInv
<1>2. ASSUME NEW q \in Procs, RestsOnGate(tx'[q]) PROVE gates' # {}
  <2>1. CASE q = p
    BY <1>1, <1>2, <2>1
  <2>2. CASE q # p
    <3>1. tx'[q] = tx[q]
      BY <1>1, <2>2
    <3>2. RestsOnGate(tx[q])
      BY <1>2, <3>1
    <3>3. QED
      BY <3>2 DEF GateInv
  <2>3. QED
    BY <2>1, <2>2
<1>3. QED
  BY <1>1, <1>2 DEF GateInv, NothingShipsUngated, RestsOnGate

LEMMA GateInvStep == GateInv /\ [Next]_vars => GateInv'
<1> SUFFICES ASSUME GateInv, [Next]_vars PROVE GateInv'
  OBVIOUS
<1>0. gates # {} => gates' # {}
  BY GatesStay
<1>1. (status = "approved" \/ pipelines # <<>>) => gates # {}
  BY DEF GateInv, NothingShipsUngated
<1>c. \A c \in Clients : c \in Procs
  BY DEF Procs
<1>2. ASSUME NEW p \in Procs, NEW outcome \in DOMAIN Kept, RunCommit(p, outcome)
      PROVE  GateInv'
  <2>1. tx' = [tx EXCEPT ![p] = Idle] /\ status' # "approved" /\ pipelines' = pipelines
    BY <1>2 DEF RunCommit, End
  <2>2. QED
    BY <1>0, <1>1, <2>1, GateInvKept, PassiveRestsOnNothing
<1>3. ASSUME NEW p \in Procs, PipelineCommit(p) PROVE GateInv'
  <2>1. tx' = [tx EXCEPT ![p] = Idle] /\ gates # {}
    BY <1>3 DEF PipelineCommit, GateInv, RestsOnGate
  <2>2. QED
    BY <1>0, <2>1, GateInvKept, PassiveRestsOnNothing
<1>4. ASSUME NEW p \in Procs, BeginsRun(p) PROVE GateInv'
  <2>1. ~RestsOnGate([op |-> "run", stamp |-> begun]) /\ UNCHANGED <<status, pipelines>>
    BY <1>4 DEF RestsOnGate, BeginsRun, TaskStays, row
  <2>2. QED
    BY <1>0, <1>1, <1>4, <2>1, GateInvKept DEF BeginsRun, BeginRun
<1>5. ASSUME NEW p \in Procs, BeginsPipeline(p) PROVE GateInv'
  <2>1. gates # {}
    BY <1>1, <1>5 DEF BeginsPipeline, BeginPipeline
  <2>2. QED
    BY <1>0, <1>5, <2>1, GateInvKept DEF BeginsPipeline, BeginPipeline
<1>6. ASSUME NEW p \in Procs, Leaves(p) PROVE GateInv'
  <2>1. UNCHANGED <<status, pipelines>>
    BY <1>6 DEF Leaves, TaskStays, row
  <2>2. PICK t : Passive(t) /\ tx' = [tx EXCEPT ![p] = t]
    BY <1>6 DEF Leaves
  <2>3. QED
    BY <1>0, <1>1, <2>1, <2>2, GateInvKept, PassiveRestsOnNothing
<1>7. CASE Stops
  <2>1. UNCHANGED <<status, pipelines, gates>>
    BY <1>7 DEF Stops, TaskStays, row
  <2>2. TxShape' /\ \A p \in Procs : tx'[p] = tx[p] \/ tx'[p] = Idle
    BY <1>7, AllStop DEF GateInv
  <2>3. \A p \in Procs : RestsOnGate(tx'[p]) => gates # {}
    BY <2>2, PassiveRestsOnNothing DEF GateInv
  <2>4. \A p \in Procs : RestsOnGate(tx[p])' => RestsOnGate(tx'[p])
    BY DEF RestsOnGate
  <2> QED
    BY <2>1, <2>2, <2>3, <2>4 DEF GateInv, NothingShipsUngated
<1>8. ASSUME NEW c \in Clients, EvaluateRead(c) PROVE GateInv'
  <2>1. UNCHANGED <<status, pipelines>>
    BY <1>8 DEF EvaluateRead, row
  <2>2. PICK g : tx' = [tx EXCEPT ![c] = [op |-> "evaluate", priors |-> gates, gate |-> g]]
    BY <1>8 DEF EvaluateRead
  <2>3. ~RestsOnGate([op |-> "evaluate", priors |-> gates, gate |-> g])
    BY DEF RestsOnGate
  <2>4. QED
    BY <1>0, <1>1, <1>c, <2>1, <2>2, <2>3, GateInvKept
<1>9. ASSUME NEW c \in Clients, EvaluateCommit(c) PROVE GateInv'
  <2>1. UNCHANGED <<status, pipelines>> /\ tx' = [tx EXCEPT ![c] = Idle]
    BY <1>9 DEF EvaluateCommit, row
  <2>2. QED
    BY <1>0, <1>1, <1>c, <2>1, GateInvKept, PassiveRestsOnNothing
<1>10. ASSUME NEW c \in Clients, NEW verdict \in Verdicts, NEW override \in BOOLEAN,
              DecideRead(c, verdict, override)
       PROVE  GateInv'
  <2>1. UNCHANGED <<status, pipelines>>
    BY <1>10 DEF DecideRead, row
  <2>2. verdict = "approved" => gates # {}
    BY <1>10 DEF DecideRead, Permits, Latest
  <2>3. PICK v, s :
          tx' = [tx EXCEPT ![c] =
                  [op |-> "decide", verdict |-> verdict, status |-> status, code |-> code,
                   pr |-> v, prStatus |-> s, first |-> jobs["pipeline"] = "none"]]
    BY <1>10 DEF DecideRead
  <2> DEFINE t == [op |-> "decide", verdict |-> verdict, status |-> status, code |-> code,
                   pr |-> v, prStatus |-> s, first |-> jobs["pipeline"] = "none"]
  <2>4. RestsOnGate(t) => gates # {}
    BY <2>2 DEF RestsOnGate
  <2>5. tx' = [tx EXCEPT ![c] = t]
    BY <2>3
  <2> HIDE DEF t
  <2>6. QED
    BY <1>0, <1>1, <1>c, <2>1, <2>4, <2>5, GateInvKept
<1>11. ASSUME NEW c \in Clients, DecideCommit(c) PROVE GateInv'
  <2>1. tx' = [tx EXCEPT ![c] = Idle] /\ pipelines' = pipelines
    BY <1>11 DEF DecideCommit
  <2>2. tx[c].op = "decide" /\ status' \in {status, tx[c].verdict}
    BY <1>11 DEF DecideCommit, Written
  <2>3. tx[c].verdict = "approved" => gates # {}
    BY <1>c, <2>2 DEF GateInv, RestsOnGate
  <2>4. QED
    BY <1>0, <1>1, <1>c, <2>1, <2>2, <2>3, GateInvKept, PassiveRestsOnNothing
<1> QED
  BY <1>2, <1>3, <1>4, <1>5, <1>6, <1>7, <1>8, <1>9, <1>10, <1>11, StepCases DEF StepKinds

\* Without a gate row no task is approved and no pipeline has run, whatever
\* requests, jobs and crashes interleave.
THEOREM NothingShipsUngatedCorrect == Spec => []NothingShipsUngated
<1>1. GateInv => NothingShipsUngated
  BY DEF GateInv
<1>2. QED
  BY <1>1, GateInvInit, GateInvStep, PTL DEF Spec

-----------------------------------------------------------------------------
(* Types *)

\* A run that has begun has a version left to write.
Room == runs + InFlight("run") <= MaxRuns

TypeInv == TypeOK /\ Room

LEMMA HasShape == TypeInv => TxShape
BY DEF TypeInv, TypeOK, TxShape

\* The transactions in flight can be counted.
LEMMA FlyingFinite ==
  /\ IsFiniteSet(Doing("run"))
  /\ InFlight("run") \in Nat /\ InFlight("run")' \in Nat
<1>1. IsFiniteSet(Procs)
  BY ProcsAssumption, FS_AddElement DEF Procs
<1>2. Doing("run") \subseteq Procs /\ Doing("run")' \subseteq Procs
  BY DEF Doing
<1> QED
  BY <1>1, <1>2, FS_Subset, FS_CardinalityType DEF InFlight

\* The runs in flight when one transaction moves.
LEMMA RunsMove ==
  ASSUME TxShape, NEW p \in Procs, NEW t, tx' = [tx EXCEPT ![p] = t]
  PROVE  /\ t.op = "run" <=> tx[p].op = "run" =>
              /\ Doing("run")' = Doing("run") /\ InFlight("run")' = InFlight("run")
         /\ t.op = "run" /\ tx[p].op # "run" =>
              /\ Doing("run")' = Doing("run") \union {p}
              /\ InFlight("run")' = InFlight("run") + 1
         /\ t.op # "run" /\ tx[p].op = "run" =>
              /\ Doing("run")' = Doing("run") \ {p}
              /\ InFlight("run")' = InFlight("run") - 1
<1>1. tx'[p] = t /\ \A q \in Procs \ {p} : tx'[q] = tx[q]
  BY OneMoves
<1>2. ASSUME t.op = "run" <=> tx[p].op = "run"
      PROVE  Doing("run")' = Doing("run")
  BY <1>1, <1>2 DEF Doing
<1>3. ASSUME t.op = "run", tx[p].op # "run"
      PROVE  Doing("run")' = Doing("run") \union {p} /\ p \notin Doing("run")
  BY <1>1, <1>3 DEF Doing
<1>4. ASSUME t.op # "run", tx[p].op = "run"
      PROVE  Doing("run")' = Doing("run") \ {p} /\ p \in Doing("run")
  BY <1>1, <1>4 DEF Doing
<1>5. IsFiniteSet(Doing("run"))
  BY FlyingFinite
<1>6. p \notin Doing("run") => Cardinality(Doing("run") \union {p}) = Cardinality(Doing("run")) + 1
  BY <1>5, FS_AddElement
<1>7. p \in Doing("run") => Cardinality(Doing("run") \ {p}) = Cardinality(Doing("run")) - 1
  BY <1>5, FS_RemoveElement
<1> QED
  BY <1>2, <1>3, <1>4, <1>6, <1>7 DEF InFlight

\* Everything stops: no run is in flight, or those that were.
LEMMA RunsStop ==
  ASSUME TxShape, Stops
  PROVE  \/ Doing("run")' = Doing("run") /\ InFlight("run")' = InFlight("run")
         \/ Doing("run")' = {} /\ InFlight("run")' = 0
<1>1. CASE tx' = tx
  BY <1>1 DEF Doing, InFlight
<1>2. CASE tx' = [p \in Procs |-> Idle]
  <2>1. Doing("run")' = {}
    BY <1>2 DEF Doing, Idle
  <2> QED
    BY <2>1, FS_EmptySet DEF InFlight
<1> QED
  BY <1>1, <1>2 DEF Stops

\* A run that ends gives back its place and has a version to write.
LEMMA RunEnds ==
  ASSUME TypeInv, NEW p \in Procs, tx[p].op = "run", tx' = [tx EXCEPT ![p] = Idle],
         runs' \in {runs, runs + 1}
  PROVE  Room' /\ runs + 1 \in Versions
<1>0. Idle.op # "run" /\ TxShape
  BY HasShape DEF Idle
<1>1. InFlight("run")' = InFlight("run") - 1
  BY <1>0, RunsMove
<1>2. /\ InFlight("run") \in Nat /\ InFlight("run")' \in Nat /\ runs \in Nat /\ MaxRuns \in Nat
      /\ runs + InFlight("run") <= MaxRuns
  BY FlyingFinite, BoundsAssumption DEF TypeInv, TypeOK, Room
<1>3. runs' + InFlight("run")' <= MaxRuns /\ runs + 1 \in 1..MaxRuns
  BY ONLY <1>1, <1>2, runs' \in {runs, runs + 1}
<1> QED
  BY <1>3 DEF Room, Versions

\* No run finds its bound used up when it ends.
LEMMA RoomStep == TypeInv /\ [Next]_vars => Room'
<1> SUFFICES ASSUME TypeInv, [Next]_vars PROVE Room'
  OBVIOUS
<1>0. TxShape /\ Room /\ runs \in Nat /\ MaxRuns \in Nat /\ InFlight("run") \in Nat
      /\ InFlight("run")' \in Nat
  BY HasShape, FlyingFinite, BoundsAssumption DEF TypeInv, TypeOK
<1>1. ASSUME InFlight("run")' <= InFlight("run"), runs' = runs PROVE Room'
  <2>1. runs + InFlight("run")' <= MaxRuns
    BY ONLY <1>0, <1>1 DEF Room
  <2> QED
    BY <1>1, <2>1 DEF Room
<1>2. ASSUME NEW p \in Procs, NEW t, tx' = [tx EXCEPT ![p] = t], t.op # "run", runs' = runs
      PROVE  Room'
  <2>1. InFlight("run")' \in {InFlight("run"), InFlight("run") - 1}
    BY <1>0, <1>2, RunsMove
  <2>2. InFlight("run")' <= InFlight("run")
    BY ONLY <1>0, <2>1
  <2> QED
    BY <1>1, <1>2, <2>2
<1>c. \A c \in Clients : c \in Procs
  BY DEF Procs
<1>u. TaskStays => runs' = runs
  BY DEF TaskStays, work
<1>3. ASSUME NEW p \in Procs, NEW outcome \in DOMAIN Kept, RunCommit(p, outcome)
      PROVE  Room'
  <2>1. tx[p].op = "run" /\ tx' = [tx EXCEPT ![p] = Idle] /\ runs' \in {runs, runs + 1}
    BY <1>3 DEF RunCommit
  <2> QED
    BY <2>1, RunEnds
<1>4. ASSUME NEW p \in Procs, BeginsRun(p) PROVE Room'
  <2> PICK t : t = [op |-> "run", stamp |-> begun]
    OBVIOUS
  <2>1. t.op = "run" /\ tx' = [tx EXCEPT ![p] = t] /\ tx[p].op # "run" /\ runs' = runs
    BY <1>4, <1>u DEF BeginsRun, MayRun, BeginRun, Idle
  <2>2. InFlight("run")' = InFlight("run") + 1
    BY <1>0, <2>1, RunsMove
  <2>3. runs + InFlight("run") < MaxRuns
    BY <1>4 DEF BeginsRun, MayRun
  <2>4. runs + InFlight("run")' <= MaxRuns
    BY ONLY <1>0, <2>2, <2>3
  <2> QED
    BY <2>1, <2>4 DEF Room
<1>5. ASSUME NEW p \in Procs, BeginsPipeline(p) \/ PipelineCommit(p) \/ Leaves(p)
      PROVE  Room'
  <2>1. runs' = runs
    BY <1>5, <1>u DEF BeginsPipeline, PipelineCommit, Leaves, work
  <2>2. \E t : tx' = [tx EXCEPT ![p] = t] /\ t.op # "run"
    BY <1>5 DEF BeginsPipeline, BeginPipeline, PipelineCommit, Leaves, Passive, Idle
  <2> QED
    BY <1>2, <2>1, <2>2
<1>6. CASE Stops
  <2>1. InFlight("run")' = InFlight("run") \/ InFlight("run")' = 0
    BY <1>0, <1>6, RunsStop
  <2>2. InFlight("run")' <= InFlight("run")
    BY ONLY <1>0, <2>1
  <2> QED
    BY <1>1, <1>6, <1>u, <2>2 DEF Stops
<1>7. ASSUME NEW c \in Clients, EvaluateRead(c) \/ EvaluateCommit(c) PROVE Room'
  <2>1. runs' = runs
    BY <1>7 DEF EvaluateRead, EvaluateCommit, work
  <2>2. \E t : tx' = [tx EXCEPT ![c] = t] /\ t.op # "run"
    BY <1>7 DEF EvaluateRead, EvaluateCommit, Idle
  <2> QED
    BY <1>2, <1>c, <2>1, <2>2
<1>8. ASSUME NEW c \in Clients, NEW verdict \in Verdicts, NEW override \in BOOLEAN,
             DecideRead(c, verdict, override)
      PROVE  Room'
  <2>1. runs' = runs
    BY <1>8 DEF DecideRead, work
  <2>2. \E t : tx' = [tx EXCEPT ![c] = t] /\ t.op # "run"
    <3>1. PICK v, s :
            tx' = [tx EXCEPT ![c] =
                    [op |-> "decide", verdict |-> verdict, status |-> status, code |-> code,
                     pr |-> v, prStatus |-> s, first |-> jobs["pipeline"] = "none"]]
      BY <1>8 DEF DecideRead
    <3> PICK t : t = [op |-> "decide", verdict |-> verdict, status |-> status, code |-> code,
                      pr |-> v, prStatus |-> s, first |-> jobs["pipeline"] = "none"]
      OBVIOUS
    <3>2. t.op # "run" /\ tx' = [tx EXCEPT ![c] = t]
      BY <3>1
    <3> QED
      BY <3>2
  <2> QED
    BY <1>2, <1>c, <2>1, <2>2
<1>9. ASSUME NEW c \in Clients, DecideCommit(c) PROVE Room'
  <2>1. runs' = runs /\ tx' = [tx EXCEPT ![c] = Idle] /\ Idle.op # "run"
    BY <1>9 DEF DecideCommit, Idle
  <2> QED
    BY <1>2, <1>c, <2>1
<1> QED
  BY <1>3, <1>4, <1>5, <1>6, <1>7, <1>8, <1>9, StepCases DEF StepKinds

LEMMA TypeInit == Init => TypeInv
<1> SUFFICES ASSUME Init PROVE TypeInv
  OBVIOUS
<1>1. TypeOK
  <2>1. tx \in [Procs -> Transactions]
    BY DEF Init, Transactions
  <2>2. {runs, begun, decisions, controls, crashes, reworks, overlaps} \subseteq Nat
    BY DEF Init
  <2>3. pipelines \in Seq(Pipelines)
    BY DEF Init
  <2>4. /\ {approved, unasked, overtaken} \subseteq SUBSET (Versions \union {NoVersion})
        /\ {mixed, owed} \subseteq BOOLEAN
    BY DEF Init
  <2> QED
    BY <2>1, <2>2, <2>3, <2>4 DEF Init, TypeOK, Statuses, JobStatuses
<1>2. Doing("run") = {}
  BY DEF Init, Doing, Idle
<1>3. InFlight("run") = 0
  BY <1>2, FS_EmptySet DEF InFlight
<1>4. runs = 0 /\ MaxRuns \in Nat
  BY BoundsAssumption DEF Init
<1> QED
  BY <1>1, <1>3, <1>4 DEF TypeInv, Room

LEMMA GateType ==
  ASSUME NEW g \in [Versions -> Grades \union {"none"}], NEW t, NEW stamp \in Nat
  PROVE  Gate(g, Changed(g), t, stamp) \in Gates
<1>1. Changed(g) \in SUBSET Versions
  BY DEF Changed
<1>2. (\E v \in Changed(g) : g[v] = "critical") \in BOOLEAN
  OBVIOUS
<1>3. (/\ t # NoVersion /\ ("tests" \in EnabledRules => g[t] # "failing")
       /\ "critical" \in EnabledRules => \A v \in Changed(g) : g[v] # "critical") \in BOOLEAN
  OBVIOUS
<1> QED
  BY <1>1, <1>2, <1>3 DEF Gate, Gates

\* A step of one transaction that leaves the rows of the task alone.
LEMMA TxTyped ==
  ASSUME TypeOK, NEW p \in Procs, NEW t \in Transactions, tx' = [tx EXCEPT ![p] = t],
         TaskStays,
         jobs' \in [Kinds -> JobStatuses],
         attempts' \in [Kinds -> Nat],
         {begun', decisions', controls', crashes', overlaps'} \subseteq Nat,
         {mixed', owed'} \subseteq BOOLEAN
  PROVE  TypeOK'
<1>1. tx' \in [Procs -> Transactions]
  BY DEF TypeOK
<1>2. {runs', begun', decisions', controls', crashes', reworks', overlaps'} \subseteq Nat
  BY DEF TypeOK, TaskStays, work
<1>3. {approved', unasked', overtaken'} \subseteq SUBSET (Versions \union {NoVersion})
  BY DEF TypeOK, TaskStays, decided
<1> QED
  BY <1>1, <1>2, <1>3 DEF TypeOK, TaskStays, row, work

\* The counters and marks stay what they are.
LEMMA CountsTyped ==
  ASSUME TypeOK
  PROVE  /\ {runs, begun, decisions, controls, crashes, reworks, overlaps} \subseteq Nat
         /\ {mixed, owed} \subseteq BOOLEAN
         /\ {decisions + 1, controls + 1, crashes + 1, begun + 1, overlaps + 1} \subseteq Nat
         /\ \A b : (mixed \/ b) \in BOOLEAN
         /\ jobs \in [Kinds -> JobStatuses] /\ attempts \in [Kinds -> Nat]
<1>1. {runs, begun, decisions, controls, crashes, reworks, overlaps} \subseteq Nat
  BY DEF TypeOK
<1>2. {decisions + 1, controls + 1, crashes + 1, begun + 1, overlaps + 1} \subseteq Nat
  BY ONLY <1>1
<1> QED
  BY <1>1, <1>2 DEF TypeOK

LEMMA BeginTypes ==
  ASSUME TypeOK
  PROVE  /\ [op |-> "run", stamp |-> begun] \in Transactions
         /\ [op |-> "pipeline", code |-> code, count |-> Len(pipelines)] \in Transactions
         /\ Idle \in Transactions
<1>1. begun \in Nat /\ code \in Versions \union {NoVersion} /\ Len(pipelines) \in Nat
  BY DEF TypeOK
<1> QED
  BY <1>1 DEF Transactions

LEMMA RunCommitTypes ==
  ASSUME TypeInv, NEW p \in Procs, NEW outcome \in DOMAIN Kept, RunCommit(p, outcome)
  PROVE  TypeOK'
<1> DEFINE v == runs + 1
           kept == Kept[outcome]
<1>1. /\ tx[p].op = "run" /\ tx' = [tx EXCEPT ![p] = Idle] /\ runs' \in {runs, runs + 1}
      /\ UNCHANGED <<attempts, pipelines, begun, counts, decided, raced, owed>>
  BY DEF RunCommit
<1>2. v \in Versions
  BY <1>1, RunEnds
<1>3. tx' \in [Procs -> Transactions] /\ runs \in Nat /\ runs' \in Nat /\ reworks \in Nat
      /\ attempts' \in [Kinds -> Nat]
      /\ {begun', decisions', controls', crashes', overlaps'} \subseteq Nat
      /\ {approved', unasked', overtaken'} \subseteq SUBSET (Versions \union {NoVersion})
      /\ {mixed', owed'} \subseteq BOOLEAN
  BY <1>1, BeginTypes DEF TypeInv, TypeOK, counts, decided, raced
<1>4. status' \in Statuses /\ code' \in Versions \union {NoVersion} /\ reworks' \in Nat
  BY <1>2, <1>3 DEF RunCommit, End, Statuses, TypeInv, TypeOK
<1>5. grade' \in [Versions -> Grades \union {"none"}] /\ tested' \subseteq Versions
  BY <1>2, GradesAssumption DEF RunCommit, TypeInv, TypeOK
<1>6. gates' \in SUBSET Gates
  <2>0. tx[p] \in Transactions
    BY DEF TypeInv, TypeOK
  <2>1. tx[p].stamp \in Nat
    BY <1>1, <2>0 DEF Transactions, Idle
  <2>2. \A t : Gate(grade', Changed(grade'), t, tx[p].stamp) \in Gates
    BY <1>5, <2>1, GateType
  <2>3. gates' = gates \/ \E t : gates' = Replaced(gates, Gate(grade', Changed(grade'), t, tx[p].stamp))
    BY DEF RunCommit
  <2> QED
    BY <2>2, <2>3 DEF Replaced, TypeInv, TypeOK
<1>7. prs' \in [Versions -> PRStatuses \union {"none"}]
  BY <1>2 DEF RunCommit, TypeInv, TypeOK, PRStatuses
<1>8. jobs' \in [Kinds -> JobStatuses]
  BY DEF RunCommit, Finished, TypeInv, TypeOK, JobStatuses
<1>9. pipelines' \in Seq(Pipelines)
  BY <1>1 DEF TypeInv, TypeOK
<1>10. {runs', begun', decisions', controls', crashes', reworks', overlaps'} \subseteq Nat
  BY <1>3, <1>4
<1> QED
  BY <1>3, <1>4, <1>5, <1>6, <1>7, <1>8, <1>9, <1>10 DEF TypeOK

LEMMA EvaluateTypes ==
  ASSUME TypeOK, NEW c \in Clients, EvaluateRead(c) \/ EvaluateCommit(c)
  PROVE  TypeOK'
<1>1. c \in Procs /\ begun \in Nat /\ gates \in SUBSET Gates
  BY DEF Procs, TypeOK
<1>2. CASE EvaluateRead(c)
  <2>1. PICK t : tx' = [tx EXCEPT ![c] = [op |-> "evaluate", priors |-> gates,
                                          gate |-> Gate(grade, Changed(grade), t, begun)]]
    BY <1>2 DEF EvaluateRead
  <2>2. PICK u : u = [op |-> "evaluate", priors |-> gates,
                      gate |-> Gate(grade, Changed(grade), t, begun)]
    OBVIOUS
  <2>3. Gate(grade, Changed(grade), t, begun) \in Gates
    BY <1>1, GateType DEF TypeOK
  <2>4. u \in Transactions
    BY <1>1, <2>2, <2>3 DEF Transactions
  <2>5. tx' = [tx EXCEPT ![c] = u]
    BY <2>1, <2>2
  <2>6. /\ TaskStays
        /\ jobs' \in [Kinds -> JobStatuses] /\ attempts' \in [Kinds -> Nat]
        /\ {begun', decisions', controls', crashes', overlaps'} \subseteq Nat
        /\ {mixed', owed'} \subseteq BOOLEAN
    BY <1>2, CountsTyped DEF EvaluateRead, TaskStays, counts
  <2> QED
    BY ONLY TypeOK, <1>1, <2>4, <2>5, <2>6, TxTyped
<1>3. CASE EvaluateCommit(c)
  <2>1. tx[c] \in [op : {"evaluate"}, priors : SUBSET Gates, gate : Gates]
    BY <1>1, <1>3 DEF EvaluateCommit, TypeOK, Transactions, Idle
  <2>2. gates' \in SUBSET Gates
    BY <1>1, <1>3, <2>1 DEF EvaluateCommit, Replaced
  <2>3. tx' \in [Procs -> Transactions]
    BY <1>1, <1>3, BeginTypes DEF EvaluateCommit, TypeOK
  <2> QED
    BY <1>3, <2>2, <2>3 DEF EvaluateCommit, TypeOK, row, work, counts, decided, raced
<1> QED
  BY <1>2, <1>3

LEMMA DecideTypes ==
  ASSUME TypeOK, NEW c \in Clients,
         \/ \E verdict \in Verdicts, override \in BOOLEAN : DecideRead(c, verdict, override)
         \/ DecideCommit(c) \/ DecideConflict(c)
  PROVE  TypeOK'
<1>1. c \in Procs /\ {begun, decisions, controls, crashes, reworks, overlaps} \subseteq Nat
  BY DEF Procs, TypeOK
<1>2. ASSUME NEW verdict \in Verdicts, NEW override \in BOOLEAN, DecideRead(c, verdict, override)
      PROVE  TypeOK'
  <2>1. PICK v \in Picked :
          tx' = [tx EXCEPT ![c] =
                  [op |-> "decide", verdict |-> verdict, status |-> status, code |-> code,
                   pr |-> v, prStatus |-> IF v = NoVersion THEN "none" ELSE prs[v],
                   first |-> jobs["pipeline"] = "none"]]
    BY <1>2 DEF DecideRead
  <2>2. PICK s : s = IF v = NoVersion THEN "none" ELSE prs[v]
    OBVIOUS
  <2>3. PICK u : u = [op |-> "decide", verdict |-> verdict, status |-> status, code |-> code,
                      pr |-> v, prStatus |-> s, first |-> jobs["pipeline"] = "none"]
    OBVIOUS
  <2>4. v \in Versions \union {NoVersion} /\ s \in PRStatuses \union {"none"}
    BY <2>2 DEF Picked, PullRequests, TypeOK
  <2>5. u \in Transactions
    <3>1. status \in Statuses /\ code \in Versions \union {NoVersion}
          /\ (jobs["pipeline"] = "none") \in BOOLEAN
      BY DEF TypeOK
    <3> QED
      BY <2>3, <2>4, <3>1 DEF Transactions
  <2>6. tx' = [tx EXCEPT ![c] = u]
    BY <2>1, <2>2, <2>3
  <2>7. /\ TaskStays
        /\ jobs' \in [Kinds -> JobStatuses] /\ attempts' \in [Kinds -> Nat]
        /\ {begun', decisions', controls', crashes', overlaps'} \subseteq Nat
        /\ {mixed', owed'} \subseteq BOOLEAN
    BY <1>2, CountsTyped DEF DecideRead, TaskStays, raced
  <2> QED
    BY ONLY TypeOK, <1>1, <2>5, <2>6, <2>7, TxTyped
<1>3. CASE DecideCommit(c)
  <2>1. tx[c] \in [op : {"decide"}, verdict : Verdicts, status : Statuses,
                   code : Versions \union {NoVersion}, pr : Versions \union {NoVersion},
                   prStatus : PRStatuses \union {"none"}, first : BOOLEAN]
    BY <1>1, <1>3 DEF DecideCommit, TypeOK, Transactions, Idle
  <2>2. status' \in Statuses
    BY <1>3, <2>1 DEF DecideCommit, Written, TypeOK, Statuses, Verdicts
  <2>3. prs' \in [Versions -> PRStatuses \union {"none"}]
    BY <1>3, <2>1 DEF DecideCommit, Written, TypeOK, PRStatuses
  <2>4. jobs' \in [Kinds -> JobStatuses]
    BY <1>3 DEF DecideCommit, TypeOK, JobStatuses
  <2>5. {approved', unasked', overtaken'} \subseteq SUBSET (Versions \union {NoVersion})
    <3>1. /\ code \in Versions \union {NoVersion} /\ tx[c].code \in Versions \union {NoVersion}
          /\ {approved, unasked, overtaken} \subseteq SUBSET (Versions \union {NoVersion})
      BY <2>1 DEF TypeOK
    <3>2. \E yes \in SUBSET {tx[c].code} :
            /\ approved' \in {approved, approved \union yes}
            /\ unasked' \in {unasked, unasked \union yes}
            /\ overtaken' \in {overtaken, overtaken \union {code}}
      BY <1>3 DEF DecideCommit
    <3> QED
      BY ONLY <3>1, <3>2
  <2>6. {mixed', owed'} \subseteq BOOLEAN /\ reworks' \in Nat
    BY <1>1, <1>3 DEF DecideCommit, TypeOK, raced
  <2>7. tx' \in [Procs -> Transactions]
    BY <1>1, <1>3, BeginTypes DEF DecideCommit, TypeOK
  <2>8. /\ UNCHANGED <<code, grade, tested, runs, gates, attempts, pipelines>>
        /\ {runs', begun', decisions', controls', crashes', reworks', overlaps'} \subseteq Nat
    BY <1>1, <1>3, <2>6 DEF DecideCommit, TypeOK, counts, raced
  <2> QED
    BY <2>2, <2>3, <2>4, <2>5, <2>6, <2>7, <2>8 DEF TypeOK
<1>4. CASE DecideConflict(c)
  <2>1. Idle \in Transactions /\ tx' = [tx EXCEPT ![c] = Idle]
    BY <1>4, BeginTypes DEF DecideConflict
  <2>2. /\ TaskStays
        /\ jobs' \in [Kinds -> JobStatuses] /\ attempts' \in [Kinds -> Nat]
        /\ {begun', decisions', controls', crashes', overlaps'} \subseteq Nat
        /\ {mixed', owed'} \subseteq BOOLEAN
    BY <1>4, CountsTyped DEF DecideConflict, TaskStays, counts, raced
  <2> QED
    BY ONLY TypeOK, <1>1, <2>1, <2>2, TxTyped
<1> QED
  BY <1>2, <1>3, <1>4

LEMMA PipelineTypes ==
  ASSUME TypeOK, NEW p \in Procs, PipelineCommit(p)
  PROVE  TypeOK'
<1>1. /\ tx' = [tx EXCEPT ![p] = Idle] /\ tx[p].op = "pipeline"
      /\ UNCHANGED <<row, work, gates, attempts, begun, counts, decided, reworks, raced>>
      /\ owed' = FALSE
  BY DEF PipelineCommit
<1>2. tx' \in [Procs -> Transactions]
  BY <1>1, BeginTypes DEF TypeOK
<1>3. jobs' \in [Kinds -> JobStatuses]
  BY DEF PipelineCommit, Finished, TypeOK, JobStatuses
<1>4. pipelines' \in Seq(Pipelines)
  <2>1. tx[p].code \in Versions \union {NoVersion}
    BY <1>1 DEF TypeOK, Transactions, Idle
  <2>2. PICK r \in Results(tx[p].code) :
          pipelines' = Append(pipelines, [code |-> tx[p].code, status |-> r])
    BY DEF PipelineCommit
  <2>3. r \in {"failed", "awaiting_production"}
    BY DEF Results
  <2>4. [code |-> tx[p].code, status |-> r] \in Pipelines
    BY <2>1, <2>3 DEF Pipelines
  <2> QED
    BY <2>2, <2>4 DEF TypeOK
<1> QED
  BY <1>1, <1>2, <1>3, <1>4 DEF TypeOK, row, work, counts, decided, raced

\* The steps that begin or end a transaction and write at most a job.
LEMMA JobTypes ==
  ASSUME TypeOK, NEW p \in Procs, NEW t \in Transactions, tx' = [tx EXCEPT ![p] = t],
         TaskStays, jobs' \in [Kinds -> JobStatuses], attempts' \in [Kinds -> Nat],
         UNCHANGED <<begun, decisions, crashes, raced, owed>>,
         controls' \in {controls, controls + 1}
  PROVE  TypeOK'
<1>1. /\ {begun', decisions', controls', crashes', overlaps'} \subseteq Nat
      /\ {mixed', owed'} \subseteq BOOLEAN
  BY CountsTyped DEF raced
<1> QED
  BY ONLY TypeOK, p \in Procs, t \in Transactions, tx' = [tx EXCEPT ![p] = t], TaskStays,
     jobs' \in [Kinds -> JobStatuses], attempts' \in [Kinds -> Nat], <1>1, TxTyped

LEMMA BeginRunTypes ==
  ASSUME TypeOK, NEW p \in Procs, BeginsRun(p), jobs' \in [Kinds -> JobStatuses],
         attempts' \in [Kinds -> Nat], UNCHANGED <<counts, owed>>
  PROVE  TypeOK'
<1> PICK t : t = [op |-> "run", stamp |-> begun]
  OBVIOUS
<1>1. t \in Transactions /\ tx' = [tx EXCEPT ![p] = t] /\ TaskStays
  BY BeginTypes DEF BeginsRun, BeginRun
<1>2. /\ {begun', decisions', controls', crashes', overlaps'} \subseteq Nat
      /\ {mixed', owed'} \subseteq BOOLEAN
  BY CountsTyped DEF BeginsRun, BeginRun, counts
<1> QED
  BY ONLY TypeOK, p \in Procs, <1>1, <1>2, jobs' \in [Kinds -> JobStatuses],
     attempts' \in [Kinds -> Nat], TxTyped

LEMMA BeginPipelineTypes ==
  ASSUME TypeOK, NEW p \in Procs, BeginsPipeline(p), jobs' \in [Kinds -> JobStatuses],
         attempts' \in [Kinds -> Nat], UNCHANGED <<counts, owed>>
  PROVE  TypeOK'
<1> PICK t : t = [op |-> "pipeline", code |-> code, count |-> Len(pipelines)]
  OBVIOUS
<1>1. t \in Transactions /\ tx' = [tx EXCEPT ![p] = t]
  BY BeginTypes DEF BeginsPipeline, BeginPipeline
<1>2. TaskStays /\ UNCHANGED <<begun, decisions, crashes, raced, owed>> /\ controls' = controls
  BY DEF BeginsPipeline, counts
<1> QED
  BY <1>1, <1>2, JobTypes

LEMMA ClaimTypes ==
  ASSUME TypeOK, NEW kind \in Kinds, Claim(kind)
  PROVE  jobs' \in [Kinds -> JobStatuses] /\ attempts' \in [Kinds -> Nat]
BY DEF Claim, TypeOK, JobStatuses

LEMMA WorkerTypes ==
  ASSUME TypeInv, WorkerStep
  PROVE  TypeOK'
<1>t. TypeOK /\ Worker \in Procs /\ {"development", "pipeline"} \subseteq Kinds
  BY DEF TypeInv, Procs, Kinds
<1>1. CASE ClaimRun
  <2>1. Claim("development") /\ BeginsRun(Worker) /\ UNCHANGED <<counts, owed>>
    BY <1>1 DEF ClaimRun, BeginsRun, TaskStays
  <2> QED
    BY <1>t, <2>1, ClaimTypes, BeginRunTypes
<1>2. CASE ClaimPipeline
  <2>1. Claim("pipeline") /\ BeginsPipeline(Worker) /\ UNCHANGED <<counts, owed>>
    BY <1>2 DEF ClaimPipeline, Claim, BeginsPipeline, TaskStays
  <2> QED
    BY <1>t, <2>1, ClaimTypes, BeginPipelineTypes
<1>3. ASSUME NEW kind \in Kinds, ClaimRefused(kind) PROVE TypeOK'
  <2> PICK t : t = [op |-> "raised", kind |-> kind]
    OBVIOUS
  <2>1. t \in Transactions /\ tx' = [tx EXCEPT ![Worker] = t]
    BY <1>3 DEF ClaimRefused, Transactions
  <2>2. TaskStays /\ UNCHANGED <<begun, decisions, crashes, raced, owed>> /\ controls' = controls
    BY <1>3 DEF ClaimRefused, TaskStays, counts
  <2>3. Claim(kind)
    BY <1>3 DEF ClaimRefused
  <2> QED
    BY <1>t, <2>1, <2>2, <2>3, ClaimTypes, JobTypes
<1>4. CASE PipelineConflict(Worker)
  <2> PICK t : t = [op |-> "raised", kind |-> "pipeline"]
    OBVIOUS
  <2>1. t \in Transactions /\ tx' = [tx EXCEPT ![Worker] = t]
    BY <1>4, <1>t DEF PipelineConflict, Transactions
  <2>2. TaskStays /\ UNCHANGED <<jobs, attempts, begun, decisions, crashes, raced, owed>>
        /\ controls' = controls
    BY <1>4 DEF PipelineConflict, TaskStays, counts
  <2> QED
    BY <1>t, <2>1, <2>2, CountsTyped, JobTypes
<1>5. CASE LoadFailed
  <2> DEFINE k == tx[Worker].kind
  <2> PICK t : t = [op |-> "failing", kind |-> k, seen |-> jobs[k],
                    again |-> attempts[k] < MaxAttempts]
    OBVIOUS
  <2>1. k \in Kinds
    BY <1>5, <1>t DEF LoadFailed, TypeOK, Transactions, Idle
  <2>2. t \in Transactions /\ tx' = [tx EXCEPT ![Worker] = t]
    BY <1>5, <1>t, <2>1 DEF LoadFailed, Transactions, TypeOK
  <2>3. TaskStays /\ UNCHANGED <<jobs, attempts, begun, decisions, crashes, raced, owed>>
        /\ controls' = controls
    BY <1>5 DEF LoadFailed, TaskStays, counts
  <2> QED
    BY <1>t, <2>2, <2>3, CountsTyped, JobTypes
<1>6. CASE Fail
  <2>1. Idle \in Transactions /\ tx' = [tx EXCEPT ![Worker] = Idle]
    BY <1>6, <1>t, BeginTypes DEF Fail
  <2>2. TaskStays /\ UNCHANGED <<attempts, begun, decisions, crashes, raced, owed>>
        /\ controls' = controls
    BY <1>6 DEF Fail, TaskStays, counts
  <2>3. jobs' \in [Kinds -> JobStatuses]
    BY <1>6, <1>t DEF Fail, Written, TypeOK, JobStatuses
  <2> QED
    BY <1>t, <2>1, <2>2, <2>3, CountsTyped, JobTypes
<1> QED
  BY <1>t, <1>1, <1>2, <1>3, <1>4, <1>5, <1>6, RunCommitTypes, PipelineTypes DEF WorkerStep

LEMMA ClientTypes ==
  ASSUME TypeInv, NEW c \in Clients, ClientStep(c)
  PROVE  TypeOK'
<1>t. TypeOK /\ c \in Procs /\ c # Worker
  BY ProcsAssumption DEF TypeInv, Procs
<1>1. CASE RequestRun(c)
  <2>1. BeginsRun(c) /\ UNCHANGED <<jobs, attempts, counts, owed>>
    BY <1>1 DEF RequestRun, BeginsRun, TaskStays
  <2> QED
    BY <1>t, <2>1, CountsTyped, BeginRunTypes
<1>2. CASE RequestPipeline(c)
  <2>1. BeginsPipeline(c) /\ UNCHANGED <<jobs, attempts, counts, owed>>
    BY <1>2 DEF RequestPipeline, BeginsPipeline, TaskStays
  <2> QED
    BY <1>t, <2>1, CountsTyped, BeginPipelineTypes
<1>3. CASE PipelineConflict(c)
  <2>1. Idle \in Transactions /\ tx' = [tx EXCEPT ![c] = Idle]
    BY <1>3, <1>t, BeginTypes DEF PipelineConflict
  <2>2. TaskStays /\ UNCHANGED <<jobs, attempts, begun, decisions, crashes, raced, owed>>
        /\ controls' = controls
    BY <1>3 DEF PipelineConflict, TaskStays, counts
  <2> QED
    BY <1>t, <2>1, <2>2, CountsTyped, JobTypes
<1>4. ASSUME NEW control \in Controls, NEW kind \in Kinds, ControlLoad(c, control, kind)
      PROVE  TypeOK'
  <2> PICK t : t = [op |-> "control", control |-> control, kind |-> kind]
    OBVIOUS
  <2>1. t \in Transactions /\ tx' = [tx EXCEPT ![c] = t]
    BY <1>4 DEF ControlLoad, Transactions
  <2>2. TaskStays /\ UNCHANGED <<jobs, attempts, begun, decisions, crashes, raced, owed>>
        /\ controls' = controls + 1
    BY <1>4 DEF ControlLoad, TaskStays
  <2> QED
    BY <1>t, <2>1, <2>2, CountsTyped, JobTypes
<1>5. CASE ControlApply(c)
  <2>1. Idle \in Transactions /\ tx' = [tx EXCEPT ![c] = Idle]
    BY <1>5, <1>t, BeginTypes DEF ControlApply
  <2>2. TaskStays /\ UNCHANGED <<attempts, begun, decisions, crashes, raced, owed>>
        /\ controls' = controls
    BY <1>5 DEF ControlApply, TaskStays, counts
  <2>3. tx[c].control \in Controls
    BY <1>5, <1>t DEF ControlApply, TypeOK, Transactions, Idle
  <2>4. jobs' \in [Kinds -> JobStatuses]
    <3>1. Writes[tx[c].control] \in JobStatuses
      BY <2>3 DEF Writes, Controls, JobStatuses
    <3> QED
      BY <1>5, <1>t, <3>1 DEF ControlApply, TypeOK
  <2> QED
    BY <1>t, <2>1, <2>2, <2>4, CountsTyped, JobTypes
<1> QED
  BY <1>t, <1>1, <1>2, <1>3, <1>4, <1>5, RunCommitTypes, EvaluateTypes, DecideTypes,
     PipelineTypes DEF ClientStep

LEMMA TypeStep == TypeInv /\ [Next]_vars => TypeInv'
<1> SUFFICES ASSUME TypeInv, [Next]_vars PROVE TypeOK'
  BY RoomStep DEF TypeInv
<1>t. TypeOK
  BY DEF TypeInv
<1>1. CASE RequestRunAsync
  <2>1. jobs' \in [Kinds -> JobStatuses]
    BY <1>1, <1>t DEF RequestRunAsync, TypeOK, JobStatuses
  <2> QED
    BY <1>1, <1>t, <2>1
       DEF RequestRunAsync, TypeOK, row, work, counts, decided, raced
<1>2. CASE Crash
  <2>1. tx' \in [Procs -> Transactions]
    BY <1>2, <1>t, BeginTypes DEF Crash
  <2>2. jobs' \in [Kinds -> JobStatuses]
    BY <1>2, <1>t DEF Crash, TypeOK, JobStatuses
  <2>3. {begun, decisions, controls, crashes'} \subseteq Nat
    BY <1>2, <1>t, CountsTyped DEF Crash
  <2>4. UNCHANGED <<row, work, gates, attempts, pipelines, begun, decisions, controls,
                    decided, reworks, raced, owed>>
    BY <1>2 DEF Crash
  <2> QED
    BY <1>t, <2>1, <2>2, <2>3, <2>4 DEF TypeOK, row, work, decided, raced
<1>3. CASE UNCHANGED vars
  BY <1>t, <1>3 DEF vars, row, work, counts, decided, raced, TypeOK
<1> QED
  BY <1>1, <1>2, <1>3, WorkerTypes, ClientTypes DEF Next

\* A run of the workflow always has a version of its own to write, and every
\* row and transaction has its type, for any clients, runners and bounds.
THEOREM TypeCorrect == Spec => []TypeOK
<1>1. TypeInv => TypeOK
  BY DEF TypeInv
<1>2. QED
  BY <1>1, TypeInit, TypeStep, PTL DEF Spec

-----------------------------------------------------------------------------
(* What ships was approved *)

Approvals == approved \union unasked \union overtaken

ShipInv ==
  /\ status = "approved" => code \in Approvals
  /\ ShipsWhatWasApproved
  /\ \A p \in Procs : tx[p].op = "pipeline" => tx[p].code \in Approvals

LEMMA ShipInit == Init => ShipInv
BY DEF Init, ShipInv, ShipsWhatWasApproved, Statuses, Idle

\* One transaction moves: the others build what they have loaded.
LEMMA ShipKept ==
  ASSUME TypeInv, ShipInv, Approvals \subseteq Approvals', pipelines' = pipelines,
         NEW p \in Procs, NEW t, tx' = [tx EXCEPT ![p] = t],
         t.op = "pipeline" => t.code \in Approvals',
         status' = "approved" => code' \in Approvals'
  PROVE  ShipInv'
<1>1. tx'[p] = t /\ \A q \in Procs \ {p} : tx'[q] = tx[q]
  BY OneMoves, HasShape
<1>2. ShipsWhatWasApproved'
  BY DEF ShipInv, ShipsWhatWasApproved, Approvals
<1>3. \A q \in Procs : tx'[q].op = "pipeline" => tx'[q].code \in Approvals'
  BY <1>1 DEF ShipInv
<1> QED
  BY <1>2, <1>3 DEF ShipInv

LEMMA ShipStep == TypeInv /\ ShipInv /\ [Next]_vars => ShipInv'
<1> SUFFICES ASSUME TypeInv, ShipInv, [Next]_vars PROVE ShipInv'
  OBVIOUS
<1>c. \A c \in Clients : c \in Procs
  BY DEF Procs
<1>i. Idle.op # "pipeline"
  BY DEF Idle
<1>r. status = "approved" => code \in Approvals
  BY DEF ShipInv
<1>u. TaskStays => Approvals' = Approvals /\ UNCHANGED <<status, code, pipelines>>
  BY DEF TaskStays, row, decided, Approvals
<1>1. ASSUME NEW p \in Procs, NEW outcome \in DOMAIN Kept, RunCommit(p, outcome)
      PROVE  ShipInv'
  <2>1. /\ tx' = [tx EXCEPT ![p] = Idle] /\ status' # "approved" /\ pipelines' = pipelines
        /\ Approvals' = Approvals
    BY <1>1 DEF RunCommit, End, decided, Approvals
  <2> QED
    BY <1>i, <2>1, ShipKept
<1>2. ASSUME NEW c \in Clients, EvaluateRead(c) \/ EvaluateCommit(c) PROVE ShipInv'
  <2>1. UNCHANGED <<status, code, pipelines>> /\ Approvals' = Approvals
    BY <1>2 DEF EvaluateRead, EvaluateCommit, row, decided, Approvals
  <2>2. \E t : tx' = [tx EXCEPT ![c] = t] /\ t.op # "pipeline"
    BY <1>2 DEF EvaluateRead, EvaluateCommit, Idle
  <2> QED
    BY <1>c, <1>r, <2>1, <2>2, ShipKept
<1>3. ASSUME NEW c \in Clients, NEW verdict \in Verdicts, NEW override \in BOOLEAN,
             DecideRead(c, verdict, override)
      PROVE  ShipInv'
  <2>1. UNCHANGED <<status, code, pipelines>> /\ Approvals' = Approvals
    BY <1>3 DEF DecideRead, row, decided, Approvals
  <2>2. PICK v, s :
          tx' = [tx EXCEPT ![c] =
                  [op |-> "decide", verdict |-> verdict, status |-> status, code |-> code,
                   pr |-> v, prStatus |-> s, first |-> jobs["pipeline"] = "none"]]
    BY <1>3 DEF DecideRead
  <2> PICK t : t = [op |-> "decide", verdict |-> verdict, status |-> status, code |-> code,
                    pr |-> v, prStatus |-> s, first |-> jobs["pipeline"] = "none"]
    OBVIOUS
  <2>3. t.op # "pipeline" /\ tx' = [tx EXCEPT ![c] = t]
    BY <2>2
  <2> QED
    BY <1>c, <1>r, <2>1, <2>3, ShipKept
<1>4. ASSUME NEW c \in Clients, DecideCommit(c) PROVE ShipInv'
  <2> PICK t : t = tx[c]
    OBVIOUS
  <2>1. /\ tx' = [tx EXCEPT ![c] = Idle] /\ UNCHANGED <<code, pipelines>>
        /\ status' = Written(t.status, t.verdict, status)
    BY <1>4 DEF DecideCommit
  <2>2. PICK yes : /\ yes = IF t.verdict = "approved" THEN {t.code} ELSE {}
                   /\ yes \subseteq approved' \union unasked'
                   /\ approved \subseteq approved' /\ unasked \subseteq unasked'
                   /\ overtaken \subseteq overtaken'
                   /\ code \notin overtaken' => yes \subseteq {code}
    BY <1>4 DEF DecideCommit
  <2>3. Approvals \subseteq Approvals'
    BY <2>2 DEF Approvals
  <2>4. ASSUME status' = "approved" PROVE code' \in Approvals'
    <3>1. CASE status = "approved"
      BY <1>r, <2>1, <2>3, <3>1
    <3>2. CASE t.verdict = "approved"
      BY <2>1, <2>2, <3>2 DEF Approvals
    <3> QED
      BY <2>1, <2>4, <3>1, <3>2 DEF Written
  <2> QED
    BY <1>c, <1>i, <2>1, <2>3, <2>4, ShipKept
<1>5. ASSUME NEW p \in Procs, PipelineCommit(p) PROVE ShipInv'
  <2>1. PICK r : pipelines' = Append(pipelines, [code |-> tx[p].code, status |-> r])
    BY <1>5 DEF PipelineCommit
  <2>2. /\ tx[p].op = "pipeline" /\ tx' = [tx EXCEPT ![p] = Idle]
        /\ UNCHANGED <<status, code>> /\ Approvals' = Approvals
    BY <1>5 DEF PipelineCommit, row, decided, Approvals
  <2>3. /\ DOMAIN pipelines' = DOMAIN pipelines \union {Len(pipelines) + 1}
        /\ pipelines'[Len(pipelines) + 1] = [code |-> tx[p].code, status |-> r]
        /\ \A i \in DOMAIN pipelines : pipelines'[i] = pipelines[i]
    <3>1. pipelines \in Seq(Pipelines)
      BY DEF TypeInv, TypeOK
    <3> QED
      BY ONLY <2>1, <3>1
  <2>4. tx[p].code \in Approvals
    BY <2>2 DEF ShipInv
  <2>5. \A i \in DOMAIN pipelines : pipelines[i].code \in Approvals
    BY DEF ShipInv, ShipsWhatWasApproved, Approvals
  <2>6. \A i \in DOMAIN pipelines' : pipelines'[i].code \in Approvals'
    BY <2>2, <2>3, <2>4, <2>5
  <2>7. ShipsWhatWasApproved'
    BY <2>6 DEF ShipsWhatWasApproved, Approvals
  <2>8. \A q \in Procs : tx'[q] = Idle \/ tx'[q] = tx[q]
    BY <2>2 DEF TypeInv, TypeOK
  <2> QED
    BY <1>i, <1>r, <2>2, <2>7, <2>8 DEF ShipInv
<1>6. ASSUME NEW p \in Procs, BeginsRun(p) \/ Leaves(p) PROVE ShipInv'
  <2>r. PICK u : u = [op |-> "run", stamp |-> begun]
    OBVIOUS
  <2>1. \E t : tx' = [tx EXCEPT ![p] = t] /\ t.op # "pipeline"
    <3>1. CASE BeginsRun(p)
      <4>1. u.op # "pipeline" /\ tx' = [tx EXCEPT ![p] = u]
        BY <2>r, <3>1 DEF BeginsRun, BeginRun
      <4> QED
        BY <4>1
    <3>2. CASE Leaves(p)
      BY <3>2 DEF Leaves, Passive
    <3> QED
      BY <1>6, <3>1, <3>2
  <2>2. TaskStays
    BY <1>6 DEF BeginsRun, Leaves
  <2> QED
    BY <1>r, <1>u, <2>1, <2>2, ShipKept
<1>7. ASSUME NEW p \in Procs, BeginsPipeline(p) PROVE ShipInv'
  <2> PICK t : t = [op |-> "pipeline", code |-> code, count |-> Len(pipelines)]
    OBVIOUS
  <2>1. /\ tx' = [tx EXCEPT ![p] = t] /\ t.code = code /\ code \in Approvals /\ TaskStays
    BY <1>7, <1>r DEF BeginsPipeline, BeginPipeline
  <2> QED
    BY <1>u, <2>1, ShipKept
<1>8. CASE Stops
  <2>1. \A p \in Procs : tx'[p] = tx[p] \/ tx'[p] = Idle
    BY <1>8, AllStop, HasShape
  <2>2. TaskStays
    BY <1>8 DEF Stops
  <2>3. ShipsWhatWasApproved'
    BY <2>2 DEF ShipInv, ShipsWhatWasApproved, TaskStays, decided
  <2> QED
    BY <1>i, <1>r, <1>u, <2>1, <2>2, <2>3 DEF ShipInv
<1> QED
  BY <1>1, <1>2, <1>3, <1>4, <1>5, <1>6, <1>7, <1>8, StepCases DEF StepKinds

\* What a pipeline builds was approved, for any clients and whoever runs the
\* workflow: it builds the version that the task has when it is approved, and
\* only a decision that was taken on another version can put a version there
\* that nobody approved (decide, PipelineService.run).
THEOREM ShipsWhatWasApprovedCorrect == Spec => []ShipsWhatWasApproved
<1>1. ShipInv => ShipsWhatWasApproved
  BY DEF ShipInv
<1> QED
  BY <1>1, TypeInit, TypeStep, ShipInit, ShipStep, PTL DEF Spec

-----------------------------------------------------------------------------
(* Every run was asked for *)

\* What is in flight was asked for as well, and a task that may run and does
\* not has a run to its credit.
Credit ==
  /\ runs + InFlight("run") <= 1 + reworks + overlaps
  /\ status \in Runnable /\ Doing("run") = {} => runs <= reworks + overlaps

LEMMA CreditInit == Init => Credit
<1> SUFFICES ASSUME Init PROVE Credit
  OBVIOUS
<1>1. Doing("run") = {}
  BY DEF Init, Doing, Idle
<1>2. InFlight("run") = 0
  BY <1>1, FS_EmptySet DEF InFlight
<1>3. runs = 0 /\ reworks = 0 /\ overlaps = 0
  BY DEF Init
<1> QED
  BY ONLY <1>2, <1>3 DEF Credit

LEMMA InFlightNone ==
  /\ Doing("run") = {} <=> InFlight("run") = 0
  /\ Doing("run")' = {} <=> InFlight("run")' = 0
<1>1. IsFiniteSet(Procs)
  BY ProcsAssumption, FS_AddElement DEF Procs
<1>2. Doing("run") \subseteq Procs /\ Doing("run")' \subseteq Procs
  BY DEF Doing
<1>3. IsFiniteSet(Doing("run")) /\ IsFiniteSet(Doing("run")')
  BY <1>1, <1>2, FS_Subset
<1> QED
  BY <1>3, FS_EmptySet DEF InFlight

\* The runs in flight are the same, and the task is not sent back.
LEMMA CreditKept ==
  ASSUME Credit, Doing("run")' = Doing("run"), UNCHANGED <<runs, reworks, overlaps>>,
         status' \in Runnable => status \in Runnable
  PROVE  Credit'
BY DEF Credit, InFlight

LEMMA CreditStep == TypeInv /\ Credit /\ [Next]_vars => Credit'
<1> SUFFICES ASSUME TypeInv, Credit, [Next]_vars PROVE Credit'
  OBVIOUS
<1>c. \A c \in Clients : c \in Procs
  BY DEF Procs
<1>i. Idle.op # "run" /\ TxShape
  BY HasShape DEF Idle
<1>n. /\ runs \in Nat /\ reworks \in Nat /\ overlaps \in Nat
      /\ InFlight("run") \in Nat /\ InFlight("run")' \in Nat
  BY FlyingFinite DEF TypeInv, TypeOK
<1>u. TaskStays => UNCHANGED <<runs, reworks, status>>
  BY DEF TaskStays, work, row
<1>0. runs + InFlight("run") <= 1 + reworks + overlaps
  BY DEF Credit
<1>1. ASSUME NEW p \in Procs, NEW outcome \in DOMAIN Kept, RunCommit(p, outcome)
      PROVE  Credit'
  <2>1. /\ tx[p].op = "run" /\ tx' = [tx EXCEPT ![p] = Idle] /\ runs' \in {runs, runs + 1}
        /\ reworks' = IF status' = "changes_requested" THEN reworks + 1 ELSE reworks
        /\ overlaps' = overlaps /\ status' # "queued"
    BY <1>1 DEF RunCommit, End, raced
  <2>2. InFlight("run")' = InFlight("run") - 1
    BY <1>i, <2>1, RunsMove
  <2>3. runs' + InFlight("run")' <= 1 + reworks' + overlaps'
    BY ONLY <1>n, <1>0, <2>1, <2>2
  <2>4. ASSUME status' \in Runnable PROVE runs' <= reworks' + overlaps'
    <3>1. reworks' = reworks + 1
      BY <2>1, <2>4 DEF Runnable
    <3> QED
      BY ONLY <1>n, <1>0, <2>1, <2>2, <3>1
  <2> QED
    BY <2>3, <2>4 DEF Credit
<1>2. ASSUME NEW p \in Procs, BeginsRun(p) PROVE Credit'
  <2> PICK t : t = [op |-> "run", stamp |-> begun]
    OBVIOUS
  <2>1. /\ t.op = "run" /\ tx' = [tx EXCEPT ![p] = t] /\ tx[p].op # "run" /\ status \in Runnable
        /\ runs' = runs /\ reworks' = reworks
        /\ overlaps' = IF Doing("run") = {} THEN overlaps ELSE overlaps + 1
    BY <1>2, <1>u DEF BeginsRun, MayRun, BeginRun, Idle
  <2>2. InFlight("run")' = InFlight("run") + 1
    BY <1>i, <2>1, RunsMove
  <2>3. Doing("run")' # {}
    BY ONLY <1>n, <2>2, InFlightNone
  <2>4. Doing("run") = {} => runs <= reworks + overlaps /\ InFlight("run") = 0
    BY <2>1, InFlightNone DEF Credit
  <2>5. runs' + InFlight("run")' <= 1 + reworks' + overlaps'
    BY ONLY <1>n, <1>0, <2>1, <2>2, <2>4
  <2> QED
    BY <2>3, <2>5 DEF Credit
<1>3. ASSUME NEW c \in Clients, DecideCommit(c) PROVE Credit'
  <2>1. /\ tx[c].op = "decide" /\ tx' = [tx EXCEPT ![c] = Idle]
        /\ status' \in {status, tx[c].verdict} /\ UNCHANGED <<runs, overlaps>>
        /\ reworks' = IF status' = "changes_requested" /\ status # status'
                        THEN reworks + 1 ELSE reworks
    BY <1>3 DEF DecideCommit, Written, raced
  <2>2. tx[c] \in Transactions
    BY <1>c DEF TypeInv, TypeOK
  <2>3. tx[c].verdict \in Verdicts
    BY <2>1, <2>2 DEF Transactions, Idle
  <2>4. Doing("run")' = Doing("run")
    BY <1>c, <1>i, <2>1, RunsMove
  <2>5. CASE reworks' = reworks + 1
    <3>1. InFlight("run")' = InFlight("run")
      BY <2>4 DEF InFlight
    <3>2. runs' + InFlight("run")' <= 1 + reworks' + overlaps'
      BY ONLY <1>n, <1>0, <2>1, <2>5, <3>1
    <3>3. runs' <= reworks' + overlaps'
      BY ONLY <1>n, <1>0, <2>1, <2>5
    <3> QED
      BY <3>2, <3>3 DEF Credit
  <2>6. CASE status' = status \/ status' \notin {"queued", "changes_requested"}
    <3>1. CASE reworks' = reworks
      <4>1. status' \in Runnable => status \in Runnable
        BY <2>6 DEF Runnable
      <4> QED
        BY <2>1, <2>4, <3>1, <4>1, CreditKept
    <3> QED
      BY <2>1, <2>5, <3>1
  <2> QED
    BY <2>1, <2>3, <2>5, <2>6 DEF Verdicts
<1>4. ASSUME NEW p \in Procs, NEW t, tx' = [tx EXCEPT ![p] = t], t.op # "run", tx[p].op # "run",
             UNCHANGED <<runs, reworks, overlaps, status>>
      PROVE  Credit'
  <2>1. Doing("run")' = Doing("run")
    BY <1>i, <1>4, RunsMove
  <2> QED
    BY <1>4, <2>1, CreditKept
<1>5. ASSUME NEW c \in Clients, EvaluateRead(c) \/ EvaluateCommit(c) PROVE Credit'
  <2>1. UNCHANGED <<runs, reworks, overlaps, status>> /\ tx[c].op # "run"
    BY <1>5 DEF EvaluateRead, EvaluateCommit, row, work, raced, Idle
  <2>2. \E t : tx' = [tx EXCEPT ![c] = t] /\ t.op # "run"
    BY <1>5 DEF EvaluateRead, EvaluateCommit, Idle
  <2> QED
    BY <1>c, <1>4, <2>1, <2>2
<1>6. ASSUME NEW c \in Clients, NEW verdict \in Verdicts, NEW override \in BOOLEAN,
             DecideRead(c, verdict, override)
      PROVE  Credit'
  <2>1. UNCHANGED <<runs, reworks, overlaps, status>> /\ tx[c].op # "run"
    BY <1>6 DEF DecideRead, row, work, raced, Idle
  <2>2. PICK v, s :
          tx' = [tx EXCEPT ![c] =
                  [op |-> "decide", verdict |-> verdict, status |-> status, code |-> code,
                   pr |-> v, prStatus |-> s, first |-> jobs["pipeline"] = "none"]]
    BY <1>6 DEF DecideRead
  <2> PICK t : t = [op |-> "decide", verdict |-> verdict, status |-> status, code |-> code,
                    pr |-> v, prStatus |-> s, first |-> jobs["pipeline"] = "none"]
    OBVIOUS
  <2>3. t.op # "run" /\ tx' = [tx EXCEPT ![c] = t]
    BY <2>2
  <2> QED
    BY <1>c, <1>4, <2>1, <2>3
<1>7. ASSUME NEW p \in Procs, BeginsPipeline(p) \/ PipelineCommit(p) \/ Leaves(p) PROVE Credit'
  <2>1. UNCHANGED <<runs, reworks, overlaps, status>> /\ tx[p].op # "run"
    BY <1>7, <1>u DEF BeginsPipeline, PipelineCommit, Leaves, work, row, raced, Idle
  <2>2. \E t : tx' = [tx EXCEPT ![p] = t] /\ t.op # "run"
    BY <1>7 DEF BeginsPipeline, BeginPipeline, PipelineCommit, Leaves, Passive, Idle
  <2> QED
    BY <1>4, <2>1, <2>2
<1>8. CASE Stops
  <2>1. UNCHANGED <<runs, reworks, overlaps, status>>
    BY <1>8, <1>u DEF Stops, raced
  <2>2. CASE Doing("run")' = Doing("run")
    BY <2>1, <2>2, CreditKept
  <2>3. CASE Doing("run")' = {} /\ InFlight("run")' = 0 /\ Doing("run") # {}
    <3>1. InFlight("run") # 0
      BY <2>3, InFlightNone
    <3>2. runs' + InFlight("run")' <= 1 + reworks' + overlaps' /\ runs' <= reworks' + overlaps'
      BY ONLY <1>n, <1>0, <2>1, <2>3, <3>1
    <3> QED
      BY <3>2 DEF Credit
  <2> QED
    BY <1>8, <1>i, <2>2, <2>3, RunsStop
<1> QED
  BY <1>1, <1>2, <1>3, <1>5, <1>6, <1>7, <1>8, StepCases DEF StepKinds

\* Whoever runs the workflow and however its runs overlap: it makes one
\* version, one for each time the task was sent back, and one for each run that
\* passed the guard beside another (run_workflow's guard and flush).
THEOREM RunsAreRequestedCorrect == Spec => []RunsAreRequested
<1>1. TypeInv /\ Credit => RunsAreRequested
  <2> SUFFICES ASSUME TypeInv, Credit PROVE RunsAreRequested
    OBVIOUS
  <2>1. runs \in Nat /\ reworks \in Nat /\ overlaps \in Nat /\ InFlight("run") \in Nat
    BY FlyingFinite DEF TypeInv, TypeOK
  <2> QED
    BY <2>1 DEF Credit, RunsAreRequested
<1> QED
  BY <1>1, TypeInit, TypeStep, CreditInit, CreditStep, PTL DEF Spec

-----------------------------------------------------------------------------
(* Critical findings *)

\* Some gate row has looked at version v.
Judged(v) == \E g \in gates : v \in g.judged

\* A gate row tells the truth about the versions that it has looked at.
Truthful(g) ==
  /\ g.judged \subseteq Changed(grade)
  /\ \A v \in g.judged : grade[v] = "critical" =>
       g.critical /\ ("critical" \in EnabledRules => ~g.eligible)

\* What transaction t has read.
Sound(t) ==
  /\ t.op = "run" => t.stamp < begun
  /\ t.op = "decide" => /\ t.pr \in PullRequests \union {NoVersion}
                        /\ t.status = "pr_ready" => t.code \in PullRequests
  /\ t.op = "evaluate" => /\ Truthful(t.gate) /\ t.gate.stamp < begun
                          /\ \A g \in t.priors : g.judged \subseteq t.gate.judged
  /\ t.op = "pipeline" => t.code <= runs

\* Every version that ever had a pull request has been judged, and still is.
JudgeInv ==
  /\ \A v \in Versions : v > runs => grade[v] = "none"
  /\ code <= runs /\ \A i \in DOMAIN pipelines : pipelines[i].code <= runs
  /\ \A g \in gates : Truthful(g) /\ g.stamp < begun
  /\ \A v \in PullRequests : Judged(v)
  /\ status = "pr_ready" => code \in PullRequests
  /\ approved \subseteq PullRequests
  /\ \A p \in Procs : Sound(tx[p])

LEMMA IdleIsSound == Sound(Idle) /\ Sound(Idle)'
BY DEF Sound, Idle

LEMMA PassiveIsSound == ASSUME NEW t, Passive(t) PROVE Sound(t)'
BY DEF Sound, Passive

LEMMA JudgeInit == Init => JudgeInv
<1> SUFFICES ASSUME Init PROVE JudgeInv
  OBVIOUS
<1>1. /\ status = "queued" /\ code = 0 /\ runs = 0 /\ grade = [v \in Versions |-> "none"]
      /\ gates = {} /\ pipelines = <<>> /\ PullRequests = {} /\ approved = {}
      /\ tx = [p \in Procs |-> Idle]
  BY DEF Init, PullRequests, NoVersion
<1>2. \A p \in Procs : Sound(tx[p])
  BY <1>1, IdleIsSound DEF Sound
<1> QED
  BY <1>1, <1>2 DEF JudgeInv

\* What the bounds of the stamps and of the versions are compared with.
LEMMA JudgeTypes ==
  ASSUME TypeInv
  PROVE  /\ begun \in Nat /\ runs \in Nat /\ code \in Nat
         /\ grade \in [Versions -> Grades \union {"none"}]
         /\ \A g \in gates : g.stamp \in Nat
         /\ \A p \in Procs :
              /\ tx[p].op = "run" => tx[p].stamp \in Nat
              /\ tx[p].op = "evaluate" => tx[p].gate.stamp \in Nat
              /\ tx[p].op \in {"pipeline", "decide"} => tx[p].code \in Nat
         /\ \A i \in DOMAIN pipelines : pipelines[i].code \in Nat
<1>1. begun \in Nat /\ runs \in Nat /\ code \in Nat
      /\ grade \in [Versions -> Grades \union {"none"}]
  BY DEF TypeInv, TypeOK, Versions, NoVersion
<1>2. \A g \in gates : g.stamp \in Nat
  BY DEF TypeInv, TypeOK, Gates
<1>3. ASSUME NEW p \in Procs
      PROVE  /\ tx[p].op = "run" => tx[p].stamp \in Nat
             /\ tx[p].op = "evaluate" => tx[p].gate.stamp \in Nat
             /\ tx[p].op \in {"pipeline", "decide"} => tx[p].code \in Nat
  <2>1. tx[p] \in Transactions
    BY DEF TypeInv, TypeOK
  <2>2. tx[p].op = "evaluate" => tx[p].gate \in Gates
    BY <2>1 DEF Transactions, Idle
  <2>3. tx[p].op = "evaluate" => tx[p].gate.stamp \in Nat
    BY <2>2 DEF Gates
  <2>4. tx[p].op = "run" => tx[p].stamp \in Nat
    BY <2>1 DEF Transactions, Idle
  <2>5. tx[p].op \in {"pipeline", "decide"} => tx[p].code \in Versions \union {NoVersion}
    BY <2>1 DEF Transactions, Idle
  <2> QED
    BY <2>3, <2>4, <2>5 DEF Versions, NoVersion
<1>4. ASSUME NEW i \in DOMAIN pipelines PROVE pipelines[i].code \in Nat
  <2>1. pipelines[i] \in Pipelines
    BY DEF TypeInv, TypeOK
  <2> QED
    BY <2>1 DEF Pipelines, Versions, NoVersion
<1> QED
  BY <1>1, <1>2, <1>3, <1>4

\* A transaction that has read what was so still has when nothing is written
\* but stamps are given, and when pull requests and versions are only added.
LEMMA SoundStays ==
  ASSUME NEW t, Sound(t), UNCHANGED grade, runs \in Nat, begun \in Nat,
         runs' = runs, begun' \in {begun, begun + 1},
         PullRequests \subseteq PullRequests',
         t.op = "run" => t.stamp \in Nat, t.op = "evaluate" => t.gate.stamp \in Nat
  PROVE  Sound(t)'
<1>1. t.op = "run" => t.stamp < begun'
  BY DEF Sound
<1>2. t.op = "evaluate" => t.gate.stamp < begun'
  BY DEF Sound
<1> QED
  BY <1>1, <1>2 DEF Sound, Truthful, Changed

\* Steps that write no row: what they have read is sound.
LEMMA JudgeReads ==
  ASSUME TypeInv, JudgeInv, UNCHANGED <<row, work, gates, pipelines, decided>>,
         begun' \in {begun, begun + 1},
         \A p \in Procs : tx'[p] = tx[p] \/ Sound(tx[p])'
  PROVE  JudgeInv'
<1>1. UNCHANGED <<status, code, grade, prs, runs, gates, pipelines, approved>>
  BY DEF row, work, decided
<1>2. PullRequests' = PullRequests
  BY <1>1 DEF PullRequests
<1>3. \A p \in Procs : Sound(tx[p])'
  <2> SUFFICES ASSUME NEW p \in Procs, tx'[p] = tx[p]
               PROVE  Sound(tx[p])'
    OBVIOUS
  <2> PICK t : t = tx[p]
    OBVIOUS
  <2>1. Sound(t) /\ (t.op = "run" => t.stamp \in Nat) /\ (t.op = "evaluate" => t.gate.stamp \in Nat)
    BY JudgeTypes DEF JudgeInv
  <2>2. Sound(t)'
    BY <1>1, <1>2, <2>1, JudgeTypes, SoundStays
  <2> QED
    BY ONLY <2>2, t = tx'[p] DEF Sound
<1>4. \A g \in gates : g.stamp < begun'
  BY JudgeTypes DEF JudgeInv
<1>5. \A g \in gates' : Truthful(g)'
  BY <1>1 DEF JudgeInv, Truthful, Changed
<1>6. \A v \in PullRequests' : Judged(v)'
  BY <1>1, <1>2 DEF JudgeInv, Judged
<1> QED
  BY <1>1, <1>2, <1>3, <1>4, <1>5, <1>6 DEF JudgeInv

LEMMA KeptShape ==
  ASSUME NEW outcome \in DOMAIN Kept
  PROVE  /\ "changes" \in Kept[outcome] => "sandbox" \in Kept[outcome]
         /\ "gate" \in Kept[outcome] => "changes" \in Kept[outcome]
         /\ "pr" \in Kept[outcome] => "gate" \in Kept[outcome]
         /\ End(outcome) \in {"pr_ready", "changes_requested", "failed"}
         /\ End(outcome) = "pr_ready" => "pr" \in Kept[outcome]
<1>1. outcome \in {"unresolved", "ungenerated", "unapplied", "unpublished", "unverified", "ready"}
  BY DEF Kept
<1> QED
  BY <1>1 DEF Kept, End

\* A gate row tells the truth when it is made.
LEMMA GateIsTruthful ==
  ASSUME NEW g, NEW t, NEW stamp
  PROVE  LET made == Gate(g, Changed(g), t, stamp) IN
         /\ made.judged = Changed(g) /\ made.stamp = stamp
         /\ \A v \in made.judged : g[v] = "critical" =>
              made.critical /\ ("critical" \in EnabledRules => ~made.eligible)
BY DEF Gate

\* The rows that a run leaves: a version that nobody has seen, and a gate row
\* that judges all there are.
LEMMA RunWrites ==
  ASSUME TypeInv, JudgeInv, NEW p \in Procs, NEW outcome \in DOMAIN Kept, RunCommit(p, outcome)
  PROVE  /\ runs' \in {runs, runs + 1} /\ runs + 1 \in Versions
         /\ \A w \in Changed(grade) : w \in Changed(grade') /\ grade'[w] = grade[w]
         /\ \A w \in Versions : w > runs' => grade'[w] = "none"
         /\ \/ gates' = gates /\ UNCHANGED prs /\ status' # "pr_ready"
            \/ \E g : /\ gates' = {g} /\ Truthful(g)' /\ g.judged = Changed(grade')
                      /\ g.stamp = tx[p].stamp
                      /\ runs + 1 \in Changed(grade') /\ code' = runs + 1 /\ runs' = runs + 1
                      /\ PullRequests' \subseteq PullRequests \union {runs + 1}
                      /\ PullRequests \subseteq PullRequests'
                      /\ status' = "pr_ready" => runs + 1 \in PullRequests'
<1> DEFINE v == runs + 1
           kept == Kept[outcome]
<1>1. /\ tx[p].op = "run" /\ tx' = [tx EXCEPT ![p] = Idle] /\ status' = End(outcome)
      /\ runs' = IF "sandbox" \in kept THEN v ELSE runs
      /\ "sandbox" \in kept => code' = v
      /\ prs' = IF "pr" \in kept THEN [prs EXCEPT ![v] = "draft"] ELSE prs
  BY DEF RunCommit
<1>2. runs \in Nat /\ grade \in [Versions -> Grades \union {"none"}]
      /\ prs \in [Versions -> PRStatuses \union {"none"}]
  BY DEF TypeInv, TypeOK
<1>3. v \in Versions
  BY <1>1, RunEnds
<1>4. /\ \A w \in Versions : w # v => grade'[w] = grade[w]
      /\ grade' \in [Versions -> Grades \union {"none"}]
      /\ "changes" \in kept => grade'[v] # "none"
      /\ "changes" \notin kept => grade' = grade
  BY <1>2, <1>3, GradesAssumption DEF RunCommit, Grades
<1>5. grade[v] = "none"
  BY <1>2, <1>3 DEF JudgeInv
<1>6. \A w \in Changed(grade) : w \in Changed(grade') /\ grade'[w] = grade[w]
  BY <1>2, <1>4, <1>5 DEF Changed
<1>7. \A w \in Versions : w > runs' => grade'[w] = "none"
  <2> SUFFICES ASSUME NEW w \in Versions, w > runs' PROVE grade'[w] = "none"
    OBVIOUS
  <2>1. w \in Nat
    BY DEF Versions
  <2>2. grade[w] = "none"
    BY <1>1, <1>2, <2>1 DEF JudgeInv
  <2>3. CASE "changes" \in kept
    <3>1. runs' = v
      BY <1>1, <2>3, KeptShape
    <3> QED
      BY <1>4, <2>1, <2>2, <3>1
  <2>4. CASE "changes" \notin kept
    BY <1>4, <2>2, <2>4
  <2> QED
    BY <2>3, <2>4
<1>8. CASE "gate" \in kept
  <2>1. PICK t : gates' = Replaced(gates, Gate(grade', Changed(grade'), t, tx[p].stamp))
    BY <1>8 DEF RunCommit
  <2>2. PICK g : g = Gate(grade', Changed(grade'), t, tx[p].stamp)
    OBVIOUS
  <2>3. gates' = {g}
    BY <2>1, <2>2 DEF Replaced
  <2>4. /\ g.judged = Changed(grade') /\ g.stamp = tx[p].stamp
        /\ \A w \in g.judged : grade'[w] = "critical" =>
             g.critical /\ ("critical" \in EnabledRules => ~g.eligible)
    BY <2>2, GateIsTruthful
  <2>5. Truthful(g)'
    BY <2>4 DEF Truthful
  <2>6. v \in Changed(grade') /\ code' = v /\ runs' = v
    BY <1>1, <1>3, <1>4, <1>8, KeptShape DEF Changed
  <2>7. PullRequests' \subseteq PullRequests \union {v} /\ PullRequests \subseteq PullRequests'
    BY <1>1, <1>2, <1>3 DEF PullRequests
  <2>8. status' = "pr_ready" => v \in PullRequests'
    BY <1>1, <1>2, <1>3, KeptShape DEF PullRequests
  <2> QED
    BY <1>3, <1>6, <1>7, <2>3, <2>4, <2>5, <2>6, <2>7, <2>8
<1>9. CASE "gate" \notin kept
  <2>1. gates' = gates /\ prs' = prs /\ status' # "pr_ready"
    BY <1>1, <1>9, KeptShape DEF RunCommit
  <2> QED
    BY <1>1, <1>3, <1>6, <1>7, <2>1
<1> QED
  BY <1>8, <1>9

LEMMA RunKeepsJudge ==
  ASSUME TypeInv, JudgeInv, NEW p \in Procs, NEW outcome \in DOMAIN Kept, RunCommit(p, outcome)
  PROVE  JudgeInv'
<1>1. /\ tx[p].op = "run" /\ tx' = [tx EXCEPT ![p] = Idle] /\ begun' = begun
      /\ pipelines' = pipelines /\ approved' = approved
      /\ code' = runs' \/ code' = code
  BY DEF RunCommit, decided
<1>2. /\ runs' \in {runs, runs + 1}
      /\ \A w \in Changed(grade) : w \in Changed(grade') /\ grade'[w] = grade[w]
      /\ \A w \in Versions : w > runs' => grade'[w] = "none"
  BY RunWrites
<1>3. runs \in Nat /\ runs' \in Nat /\ code \in Nat /\ begun \in Nat
      /\ \A i \in DOMAIN pipelines : pipelines[i].code \in Nat
  BY <1>2, JudgeTypes
<1>4. code' <= runs' /\ \A i \in DOMAIN pipelines' : pipelines'[i].code <= runs'
  <2>1. code <= runs /\ \A i \in DOMAIN pipelines : pipelines[i].code <= runs
    BY DEF JudgeInv
  <2> QED
    BY ONLY <1>1, <1>2, <1>3, <2>1
<1>5. \A g : Truthful(g) => Truthful(g)'
  BY <1>2 DEF Truthful
<1>6. Sound(tx[p]) /\ tx[p].stamp < begun
  BY <1>1 DEF JudgeInv, Sound
<1>7. /\ \A g \in gates' : Truthful(g)' /\ g.stamp < begun'
      /\ \A v \in PullRequests' : Judged(v)'
      /\ PullRequests \subseteq PullRequests'
      /\ status' = "pr_ready" => code' \in PullRequests'
  <2>1. CASE gates' = gates /\ UNCHANGED prs /\ status' # "pr_ready"
    <3>1. PullRequests' = PullRequests
      BY <2>1 DEF PullRequests
    <3> QED
      BY <1>1, <1>5, <2>1, <3>1 DEF JudgeInv, Judged
  <2>2. ASSUME NEW g, gates' = {g} /\ Truthful(g)' /\ g.judged = Changed(grade')
                      /\ g.stamp = tx[p].stamp
                      /\ runs + 1 \in Changed(grade') /\ code' = runs + 1 /\ runs' = runs + 1
                      /\ PullRequests' \subseteq PullRequests \union {runs + 1}
                      /\ PullRequests \subseteq PullRequests'
                      /\ (status' = "pr_ready" => runs + 1 \in PullRequests')
        PROVE  /\ \A h \in gates' : Truthful(h)' /\ h.stamp < begun'
               /\ \A v \in PullRequests' : Judged(v)'
               /\ PullRequests \subseteq PullRequests'
               /\ status' = "pr_ready" => code' \in PullRequests'
    <3>1. \A v \in PullRequests : v \in Changed(grade)
      BY DEF JudgeInv, Judged, Truthful
    <3>2. \A v \in PullRequests' : v \in g.judged
      BY <1>2, <2>2, <3>1
    <3>3. \A v \in PullRequests' : Judged(v)'
      BY <2>2, <3>2 DEF Judged
    <3> QED
      BY <1>1, <1>6, <2>2, <3>3
  <2> QED
    BY <2>1, <2>2, RunWrites
<1>8. \A q \in Procs : Sound(tx[q])'
  <2> SUFFICES ASSUME NEW q \in Procs PROVE Sound(tx[q])'
    OBVIOUS
  <2> PICK t : t = tx'[q]
    OBVIOUS
  <2>1. t = Idle \/ t = tx[q]
    BY <1>1 DEF TypeInv, TypeOK
  <2>2. Sound(t)'
    <3>1. CASE t = Idle
      BY <3>1, IdleIsSound DEF Sound
    <3>2. CASE t = tx[q]
      <4>1. Sound(t) /\ (t.op \in {"pipeline", "decide"} => t.code \in Nat)
        BY <3>2, JudgeTypes DEF JudgeInv
      <4>2. t.op = "pipeline" => t.code <= runs'
        BY <1>2, <1>3, <4>1 DEF Sound
      <4> QED
        BY <1>1, <1>5, <1>7, <4>1, <4>2 DEF Sound
    <3> QED
      BY <2>1, <3>1, <3>2
  <2> QED
    BY ONLY <2>2, t = tx'[q] DEF Sound
<1>9. approved' \subseteq PullRequests'
  BY <1>1, <1>7 DEF JudgeInv
<1> QED
  BY <1>2, <1>4, <1>7, <1>8, <1>9 DEF JudgeInv

\* One transaction ends that writes neither versions nor pull requests.
LEMMA JudgeEnds ==
  ASSUME TypeInv, JudgeInv, NEW p \in Procs, tx' = [tx EXCEPT ![p] = Idle],
         UNCHANGED <<code, grade, runs, begun>>, PullRequests' = PullRequests,
         \A g \in gates' : Truthful(g) /\ g.stamp < begun,
         \A v \in PullRequests : Judged(v)',
         \A i \in DOMAIN pipelines' : pipelines'[i].code <= runs,
         status' = "pr_ready" => status = "pr_ready",
         approved' \subseteq PullRequests
  PROVE  JudgeInv'
<1>1. \A q \in Procs : Sound(tx[q])'
  <2> SUFFICES ASSUME NEW q \in Procs PROVE Sound(tx[q])'
    OBVIOUS
  <2> PICK t : t = tx'[q]
    OBVIOUS
  <2>1. t = Idle \/ t = tx[q]
    BY DEF TypeInv, TypeOK
  <2>2. Sound(t)
    BY <2>1, IdleIsSound DEF JudgeInv
  <2>3. Sound(t)'
    BY <2>2 DEF Sound, Truthful, Changed
  <2> QED
    BY ONLY <2>3, t = tx'[q] DEF Sound
<1>2. \A g \in gates' : Truthful(g)'
  BY DEF Truthful, Changed
<1> QED
  BY <1>1, <1>2 DEF JudgeInv

LEMMA EvaluationKeepsJudge ==
  ASSUME TypeInv, JudgeInv, NEW c \in Clients, EvaluateCommit(c)
  PROVE  JudgeInv'
<1> PICK t : t = tx[c]
  OBVIOUS
<1>1. /\ c \in Procs /\ t.op = "evaluate" /\ gates' = Replaced(t.priors, t.gate)
      /\ tx' = [tx EXCEPT ![c] = Idle]
      /\ UNCHANGED <<status, code, grade, prs, runs, begun, pipelines, approved>>
  BY DEF EvaluateCommit, Procs, row, work, decided
<1>2. PullRequests' = PullRequests
  BY <1>1 DEF PullRequests
<1>3. Sound(t)
  BY <1>1 DEF JudgeInv
<1>4. \A g \in gates' : Truthful(g) /\ g.stamp < begun
  BY <1>1, <1>3 DEF Sound, Replaced, JudgeInv
<1>5. ASSUME NEW v \in PullRequests PROVE Judged(v)'
  <2>1. PICK g \in gates : v \in g.judged
    BY DEF JudgeInv, Judged
  <2>2. CASE g \in t.priors
    BY <1>1, <1>3, <2>1, <2>2 DEF Sound, Replaced, Judged
  <2>3. CASE g \notin t.priors
    BY <1>1, <2>1, <2>3 DEF Replaced, Judged
  <2> QED
    BY <2>2, <2>3
<1>6. /\ \A i \in DOMAIN pipelines' : pipelines'[i].code <= runs
      /\ approved' \subseteq PullRequests
  BY <1>1 DEF JudgeInv
<1> QED
  BY <1>1, <1>2, <1>4, <1>5, <1>6, JudgeEnds

\* A decision writes the pull request that it has read.
LEMMA DecisionKeepsPullRequests ==
  ASSUME TypeInv, JudgeInv, NEW c \in Clients, DecideCommit(c)
  PROVE  PullRequests' = PullRequests
<1> PICK t : t = tx[c]
  OBVIOUS
<1>1. /\ c \in Procs /\ t.op = "decide"
      /\ prs' = [v \in Versions |->
                   IF v = t.pr THEN Written(t.prStatus, t.verdict, prs[v]) ELSE prs[v]]
  BY DEF DecideCommit, Procs
<1>2. t \in Transactions
  BY <1>1 DEF TypeInv, TypeOK
<1>3. t.verdict # "none"
  BY <1>1, <1>2 DEF Transactions, Idle, Verdicts
<1>4. t.pr \in PullRequests \union {NoVersion}
  BY <1>1 DEF JudgeInv, Sound
<1>5. \A v \in Versions : v # NoVersion
  BY DEF Versions, NoVersion
<1>6. \A v \in Versions : prs'[v] # "none" <=> prs[v] # "none"
  BY <1>1, <1>3, <1>4, <1>5 DEF Written, PullRequests
<1> QED
  BY <1>6 DEF PullRequests

LEMMA DecisionKeepsJudge ==
  ASSUME TypeInv, JudgeInv, NEW c \in Clients, DecideCommit(c)
  PROVE  JudgeInv'
<1> PICK t : t = tx[c]
  OBVIOUS
<1>1. /\ c \in Procs /\ t.op = "decide" /\ tx' = [tx EXCEPT ![c] = Idle]
      /\ status' = Written(t.status, t.verdict, status)
      /\ UNCHANGED <<code, grade, gates, runs, begun, pipelines>>
      /\ \/ approved' = approved
         \/ t.status = "pr_ready" /\ approved' \subseteq approved \union {t.code}
  BY DEF DecideCommit, Procs
<1>2. t \in Transactions
  BY <1>1 DEF TypeInv, TypeOK
<1>3. t.verdict \in Verdicts
  BY <1>1, <1>2 DEF Transactions, Idle
<1>4. Sound(t)
  BY <1>1 DEF JudgeInv
<1>6. PullRequests' = PullRequests
  BY DecisionKeepsPullRequests
<1>7. status' = "pr_ready" => status = "pr_ready"
  BY <1>1, <1>3 DEF Written, Verdicts
<1>8. approved' \subseteq PullRequests
  BY <1>1, <1>4 DEF JudgeInv, Sound
<1>9. /\ \A g \in gates' : Truthful(g) /\ g.stamp < begun
      /\ \A v \in PullRequests : Judged(v)'
      /\ \A i \in DOMAIN pipelines' : pipelines'[i].code <= runs
  BY <1>1 DEF JudgeInv, Judged
<1> QED
  BY <1>1, <1>6, <1>7, <1>8, <1>9, JudgeEnds

\* A pipeline adds a row about the version it has loaded.
LEMMA PipelineAdds ==
  ASSUME TypeInv, NEW p \in Procs, PipelineCommit(p)
  PROVE  \E r \in Results(tx[p].code) :
           /\ DOMAIN pipelines' = DOMAIN pipelines \union {Len(pipelines) + 1}
           /\ pipelines'[Len(pipelines) + 1] = [code |-> tx[p].code, status |-> r]
           /\ \A i \in DOMAIN pipelines : pipelines'[i] = pipelines[i]
<1>1. PICK r \in Results(tx[p].code) :
        pipelines' = Append(pipelines, [code |-> tx[p].code, status |-> r])
  BY DEF PipelineCommit
<1>2. pipelines \in Seq(Pipelines)
  BY DEF TypeInv, TypeOK
<1>3. /\ DOMAIN pipelines' = DOMAIN pipelines \union {Len(pipelines) + 1}
      /\ pipelines'[Len(pipelines) + 1] = [code |-> tx[p].code, status |-> r]
      /\ \A i \in DOMAIN pipelines : pipelines'[i] = pipelines[i]
  BY ONLY <1>1, <1>2
<1> QED
  BY <1>3

LEMMA PipelineKeepsJudge ==
  ASSUME TypeInv, JudgeInv, NEW p \in Procs, PipelineCommit(p)
  PROVE  JudgeInv'
<1>1. /\ tx[p].op = "pipeline" /\ tx' = [tx EXCEPT ![p] = Idle]
      /\ UNCHANGED <<status, code, grade, prs, runs, gates, begun, approved>>
  BY DEF PipelineCommit, row, work, decided
<1>2. tx[p].code <= runs
  BY <1>1 DEF JudgeInv, Sound
<1>3. \A i \in DOMAIN pipelines' : pipelines'[i].code <= runs
  <2>1. PICK r \in Results(tx[p].code) :
          /\ DOMAIN pipelines' = DOMAIN pipelines \union {Len(pipelines) + 1}
          /\ pipelines'[Len(pipelines) + 1] = [code |-> tx[p].code, status |-> r]
          /\ \A i \in DOMAIN pipelines : pipelines'[i] = pipelines[i]
    BY PipelineAdds
  <2> QED
    BY <1>2, <2>1 DEF JudgeInv
<1>4. PullRequests' = PullRequests
  BY <1>1 DEF PullRequests
<1>5. /\ \A g \in gates' : Truthful(g) /\ g.stamp < begun
      /\ \A v \in PullRequests : Judged(v)'
      /\ approved' \subseteq PullRequests
  BY <1>1 DEF JudgeInv, Judged
<1> QED
  BY <1>1, <1>3, <1>4, <1>5, JudgeEnds

\* A transaction begins with what it reads at that moment.
LEMMA JudgeBegins ==
  ASSUME TypeInv, JudgeInv, UNCHANGED <<row, work, gates, pipelines, decided>>,
         begun' \in {begun, begun + 1},
         NEW p \in Procs, NEW t, tx' = [tx EXCEPT ![p] = t], Sound(t)'
  PROVE  JudgeInv'
<1>1. tx'[p] = t /\ \A q \in Procs \ {p} : tx'[q] = tx[q]
  BY OneMoves, HasShape
<1>2. Sound(tx[p])'
  BY <1>1 DEF Sound
<1>3. \A q \in Procs : tx'[q] = tx[q] \/ Sound(tx[q])'
  BY <1>1, <1>2
<1> QED
  BY <1>3, JudgeReads

LEMMA JudgeStep == TypeInv /\ JudgeInv /\ [Next]_vars => JudgeInv'
<1> SUFFICES ASSUME TypeInv, JudgeInv, [Next]_vars PROVE JudgeInv'
  OBVIOUS
<1>c. \A c \in Clients : c \in Procs
  BY DEF Procs
<1>n. begun \in Nat /\ runs \in Nat
  BY JudgeTypes
<1>1. ASSUME NEW p \in Procs, NEW outcome \in DOMAIN Kept, RunCommit(p, outcome)
      PROVE  JudgeInv'
  BY <1>1, RunKeepsJudge
<1>2. ASSUME NEW c \in Clients, EvaluateRead(c) PROVE JudgeInv'
  <2>1. PICK v : tx' = [tx EXCEPT ![c] = [op |-> "evaluate", priors |-> gates,
                                          gate |-> Gate(grade, Changed(grade), v, begun)]]
    BY <1>2 DEF EvaluateRead
  <2> PICK g : g = Gate(grade, Changed(grade), v, begun)
    OBVIOUS
  <2> PICK t : t = [op |-> "evaluate", priors |-> gates, gate |-> g]
    OBVIOUS
  <2>2. UNCHANGED <<row, work, gates, pipelines, decided>> /\ begun' = begun + 1
    BY <1>2 DEF EvaluateRead
  <2>3. /\ g.judged = Changed(grade) /\ g.stamp = begun
        /\ \A w \in g.judged : grade[w] = "critical" =>
             g.critical /\ ("critical" \in EnabledRules => ~g.eligible)
    BY GateIsTruthful
  <2>4. Truthful(g)'
    BY <2>2, <2>3 DEF Truthful, Changed, work
  <2>5. \A h \in gates : h.judged \subseteq g.judged
    BY <2>3 DEF JudgeInv, Truthful
  <2>6. g.stamp < begun'
    BY <1>n, <2>2, <2>3
  <2>7. Sound(t)'
    BY <2>4, <2>5, <2>6 DEF Sound
  <2>8. tx' = [tx EXCEPT ![c] = t]
    BY <2>1
  <2> QED
    BY <1>c, <2>2, <2>7, <2>8, JudgeBegins
<1>3. ASSUME NEW c \in Clients, NEW verdict \in Verdicts, NEW override \in BOOLEAN,
             DecideRead(c, verdict, override)
      PROVE  JudgeInv'
  <2>1. PICK v \in Picked :
          tx' = [tx EXCEPT ![c] =
                  [op |-> "decide", verdict |-> verdict, status |-> status, code |-> code,
                   pr |-> v, prStatus |-> IF v = NoVersion THEN "none" ELSE prs[v],
                   first |-> jobs["pipeline"] = "none"]]
    BY <1>3 DEF DecideRead
  <2> PICK t : t = [op |-> "decide", verdict |-> verdict, status |-> status, code |-> code,
                    pr |-> v, prStatus |-> IF v = NoVersion THEN "none" ELSE prs[v],
                    first |-> jobs["pipeline"] = "none"]
    OBVIOUS
  <2>2. UNCHANGED <<row, work, gates, pipelines, decided>> /\ begun' = begun
    BY <1>3 DEF DecideRead
  <2>3. PullRequests' = PullRequests
    BY <2>2 DEF PullRequests, work
  <2>4. t.op = "decide" /\ t.pr = v /\ t.status = status /\ t.code = code
        /\ tx' = [tx EXCEPT ![c] = t]
    BY <2>1
  <2>5. v \in PullRequests \union {NoVersion}
    BY DEF Picked
  <2>6. status = "pr_ready" => code \in PullRequests
    BY DEF JudgeInv
  <2>7. Sound(t)'
    BY <2>3, <2>4, <2>5, <2>6 DEF Sound
  <2> QED
    BY <1>c, <2>2, <2>4, <2>7, JudgeBegins
<1>4. ASSUME NEW p \in Procs, BeginsRun(p) PROVE JudgeInv'
  <2> PICK t : t = [op |-> "run", stamp |-> begun]
    OBVIOUS
  <2>1. /\ UNCHANGED <<row, work, gates, pipelines, decided>> /\ begun' = begun + 1
        /\ tx' = [tx EXCEPT ![p] = t]
    BY <1>4 DEF BeginsRun, BeginRun, TaskStays
  <2>2. t.stamp < begun'
    BY <1>n, <2>1
  <2>3. Sound(t)'
    BY <2>2 DEF Sound
  <2> QED
    BY <2>1, <2>3, JudgeBegins
<1>5. ASSUME NEW p \in Procs, BeginsPipeline(p) PROVE JudgeInv'
  <2> PICK t : t = [op |-> "pipeline", code |-> code, count |-> Len(pipelines)]
    OBVIOUS
  <2>1. /\ UNCHANGED <<row, work, gates, pipelines, decided>> /\ begun' = begun
        /\ tx' = [tx EXCEPT ![p] = t] /\ runs' = runs /\ code <= runs
    BY <1>5 DEF BeginsPipeline, BeginPipeline, TaskStays, work, JudgeInv
  <2>2. Sound(t)'
    BY <2>1 DEF Sound
  <2> QED
    BY <2>1, <2>2, JudgeBegins
<1>6. ASSUME NEW p \in Procs, Leaves(p) PROVE JudgeInv'
  <2>1. PICK t : Passive(t) /\ tx' = [tx EXCEPT ![p] = t]
    BY <1>6 DEF Leaves
  <2>2. UNCHANGED <<row, work, gates, pipelines, decided>> /\ begun' = begun
    BY <1>6 DEF Leaves, TaskStays
  <2> QED
    BY <2>1, <2>2, PassiveIsSound, JudgeBegins
<1>7. CASE Stops
  <2>1. UNCHANGED <<row, work, gates, pipelines, decided>> /\ begun' = begun
    BY <1>7 DEF Stops, TaskStays
  <2>2. \A p \in Procs : tx'[p] = tx[p] \/ tx'[p] = Idle
    BY <1>7, AllStop, HasShape
  <2>3. \A p \in Procs : tx'[p] = tx[p] \/ Sound(tx[p])'
    BY <2>2 DEF Sound, Idle
  <2> QED
    BY <2>1, <2>3, JudgeReads
<1> QED
  BY <1>1, <1>2, <1>3, <1>4, <1>5, <1>6, <1>7, StepCases, EvaluationKeepsJudge,
     DecisionKeepsJudge, PipelineKeepsJudge DEF StepKinds

\* Unless an evaluation ever crossed a run: a run and an evaluation are not in
\* flight together, the gate rows have looked at the same versions, and so will
\* those that the evaluations in flight put in their place.
NoneCrosses == \A p, q \in Procs : ~(tx[p].op = "run" /\ tx[q].op = "evaluate")

LooksAtAll(t) ==
  t.op = "evaluate" =>
    /\ t.gate.judged = Changed(grade)
    /\ \A g \in gates : g \in t.priors \/ g.judged = Changed(grade)

AllTheSame ==
  ~mixed => /\ NoneCrosses
            /\ \A g, h \in gates : g.judged = h.judged
            /\ \A p \in Procs : LooksAtAll(tx[p])

\* No pipeline of a published version has passed its scan over a critical
\* finding.
Scanned ==
  ~mixed => \A i \in DOMAIN pipelines :
              (/\ pipelines[i].status = "awaiting_production"
               /\ pipelines[i].code \in PullRequests) => grade[pipelines[i].code] # "critical"

LEMMA SameInit == Init => AllTheSame
<1> SUFFICES ASSUME Init PROVE AllTheSame
  OBVIOUS
<1>1. gates = {} /\ \A p \in Procs : tx[p] = Idle
  BY DEF Init
<1>2. Idle.op # "run" /\ Idle.op # "evaluate"
  BY DEF Idle
<1> QED
  BY <1>1, <1>2 DEF AllTheSame, NoneCrosses, LooksAtAll

\* Nobody writes a version or a gate row, or begins a run or an evaluation.
LEMMA SameKept ==
  ASSUME AllTheSame, UNCHANGED <<grade, gates>>, mixed' = mixed,
         \A p \in Procs : tx'[p] = tx[p] \/ tx'[p].op \notin {"run", "evaluate"}
  PROVE  AllTheSame'
<1> SUFFICES ASSUME ~mixed
             PROVE  /\ NoneCrosses' /\ \A g, h \in gates' : g.judged = h.judged
                    /\ \A p \in Procs : LooksAtAll(tx[p])'
  BY DEF AllTheSame
<1>1. NoneCrosses'
  BY DEF AllTheSame, NoneCrosses
<1>2. ASSUME NEW p \in Procs PROVE LooksAtAll(tx[p])'
  <2>1. CASE tx'[p] = tx[p]
    BY <2>1 DEF AllTheSame, LooksAtAll, Changed
  <2>2. CASE tx'[p].op # "evaluate"
    BY <2>2 DEF LooksAtAll
  <2> QED
    BY <2>1, <2>2
<1> QED
  BY <1>1, <1>2 DEF AllTheSame

LEMMA SameStep == TypeInv /\ JudgeInv /\ AllTheSame /\ [Next]_vars => AllTheSame'
<1> SUFFICES ASSUME TypeInv, JudgeInv, AllTheSame, [Next]_vars PROVE AllTheSame'
  OBVIOUS
<1>c. \A c \in Clients : c \in Procs
  BY DEF Procs
<1>i. Idle.op \notin {"run", "evaluate"} /\ TxShape
  BY HasShape DEF Idle
<1>e. ASSUME NEW p \in Procs, NEW t, tx' = [tx EXCEPT ![p] = t], t.op \notin {"run", "evaluate"},
             UNCHANGED <<grade, gates>>, mixed' = mixed
      PROVE  AllTheSame'
  <2>1. tx'[p] = t /\ \A q \in Procs \ {p} : tx'[q] = tx[q]
    BY <1>e, <1>i, OneMoves
  <2>2. \A q \in Procs : tx'[q] = tx[q] \/ tx'[q].op \notin {"run", "evaluate"}
    BY <1>e, <2>1
  <2> QED
    BY <1>e, <2>2, SameKept
<1>u. TaskStays => UNCHANGED <<grade, gates>>
  BY DEF TaskStays, work
<1>1. ASSUME NEW p \in Procs, NEW outcome \in DOMAIN Kept, RunCommit(p, outcome)
      PROVE  AllTheSame'
  <2>1. /\ tx[p].op = "run" /\ tx' = [tx EXCEPT ![p] = Idle] /\ mixed' = mixed
    BY <1>1 DEF RunCommit, raced
  <2>2. tx'[p] = Idle /\ \A q \in Procs \ {p} : tx'[q] = tx[q]
    BY <1>i, <2>1, OneMoves
  <2> SUFFICES ASSUME ~mixed
               PROVE  /\ NoneCrosses' /\ \A g, h \in gates' : g.judged = h.judged
                      /\ \A q \in Procs : LooksAtAll(tx[q])'
    BY <2>1 DEF AllTheSame
  <2>3. \A q \in Procs : tx[q].op # "evaluate"
    BY <2>1 DEF AllTheSame, NoneCrosses
  <2>4. \A q \in Procs : tx'[q].op # "evaluate"
    BY <1>i, <2>2, <2>3
  <2>5. NoneCrosses' /\ \A q \in Procs : LooksAtAll(tx[q])'
    BY <2>4 DEF NoneCrosses, LooksAtAll
  <2>6. gates' = gates \/ \E g : gates' = {g}
    BY <1>1, RunWrites
  <2> QED
    BY <2>5, <2>6 DEF AllTheSame
<1>2. ASSUME NEW c \in Clients, EvaluateRead(c) PROVE AllTheSame'
  <2>1. PICK v : tx' = [tx EXCEPT ![c] = [op |-> "evaluate", priors |-> gates,
                                          gate |-> Gate(grade, Changed(grade), v, begun)]]
    BY <1>2 DEF EvaluateRead
  <2> PICK g : g = Gate(grade, Changed(grade), v, begun)
    OBVIOUS
  <2> PICK t : t = [op |-> "evaluate", priors |-> gates, gate |-> g]
    OBVIOUS
  <2>2. UNCHANGED <<grade, gates>> /\ mixed' = (mixed \/ Doing("run") # {})
    BY <1>2 DEF EvaluateRead, work
  <2>3. tx' = [tx EXCEPT ![c] = t]
    BY <2>1
  <2>4. tx'[c] = t /\ \A q \in Procs \ {c} : tx'[q] = tx[q]
    BY <1>c, <1>i, <2>3, OneMoves
  <2>5. g.judged = Changed(grade)
    BY GateIsTruthful
  <2> SUFFICES ASSUME ~mixed, Doing("run") = {}
               PROVE  /\ NoneCrosses' /\ \A h, k \in gates' : h.judged = k.judged
                      /\ \A q \in Procs : LooksAtAll(tx[q])'
    BY <2>2 DEF AllTheSame
  <2>6. \A q \in Procs : tx'[q].op # "run"
    BY <2>4 DEF Doing
  <2>7. NoneCrosses'
    BY <2>6 DEF NoneCrosses
  <2>8. LooksAtAll(tx[c])'
    BY <2>2, <2>4, <2>5 DEF LooksAtAll, Changed
  <2>9. \A q \in Procs \ {c} : LooksAtAll(tx[q])'
    BY <2>2, <2>4 DEF AllTheSame, LooksAtAll, Changed
  <2> QED
    BY <2>2, <2>7, <2>8, <2>9 DEF AllTheSame
<1>3. ASSUME NEW c \in Clients, EvaluateCommit(c) PROVE AllTheSame'
  <2> PICK t : t = tx[c]
    OBVIOUS
  <2>1. /\ t.op = "evaluate" /\ gates' = Replaced(t.priors, t.gate)
        /\ tx' = [tx EXCEPT ![c] = Idle] /\ grade' = grade /\ mixed' = mixed
    BY <1>3 DEF EvaluateCommit, work, raced
  <2>2. tx'[c] = Idle /\ \A q \in Procs \ {c} : tx'[q] = tx[q]
    BY <1>c, <1>i, <2>1, OneMoves
  <2> SUFFICES ASSUME ~mixed
               PROVE  /\ NoneCrosses' /\ \A g, h \in gates' : g.judged = h.judged
                      /\ \A q \in Procs : LooksAtAll(tx[q])'
    BY <2>1 DEF AllTheSame
  <2>3. NoneCrosses'
    BY <1>i, <2>2 DEF AllTheSame, NoneCrosses
  <2>4. LooksAtAll(t)
    BY <1>c DEF AllTheSame
  <2>5. \A g \in gates' : g.judged = Changed(grade)
    BY <2>1, <2>4 DEF LooksAtAll, Replaced
  <2>6. ASSUME NEW q \in Procs, tx'[q].op = "evaluate"
        PROVE  LooksAtAll(tx[q])'
    <3>1. tx'[q] = tx[q]
      BY <1>i, <2>2, <2>6
    <3>2. LooksAtAll(tx[q])
      BY DEF AllTheSame
    <3> QED
      BY <2>1, <2>5, <3>1, <3>2 DEF LooksAtAll, Changed
  <2> QED
    BY <2>3, <2>5, <2>6 DEF LooksAtAll
<1>4. ASSUME NEW p \in Procs, BeginsRun(p) PROVE AllTheSame'
  <2> PICK t : t = [op |-> "run", stamp |-> begun]
    OBVIOUS
  <2>1. /\ UNCHANGED <<grade, gates>> /\ mixed' = (mixed \/ Doing("evaluate") # {})
        /\ tx' = [tx EXCEPT ![p] = t] /\ t.op = "run"
    BY <1>4, <1>u DEF BeginsRun, BeginRun
  <2>2. tx'[p] = t /\ \A q \in Procs \ {p} : tx'[q] = tx[q]
    BY <1>i, <2>1, OneMoves
  <2> SUFFICES ASSUME ~mixed, Doing("evaluate") = {}
               PROVE  /\ NoneCrosses' /\ \A h, k \in gates' : h.judged = k.judged
                      /\ \A q \in Procs : LooksAtAll(tx[q])'
    BY <2>1 DEF AllTheSame
  <2>3. \A q \in Procs : tx'[q].op # "evaluate"
    BY <2>1, <2>2 DEF Doing
  <2> QED
    BY <2>1, <2>3 DEF AllTheSame, NoneCrosses, LooksAtAll
<1>5. ASSUME NEW c \in Clients, NEW verdict \in Verdicts, NEW override \in BOOLEAN,
             DecideRead(c, verdict, override)
      PROVE  AllTheSame'
  <2>1. PICK v, s :
          tx' = [tx EXCEPT ![c] =
                  [op |-> "decide", verdict |-> verdict, status |-> status, code |-> code,
                   pr |-> v, prStatus |-> s, first |-> jobs["pipeline"] = "none"]]
    BY <1>5 DEF DecideRead
  <2> PICK t : t = [op |-> "decide", verdict |-> verdict, status |-> status, code |-> code,
                    pr |-> v, prStatus |-> s, first |-> jobs["pipeline"] = "none"]
    OBVIOUS
  <2>2. t.op \notin {"run", "evaluate"} /\ tx' = [tx EXCEPT ![c] = t]
    BY <2>1
  <2>3. UNCHANGED <<grade, gates>> /\ mixed' = mixed
    BY <1>5 DEF DecideRead, work, raced
  <2> QED
    BY <1>c, <1>e, <2>2, <2>3
<1>6. ASSUME NEW p \in Procs, \/ p \in Clients /\ DecideCommit(p)
                              \/ PipelineCommit(p) \/ BeginsPipeline(p) \/ Leaves(p)
      PROVE  AllTheSame'
  <2>1. UNCHANGED <<grade, gates>> /\ mixed' = mixed
    BY <1>6, <1>u DEF DecideCommit, PipelineCommit, BeginsPipeline, Leaves, work, raced
  <2>2. \E t : tx' = [tx EXCEPT ![p] = t] /\ t.op \notin {"run", "evaluate"}
    <3>1. CASE DecideCommit(p) \/ PipelineCommit(p)
      BY <1>i, <3>1 DEF DecideCommit, PipelineCommit
    <3>2. CASE BeginsPipeline(p)
      <4> PICK t : t = [op |-> "pipeline", code |-> code, count |-> Len(pipelines)]
        OBVIOUS
      <4>1. t.op = "pipeline" /\ tx' = [tx EXCEPT ![p] = t]
        BY <3>2 DEF BeginsPipeline, BeginPipeline
      <4> QED
        BY <4>1
    <3>3. CASE Leaves(p)
      BY <3>3 DEF Leaves, Passive
    <3> QED
      BY <1>6, <3>1, <3>2, <3>3
  <2> QED
    BY <1>e, <2>1, <2>2
<1>7. CASE Stops
  <2>1. \A p \in Procs : tx'[p] = tx[p] \/ tx'[p] = Idle
    BY <1>7, <1>i, AllStop
  <2>2. UNCHANGED <<grade, gates>> /\ mixed' = mixed
    BY <1>7, <1>u DEF Stops, raced
  <2> QED
    BY <1>i, <2>1, <2>2, SameKept
<1> QED
  BY <1>c, <1>1, <1>2, <1>3, <1>4, <1>5, <1>6, <1>7, StepCases DEF StepKinds

\* There is a newest gate row as soon as there is one: stamps are bounded.
LEMMA SomeLatest ==
  ASSUME TypeInv, JudgeInv, gates # {}
  PROVE  \E g \in gates : g \in Latest
<1> DEFINE Ages == {begun - g.stamp : g \in gates}
           Less == OpToRel(<, Nat)
<1>1. begun \in Nat /\ \A g \in gates : g.stamp \in Nat /\ g.stamp < begun
  BY JudgeTypes DEF JudgeInv
<1>2. Ages \subseteq Nat /\ Ages # {}
  BY <1>1
<1>3. PICK a \in Ages : \A b \in Ages : ~(<<b, a>> \in Less)
  <2> HIDE DEF Ages
  <2> QED
    BY <1>2, NatLessThanWellFounded, WFMin
<1>4. PICK g \in gates : a = begun - g.stamp
  OBVIOUS
<1>5. ASSUME NEW h \in gates PROVE h.stamp <= g.stamp
  <2>1. begun - h.stamp \in Ages /\ begun - h.stamp \in Nat
    BY <1>2
  <2>2. ~(begun - h.stamp < a) /\ a \in Nat
    BY <1>2, <1>3, <2>1 DEF OpToRel
  <2> QED
    BY <1>1, <1>4, <2>2
<1> QED
  BY <1>4, <1>5 DEF Latest

\* The scan stops what a gate row has found in the version that is built.
LEMMA ScanStops ==
  ASSUME TypeInv, JudgeInv, AllTheSame, ~mixed, NEW v \in PullRequests, ScanPasses
  PROVE  grade[v] # "critical"
<1>1. PICK g \in gates : v \in g.judged
  BY DEF JudgeInv, Judged
<1>2. PICK h \in gates : h \in Latest
  BY <1>1, SomeLatest
<1>3. v \in h.judged
  BY <1>1, <1>2 DEF AllTheSame
<1>4. Truthful(h)
  BY DEF JudgeInv
<1>5. ~h.critical
  BY <1>2 DEF ScanPasses
<1> QED
  BY <1>3, <1>4, <1>5 DEF Truthful

LEMMA ScannedStep ==
  TypeInv /\ JudgeInv /\ AllTheSame /\ Scanned /\ [Next]_vars => Scanned'
<1> SUFFICES ASSUME TypeInv, JudgeInv, AllTheSame, Scanned, [Next]_vars, ~mixed', ~mixed
             PROVE  \A i \in DOMAIN pipelines' :
                      (/\ pipelines'[i].status = "awaiting_production"
                       /\ pipelines'[i].code \in PullRequests') =>
                        grade'[pipelines'[i].code] # "critical"
  <2>1. ASSUME [Next]_vars, mixed PROVE mixed'
    BY <2>1, StepCases DEF StepKinds, RunCommit, EvaluateRead, EvaluateCommit, DecideRead,
       DecideCommit, PipelineCommit, BeginsRun, BeginRun, BeginsPipeline, Leaves, Stops, raced
  <2> QED
    BY <2>1 DEF Scanned
<1>c. \A c \in Clients : c \in Procs
  BY DEF Procs
<1>0. \A i \in DOMAIN pipelines :
        (/\ pipelines[i].status = "awaiting_production"
         /\ pipelines[i].code \in PullRequests) => grade[pipelines[i].code] # "critical"
  BY DEF Scanned
<1>k. ASSUME PullRequests' = PullRequests, UNCHANGED <<grade, pipelines>>
      PROVE  \A i \in DOMAIN pipelines' :
               (/\ pipelines'[i].status = "awaiting_production"
                /\ pipelines'[i].code \in PullRequests') =>
                 grade'[pipelines'[i].code] # "critical"
  BY <1>0, <1>k
<1>u. TaskStays => PullRequests' = PullRequests /\ UNCHANGED <<grade, pipelines>>
  BY DEF TaskStays, work, PullRequests
<1>1. ASSUME NEW p \in Procs, NEW outcome \in DOMAIN Kept, RunCommit(p, outcome)
      PROVE  \A i \in DOMAIN pipelines' :
               (/\ pipelines'[i].status = "awaiting_production"
                /\ pipelines'[i].code \in PullRequests') =>
                 grade'[pipelines'[i].code] # "critical"
  <2>1. pipelines' = pipelines
    BY <1>1 DEF RunCommit
  <2> SUFFICES ASSUME NEW i \in DOMAIN pipelines,
                      pipelines[i].status = "awaiting_production",
                      pipelines[i].code \in PullRequests'
               PROVE  grade'[pipelines[i].code] # "critical"
    BY <2>1
  <2>2. pipelines[i].code # runs + 1
    <3>1. pipelines[i].code <= runs /\ runs \in Nat /\ pipelines[i].code \in Nat
      BY JudgeTypes DEF JudgeInv
    <3> QED
      BY ONLY <3>1
  <2>3. PullRequests' \subseteq PullRequests \union {runs + 1}
    <3>1. prs' = prs => PullRequests' = PullRequests
      BY DEF PullRequests
    <3> QED
      BY <1>1, <3>1, RunWrites
  <2>4. pipelines[i].code \in PullRequests
    BY <2>2, <2>3
  <2>5. pipelines[i].code \in Changed(grade)
    BY <2>4 DEF JudgeInv, Judged, Truthful
  <2>6. \A w \in Changed(grade) : grade'[w] = grade[w]
    BY <1>1, RunWrites
  <2> QED
    BY <1>0, <2>4, <2>5, <2>6
<1>2. ASSUME NEW p \in Procs, PipelineCommit(p)
      PROVE  \A i \in DOMAIN pipelines' :
               (/\ pipelines'[i].status = "awaiting_production"
                /\ pipelines'[i].code \in PullRequests') =>
                 grade'[pipelines'[i].code] # "critical"
  <2>1. PICK r \in Results(tx[p].code) :
          /\ DOMAIN pipelines' = DOMAIN pipelines \union {Len(pipelines) + 1}
          /\ pipelines'[Len(pipelines) + 1] = [code |-> tx[p].code, status |-> r]
          /\ \A i \in DOMAIN pipelines : pipelines'[i] = pipelines[i]
    BY <1>2, PipelineAdds
  <2>2. PullRequests' = PullRequests /\ grade' = grade
    BY <1>2 DEF PipelineCommit, work, PullRequests
  <2>3. r = "awaiting_production" /\ tx[p].code \in PullRequests => grade[tx[p].code] # "critical"
    BY ScanStops DEF Results
  <2> QED
    BY <1>0, <2>1, <2>2, <2>3
<1>3. ASSUME NEW c \in Clients, DecideCommit(c)
      PROVE  PullRequests' = PullRequests /\ UNCHANGED <<grade, pipelines>>
  BY <1>3, DecisionKeepsPullRequests DEF DecideCommit
<1>4. ASSUME NEW c \in Clients, \/ EvaluateRead(c) \/ EvaluateCommit(c)
                                \/ \E v \in Verdicts, o \in BOOLEAN : DecideRead(c, v, o)
      PROVE  PullRequests' = PullRequests /\ UNCHANGED <<grade, pipelines>>
  BY <1>4 DEF EvaluateRead, EvaluateCommit, DecideRead, work, PullRequests
<1>5. ASSUME NEW p \in Procs, BeginsRun(p) \/ BeginsPipeline(p) \/ Leaves(p)
      PROVE  PullRequests' = PullRequests /\ UNCHANGED <<grade, pipelines>>
  BY <1>5, <1>u DEF BeginsRun, BeginsPipeline, Leaves
<1>6. CASE Stops
  BY <1>6, <1>k, <1>u DEF Stops
<1> QED
  BY <1>k, <1>1, <1>2, <1>3, <1>4, <1>5, <1>6, StepCases DEF StepKinds

\* Critical findings are stopped, for any clients, whoever runs the workflow
\* and whichever rules are on: what waits for approval has been judged, and
\* unless an evaluation crossed a run the newest gate row has judged it, so
\* the scan of every pipeline sees what that row saw.
THEOREM CriticalIsStoppedCorrect == Spec => []CriticalIsStopped
<1>1. TypeInv /\ JudgeInv /\ AllTheSame /\ Scanned => CriticalIsStopped
  <2> SUFFICES ASSUME TypeInv, JudgeInv, AllTheSame, Scanned PROVE CriticalIsStopped
    OBVIOUS
  <2>1. ASSUME status = "pr_ready"
        PROVE  /\ \E g \in gates : Judges(g, code)
               /\ ~mixed => \E g \in Latest : Judges(g, code)
    <3>1. PICK g \in gates : code \in g.judged
      BY <2>1 DEF JudgeInv, Judged
    <3>2. \A h \in gates : code \in h.judged => Judges(h, code)
      BY DEF JudgeInv, Truthful, Judges
    <3>3. PICK h \in gates : h \in Latest
      BY <3>1, SomeLatest
    <3>4. ~mixed => code \in h.judged
      BY <3>1 DEF AllTheSame
    <3> QED
      BY <3>1, <3>2, <3>3, <3>4
  <2>2. CriticalNeverStaged
    BY DEF CriticalNeverStaged, Scanned, JudgeInv
  <2> QED
    BY <2>1, <2>2 DEF CriticalIsStopped, PrReadyIsJudged
<1>2. Init => Scanned
  BY DEF Init, Scanned
<1> QED
  BY <1>1, <1>2, TypeInit, TypeStep, JudgeInit, JudgeStep, SameInit, SameStep, ScannedStep, PTL
     DEF Spec

-----------------------------------------------------------------------------
(***************************************************************************)
(* The branch of the task.  DevTask has a run's changes as a version of    *)
(* the code; what a version is made of, the commits and the rows that tell *)
(* of them, is Sandbox.  The invariant: the rows marked applied tell what  *)
(* the commits have changed, all but one that is not judged yet, and what  *)
(* a pending edit would go back to is as good as main was.                 *)
(***************************************************************************)

\* Whatever the files are, a tree has one or none at each path, and an edit that
\* is committed and not judged is the last commit.
Shape ==
  /\ \E F : base \in [Paths -> F] /\ log \in Seq([Paths -> F])
  /\ \E R : rows \in Seq(R)
  /\ edits \in Nat /\ slow \in Nat
  /\ edits = 0 => pending = NoEdit

\* The edit is all that its commit has changed.
OnePath ==
  pending # NoEdit =>
    /\ pending.path \in Paths
    /\ log # <<>> /\ pending.checkpoint = Len(log) - 1
    /\ Tip = [Before(Len(log)) EXCEPT ![pending.path] = Tip[pending.path]]

\* The tests do not fail in a tree, and what is there compiles, if both was so
\* on main.
Green(tree) ==
  /\ PytestRun(base) # "failed" => PytestRun(tree) # "failed"
  /\ \A p \in Paths :
       tree[p] # NoFile /\ Parses(base[p]) => ~CompileFails(tree[p])

\* What the branch is without the edit that is not judged.
Checkpoint == IF pending = NoEdit THEN Tip ELSE Before(Len(log))

GreenInv == slow = 0 /\ task # "implemented" => Green(Checkpoint)

\* The rows tell the first n commits.
Tells(n) ==
  /\ \A i \in Applied : rows[i].commit \in 1..n /\ log[rows[i].commit][rows[i].path] = rows[i].file
  /\ \A i, j \in Applied : rows[i].commit = rows[j].commit /\ rows[i].path = rows[j].path => i = j
  /\ untold \subseteq 1..n
  /\ \A k \in 1..n \ untold, p \in Paths :
       log[k][p] # Before(k)[p] => \E i \in Applied : rows[i].commit = k /\ p \in Told(rows[i])

TellInv == Tells(IF pending = NoEdit THEN Len(log) ELSE Len(log) - 1)

BranchInv == Shape /\ OnePath /\ GreenInv /\ TellInv

-----------------------------------------------------------------------------

LEMMA TipIs ==
  ASSUME NEW F, log \in Seq([Paths -> F]), base \in [Paths -> F]
  PROVE  /\ log = <<>> => Tip = base
         /\ log # <<>> => Tip = log[Len(log)]
         /\ Tip \in [Paths -> F]
         /\ log # <<>> => Before(Len(log)) \in [Paths -> F]
<1>1. log # <<>> => Len(log) \in Nat \ {0} /\ log[Len(log)] \in [Paths -> F]
  OBVIOUS
<1>2. CASE log = <<>>
  BY <1>2 DEF Tip
<1>3. CASE log # <<>>
  <2>1. Tip = log[Len(log)]
    BY <1>3 DEF Tip, Last
  <2>2. Before(Len(log)) \in [Paths -> F]
    <3>0. \A n \in Nat \ {0} : n # 1 => n - 1 \in 1..n
      OBVIOUS
    <3>1. Len(log) # 1 => Len(log) - 1 \in 1..Len(log)
      BY <1>1, <1>3, <3>0
    <3>2. Len(log) # 1 => log[Len(log) - 1] \in [Paths -> F]
      BY <3>1, ElementOfSeq
    <3> QED
      BY <3>2 DEF Before
  <2> QED
    BY <1>1, <1>3, <2>1, <2>2
<1> QED
  BY <1>2, <1>3

LEMMA MoreFiles ==
  ASSUME NEW F, NEW f, NEW s \in Seq([Paths -> F])
  PROVE  s \in Seq([Paths -> F \union {f}])
<1>1. [Paths -> F] \subseteq [Paths -> F \union {f}]
  OBVIOUS
<1> QED
  BY <1>1, SeqMonotonic

\* A reset by one commit.
LEMMA RollbackIs ==
  ASSUME NEW T, log \in Seq(T), log # <<>>, log' = SubSeq(log, 1, Len(log) - 1)
  PROVE  /\ log' \in Seq(T) /\ Len(log') = Len(log) - 1
         /\ \A k \in 1..(Len(log) - 1) : log'[k] = log[k]
         /\ Len(log) = 1 => log' = <<>>
         /\ Len(log) # 1 => log' # <<>> /\ Len(log) - 1 \in 1..(Len(log) - 1)
<1>1. PICK n \in Nat \ {0} : n = Len(log)
  BY EmptySeq
<1>2. \A k \in 1..(n - 1) : log[k] \in T
  BY <1>1, ElementOfSeq
<1>3. n - 1 \in Int /\ 1 <= n - 1 + 1 /\ \A k \in 1..(n - 1) : 1 + k - 1 = k
  OBVIOUS
<1>4. /\ log' \in Seq(T)
      /\ Len(log') = IF 1 <= n - 1 THEN (n - 1) - 1 + 1 ELSE 0
      /\ \A k \in 1..((n - 1) - 1 + 1) : log'[k] = log[1 + k - 1]
  BY <1>1, <1>2, <1>3, SubSeqProperties
<1>5. Len(log') = n - 1
  BY <1>4
<1>6. \A k \in 1..(n - 1) : log'[k] = log[k]
  BY <1>3, <1>4
<1>7. n = 1 => log' = <<>>
  BY <1>4, <1>5, EmptySeq
<1>8. n # 1 => n - 1 \in 1..(n - 1) /\ n - 1 # 0
  OBVIOUS
<1>9. n # 1 => log' # <<>>
  BY <1>5, <1>8, EmptySeq
<1> QED
  BY <1>1, <1>4, <1>5, <1>6, <1>7, <1>8, <1>9

LEMMA AnyAppend ==
  ASSUME NEW S, NEW s \in Seq(S), NEW e
  PROVE  Append(s, e) \in Seq(S \union {e})
<1>1. s \in Seq(S \union {e}) /\ e \in S \union {e}
  BY SeqMonotonic
<1> QED
  BY <1>1, AppendProperties

\* A row more: it is the last of those that are applied, or not one of them.
LEMMA RowMore ==
  ASSUME NEW R, rows \in Seq(R), NEW r, rows' = Append(rows, r), NEW last, last = Len(rows) + 1
  PROVE  /\ r.status # "applied" => Applied' = Applied
         /\ r.status = "applied" => Applied' = Applied \union {last}
         /\ last \notin Applied
         /\ \A i \in Applied : rows'[i] = rows[i]
         /\ rows'[last] = r
<1>1. /\ Len(rows) \in Nat /\ Len(rows') = last
      /\ \A i \in 1..Len(rows) : rows'[i] = rows[i]
      /\ rows'[last] = r
      /\ DOMAIN rows = 1..Len(rows) /\ DOMAIN rows' = 1..last
  OBVIOUS
<1>2. Applied \subseteq 1..Len(rows) /\ last \notin 1..Len(rows)
  BY <1>1 DEF Applied
<1>3. r.status # "applied" => Applied' = Applied
  BY <1>1 DEF Applied
<1>4. r.status = "applied" => Applied' = Applied \union {last}
  BY <1>1 DEF Applied
<1> QED
  BY <1>1, <1>2, <1>3, <1>4

\* What is recorded of a judged edit: nothing that counts of one that is
\* reverted, and of one that is kept a row or, for no task, none.
RowsStay == /\ Applied' = Applied /\ untold' = untold
            /\ \A i \in Applied : rows'[i] = rows[i]

NoRow == rows' = rows /\ untold' = untold \union {Len(log)}

RowAdded(last) ==
  /\ Applied' = Applied \union {last} /\ last \notin Applied /\ untold' = untold
  /\ \A i \in Applied : rows'[i] = rows[i]
  /\ rows'[last].path = pending.path /\ rows'[last].edit = pending.edit
  /\ rows'[last].commit = Len(log) /\ rows'[last].file = Tip[pending.path]
  /\ Told(rows'[last]) = {pending.path}

LEMMA RecordedIs ==
  ASSUME NEW R, rows \in Seq(R), NEW mark \in {"applied", "reverted"}, Recorded(mark)
  PROVE  /\ \E S : rows' \in Seq(S)
         /\ mark = "reverted" => RowsStay
         /\ mark = "applied" => NoRow \/ \E last : RowAdded(last)
<1> DEFINE r == [Row(ChangeType(pending.op), pending.path, pending.edit, Tip, Len(log))
                    EXCEPT !.status = mark]
<1>1. /\ r.status = mark /\ r.path = pending.path /\ r.edit = pending.edit
      /\ r.commit = Len(log) /\ r.file = Tip[pending.path]
  BY DEF Row
<1>2. Told(r) = {pending.path}
  <2>1. r.type = ChangeType(pending.op)
    BY DEF Row
  <2>2. ChangeType(pending.op) # "rename"
    BY DEF ChangeType
  <2> HIDE DEF r
  <2> QED
    BY <1>1, <2>1, <2>2 DEF Told
<1>3. \/ rows' = Append(rows, r) /\ untold' = untold
      \/ /\ untold' = IF mark = "applied" THEN untold \union {Len(log)} ELSE untold
         /\ rows' = rows
  BY DEF Recorded
<1> HIDE DEF r
<1>4. CASE rows' = Append(rows, r) /\ untold' = untold
  <2>1. PICK last : last = Len(rows) + 1
    OBVIOUS
  <2>2. /\ r.status # "applied" => Applied' = Applied
        /\ r.status = "applied" => Applied' = Applied \union {last}
        /\ last \notin Applied
        /\ \A i \in Applied : rows'[i] = rows[i]
        /\ rows'[last] = r
    BY <1>4, <2>1, RowMore
  <2>3. rows' \in Seq(R \union {r})
    BY <1>4, AnyAppend
  <2>4. mark = "applied" => RowAdded(last)
    BY <1>1, <1>2, <1>4, <2>2 DEF RowAdded
  <2>5. mark = "reverted" => RowsStay
    BY <1>1, <1>4, <2>2 DEF RowsStay
  <2> QED
    BY <2>3, <2>4, <2>5
<1>5. CASE /\ untold' = IF mark = "applied" THEN untold \union {Len(log)} ELSE untold
           /\ rows' = rows
  <2>1. Applied' = Applied
    BY <1>5 DEF Applied
  <2> QED
    BY <1>5, <2>1 DEF RowsStay, NoRow
<1> QED
  BY <1>3, <1>4, <1>5

LEMMA BeforeStays ==
  ASSUME NEW n \in Nat, NEW k \in 1..n, base' = base, \A j \in 1..n : log'[j] = log[j]
  PROVE  Before(k)' = Before(k)
<1>1. k # 1 => k - 1 \in 1..n
  OBVIOUS
<1>2. k # 1 => log'[k - 1] = log[k - 1]
  BY <1>1
<1> QED
  BY <1>2 DEF Before

\* The rows that tell the commits tell them as long as both stay.
LEMMA TellsStill ==
  ASSUME NEW n \in Nat, Tells(n), base' = base, \A k \in 1..n : log'[k] = log[k], RowsStay
  PROVE  Tells(n)'
<1>1. /\ Applied' = Applied /\ untold' = untold /\ \A i \in Applied : rows'[i] = rows[i]
      /\ \A k \in 1..n : log'[k] = log[k] /\ Before(k)' = Before(k)
  BY BeforeStays DEF RowsStay
<1>2. \A i \in Applied' : rows'[i].commit \in 1..n /\ log'[rows'[i].commit][rows'[i].path] = rows'[i].file
  BY <1>1 DEF Tells
<1>3. \A i, j \in Applied' : rows'[i].commit = rows'[j].commit /\ rows'[i].path = rows'[j].path => i = j
  BY <1>1 DEF Tells
<1>4. \A k \in 1..n \ untold, p \in Paths :
        log'[k][p] # Before(k)'[p] => \E i \in Applied' : rows'[i].commit = k /\ p \in Told(rows'[i])
  <2> TAKE k \in 1..n \ untold, p \in Paths
  <2> SUFFICES ASSUME log[k][p] # Before(k)[p]
               PROVE  \E i \in Applied' : rows'[i].commit = k /\ p \in Told(rows'[i])
    BY <1>1
  <2>1. PICK i \in Applied : rows[i].commit = k /\ p \in Told(rows[i])
    BY DEF Tells
  <2>2. rows'[i] = rows[i] /\ i \in Applied'
    BY <1>1
  <2> QED
    BY <2>1, <2>2
<1>5. untold' \subseteq 1..n
  BY <1>1 DEF Tells
<1> QED
  BY <1>1, <1>2, <1>3, <1>4, <1>5 DEF Tells

\* One commit more, of one path, with the row of that path or for no task.
LEMMA TellsMore ==
  ASSUME NEW n \in Nat, Tells(n), base' = base, log' = log, NEW m \in Nat, m = n + 1, m = Len(log),
         pending.path \in Paths, Tip = log[m],
         \A p \in Paths : log[m][p] # Before(m)[p] => p = pending.path,
         NoRow \/ \E last : RowAdded(last)
  PROVE  Tells(m)'
<1>1. 1..m = 1..n \union {m} /\ m \notin 1..n
  OBVIOUS
<1>2. log' = log /\ \A k \in 1..m : Before(k)' = Before(k)
  BY DEF Before
<1>3. CASE NoRow
  <2>1. /\ Applied' = Applied /\ rows' = rows /\ untold' = untold \union {m}
    BY <1>3 DEF NoRow, Applied
  <2>2. \A i \in Applied' : rows'[i].commit \in 1..m /\ log'[rows'[i].commit][rows'[i].path] = rows'[i].file
    BY <1>1, <1>2, <2>1 DEF Tells
  <2>3. \A i, j \in Applied' : rows'[i].commit = rows'[j].commit /\ rows'[i].path = rows'[j].path => i = j
    BY <2>1 DEF Tells
  <2>4. untold' \subseteq 1..m
    BY <1>1, <2>1 DEF Tells
  <2>5. 1..m \ untold' \subseteq 1..n \ untold
    BY <1>1, <2>1
  <2>6. \A k \in 1..m \ untold', p \in Paths :
          log'[k][p] # Before(k)'[p] => \E i \in Applied' : rows'[i].commit = k /\ p \in Told(rows'[i])
    BY <1>2, <2>1, <2>5 DEF Tells
  <2> QED
    BY <2>2, <2>3, <2>4, <2>6 DEF Tells
<1>4. ASSUME NEW last, RowAdded(last) PROVE Tells(m)'
  <2>1. /\ Applied' = Applied \union {last} /\ last \notin Applied /\ untold' = untold
        /\ \A i \in Applied : rows'[i] = rows[i]
        /\ rows'[last].path = pending.path /\ rows'[last].commit = m
        /\ rows'[last].file = log[m][pending.path] /\ Told(rows'[last]) = {pending.path}
    BY <1>4 DEF RowAdded
  <2>2. \A i \in Applied : rows'[i].commit \in 1..n /\ log'[rows'[i].commit][rows'[i].path] = rows'[i].file
    BY <1>2, <2>1 DEF Tells
  <2>3. \A i \in Applied' : rows'[i].commit \in 1..m /\ log'[rows'[i].commit][rows'[i].path] = rows'[i].file
    BY <1>1, <1>2, <2>1, <2>2
  <2>4. ASSUME NEW i \in Applied', NEW j \in Applied',
               rows'[i].commit = rows'[j].commit, rows'[i].path = rows'[j].path
        PROVE  i = j
    <3>1. i \in Applied => rows'[i].commit # m
      BY <1>1, <2>2
    <3>2. j \in Applied => rows'[j].commit # m
      BY <1>1, <2>2
    <3>3. i \in Applied /\ j \in Applied => i = j
      BY <2>1, <2>4 DEF Tells
    <3> QED
      BY <2>1, <2>4, <3>1, <3>2, <3>3
  <2>5. untold' \subseteq 1..m
    BY <1>1, <2>1 DEF Tells
  <2>6. ASSUME NEW k \in 1..m \ untold', NEW p \in Paths, log'[k][p] # Before(k)'[p]
        PROVE  \E i \in Applied' : rows'[i].commit = k /\ p \in Told(rows'[i])
    <3>1. CASE k = m
      <4>1. p = pending.path
        BY <1>2, <2>6, <3>1
      <4> QED
        BY <2>1, <3>1, <4>1
    <3>2. CASE k # m
      <4>1. k \in 1..n \ untold /\ log[k][p] # Before(k)[p]
        BY <1>1, <1>2, <2>1, <2>6, <3>2
      <4>2. PICK i \in Applied : rows[i].commit = k /\ p \in Told(rows[i])
        BY <4>1 DEF Tells
      <4>3. i \in Applied' /\ rows'[i] = rows[i]
        BY <2>1
      <4> QED
        BY <4>2, <4>3
    <3> QED
      BY <3>1, <3>2
  <2> QED
    BY <2>3, <2>4, <2>5, <2>6 DEF Tells
<1> QED
  BY <1>3, <1>4

-----------------------------------------------------------------------------

LEMMA BranchInit == SandboxInit => BranchInv
<1> SUFFICES ASSUME SandboxInit PROVE BranchInv
  OBVIOUS
<1>1. PICK source \in Sources :
        base = [p \in Paths |-> IF p = "target" THEN source ELSE NoFile]
  BY DEF SandboxInit
<1>2. /\ log = <<>> /\ rows = <<>> /\ pending = NoEdit /\ edits = 0 /\ slow = 0
      /\ Tip = base
  BY DEF SandboxInit, Tip
<1>3. Shape
  <2>1. /\ base \in [Paths -> {source, NoFile}]
        /\ log \in Seq([Paths -> {source, NoFile}]) /\ rows \in Seq({})
    BY <1>1, <1>2
  <2> QED
    BY <1>2, <2>1 DEF Shape
<1>4. OnePath
  BY <1>2 DEF OnePath
<1>5. GreenInv
  BY <1>2 DEF GreenInv, Checkpoint, Green, CompileFails
<1>6. TellInv
  <2>1. Applied = {} /\ untold = {} /\ Len(log) = 0 /\ 1..0 = {}
    BY <1>2 DEF Applied, SandboxInit
  <2> QED
    BY <1>2, <2>1 DEF TellInv, Tells
<1> QED
  BY <1>3, <1>4, <1>5, <1>6 DEF BranchInv

\* A plan has one path changed, or two by a rename, and the row of its own tree.
PlanOf(spec, plan, S) ==
  \/ /\ plan[1] = [base EXCEPT !["target"] = S]
     /\ \E type : type # "rename" /\ plan[2] = Row(type, "target", spec, plan[1], 1)
  \/ /\ plan[1] = [base EXCEPT !["target"] = S, !["moved"] = base["target"]]
     /\ plan[2] = Row("rename", "moved", spec, plan[1], 1)

LEMMA PlanIs ==
  ASSUME NEW spec, NEW plan \in Plans(spec)
  PROVE  \E S : PlanOf(spec, plan, S)
<1> DEFINE deleted == [base EXCEPT !["target"] = NoFile]
           moved == [base EXCEPT !["target"] = NoFile, !["moved"] = base["target"]]
<1>1. CASE base["target"] # NoFile /\ spec.op = "delete_file"
  <2>1. plan = <<deleted, Row("delete", "target", spec, deleted, 1)>>
    BY <1>1 DEF Plans
  <2> HIDE DEF deleted
  <2>2. plan[1] = deleted /\ plan[2] = Row("delete", "target", spec, plan[1], 1)
    BY <2>1
  <2>3. PlanOf(spec, plan, NoFile)
    BY <2>2 DEF deleted, PlanOf
  <2> QED
    BY <2>3
<1>2. CASE base["target"] # NoFile /\ spec.op = "rename_file"
  <2>1. plan = <<moved, Row("rename", "moved", spec, moved, 1)>>
    BY <1>2 DEF Plans
  <2> HIDE DEF moved
  <2>2. plan[1] = moved /\ plan[2] = Row("rename", "moved", spec, plan[1], 1)
    BY <2>1
  <2>3. PlanOf(spec, plan, NoFile)
    BY <2>2 DEF moved, PlanOf
  <2> QED
    BY <2>3
<1>3. CASE base["target"] # NoFile /\ spec.op \notin {"delete_file", "rename_file"}
  <2>1. PICK S :
          plan = <<[base EXCEPT !["target"] = S],
                   Row("modify", "target", spec, [base EXCEPT !["target"] = S], 1)>>
    BY <1>3 DEF Plans
  <2>2. PlanOf(spec, plan, S)
    BY <2>1 DEF PlanOf
  <2> QED
    BY <2>2
<1>4. CASE base["target"] = NoFile
  <2>1. PICK S :
          plan = <<[base EXCEPT !["target"] = S],
                   Row("create", "target", spec, [base EXCEPT !["target"] = S], 1)>>
    BY <1>4 DEF Plans
  <2>2. PlanOf(spec, plan, S)
    BY <2>1 DEF PlanOf
  <2> QED
    BY <2>2
<1> QED
  BY <1>1, <1>2, <1>3, <1>4

\* The tree of a plan, and its row: what the commit leaves at the path.
LEMMA PlanTells ==
  ASSUME NEW F, base \in [Paths -> F], NEW spec, NEW plan \in Plans(spec)
  PROVE  /\ \E S : plan[1] \in [Paths -> F \union {S}]
         /\ plan[2].status = "applied" /\ plan[2].commit = 1
         /\ plan[1][plan[2].path] = plan[2].file
         /\ \A p \in Paths : plan[1][p] # base[p] => p \in Told(plan[2])
<1>1. PICK S : PlanOf(spec, plan, S)
  BY PlanIs
<1>2. CASE /\ plan[1] = [base EXCEPT !["target"] = S]
           /\ \E type : type # "rename" /\ plan[2] = Row(type, "target", spec, plan[1], 1)
  <2>1. plan[1] \in [Paths -> F \union {S}] /\ \A p \in Paths : p # "target" => plan[1][p] = base[p]
    BY <1>2 DEF Paths
  <2>2. /\ plan[2].status = "applied" /\ plan[2].commit = 1 /\ plan[2].path = "target"
        /\ plan[2].file = plan[1]["target"] /\ plan[2].type # "rename"
    BY <1>2 DEF Row
  <2> QED
    BY <2>1, <2>2 DEF Told
<1>3. CASE /\ plan[1] = [base EXCEPT !["target"] = S, !["moved"] = base["target"]]
           /\ plan[2] = Row("rename", "moved", spec, plan[1], 1)
  <2>1. /\ plan[1] \in [Paths -> F \union {S}]
        /\ \A p \in Paths : p \notin {"target", "moved"} => plan[1][p] = base[p]
    BY <1>3 DEF Paths
  <2>2. /\ plan[2].status = "applied" /\ plan[2].commit = 1 /\ plan[2].path = "moved"
        /\ plan[2].file = plan[1]["moved"] /\ plan[2].type = "rename"
    BY <1>3 DEF Row
  <2> QED
    BY <2>1, <2>2 DEF Told
<1> QED
  BY <1>1, <1>2, <1>3 DEF PlanOf

-----------------------------------------------------------------------------

LEMMA PlanAndApplyKeeps == BranchInv /\ PlanAndApply => BranchInv'
<1> SUFFICES ASSUME BranchInv, PlanAndApply PROVE BranchInv'
  OBVIOUS
<1>0. PICK F : base \in [Paths -> F]
  BY DEF BranchInv, Shape
<1>1. /\ log = <<>> /\ rows = <<>> /\ edits = 0 /\ pending = NoEdit
      /\ UNCHANGED <<base, suite, pending, edits, slow, untold>> /\ untold = {}
  <2>1. /\ log = <<>> /\ rows = <<>> /\ edits = 0 /\ pending = NoEdit
        /\ UNCHANGED <<base, suite, pending, edits, slow, untold>>
    BY DEF PlanAndApply, Untouched, BranchInv, Shape
  <2>2. untold \subseteq 1..0
    BY <2>1 DEF BranchInv, TellInv, Tells
  <2> QED
    BY <2>1, <2>2
<1>2. ASSUME NEW spec, NEW plan \in Plans(spec),
             log' = <<plan[1]>>, rows' = <<plan[2]>>, task' = "implemented"
      PROVE  BranchInv'
  <2>1. PICK S : plan[1] \in [Paths -> F \union {S}]
    BY <1>0, PlanTells
  <2>2. /\ plan[2].status = "applied" /\ plan[2].commit = 1
        /\ plan[1][plan[2].path] = plan[2].file
        /\ \A p \in Paths : plan[1][p] # base[p] => p \in Told(plan[2])
    BY <1>0, PlanTells
  <2>3. Shape'
    <3>1. base' \in [Paths -> F \union {S}] /\ log' \in Seq([Paths -> F \union {S}])
      BY <1>0, <1>1, <1>2, <2>1
    <3>2. rows' \in Seq({plan[2]})
      BY <1>2
    <3> QED
      BY <1>1, <3>1, <3>2 DEF BranchInv, Shape
  <2>4. OnePath' /\ GreenInv'
    BY <1>1, <1>2 DEF OnePath, GreenInv
  <2>5. TellInv'
    <3>1. Applied' = {1} /\ rows'[1] = plan[2] /\ log'[1] = plan[1] /\ Before(1)' = base /\ Len(log') = 1
      BY <1>1, <1>2, <2>2 DEF Applied, Before
    <3>2. 1..1 = {1}
      OBVIOUS
    <3>3. Tells(1)'
      BY <1>1, <2>2, <3>1, <3>2 DEF Tells
    <3> QED
      BY <1>1, <3>1, <3>3 DEF TellInv
  <2> QED
    BY <2>3, <2>4, <2>5 DEF BranchInv
<1>3. ASSUME task' = "failed", UNCHANGED <<log, rows>>
      PROVE  BranchInv'
  <2>1. /\ Tip' = Tip /\ Tip = base
        /\ Applied' = Applied /\ Len(log) = 0
    BY <1>1, <1>3 DEF Tip, Applied
  <2>2. Shape' /\ OnePath'
    BY <1>0, <1>1, <1>3 DEF BranchInv, Shape, OnePath
  <2>3. GreenInv'
    BY <1>1, <2>1 DEF GreenInv, Checkpoint, Green, PytestRun,
       Collected, Imported, CompileFails
  <2>4. TellInv'
    <3>1. RowsStay
      BY <1>1, <1>3, <2>1 DEF RowsStay
    <3>2. Tells(0)
      BY <1>1, <2>1 DEF BranchInv, TellInv
    <3>3. Tells(0)'
      BY <1>1, <1>3, <3>1, <3>2, TellsStill
    <3> QED
      BY <1>1, <1>3, <2>1, <3>3 DEF TellInv
  <2> QED
    BY <2>2, <2>3, <2>4 DEF BranchInv
<1> QED
  BY <1>2, <1>3 DEF PlanAndApply

LEMMA ApplyGeneratedKeeps == BranchInv /\ ApplyGenerated => BranchInv'
<1> SUFFICES ASSUME BranchInv, ApplyGenerated PROVE BranchInv'
  OBVIOUS
<1>0. PICK F : base \in [Paths -> F]
  BY DEF BranchInv, Shape
<1>1. /\ log = <<>> /\ rows = <<>> /\ edits = 0 /\ pending = NoEdit /\ task' = "implemented"
      /\ UNCHANGED <<base, suite, pending, edits, slow, untold>> /\ untold = {}
  <2>1. /\ log = <<>> /\ rows = <<>> /\ edits = 0 /\ pending = NoEdit /\ task' = "implemented"
        /\ UNCHANGED <<base, suite, pending, edits, slow, untold>>
    BY DEF ApplyGenerated, Untouched, BranchInv, Shape
  <2>2. untold \subseteq 1..0
    BY <2>1 DEF BranchInv, TellInv, Tells
  <2> QED
    BY <2>1, <2>2
<1>2. PICK draft, first, all :
        /\ first = [base EXCEPT !["target"] = draft.code, !["test"] = draft.test]
        /\ all = [first EXCEPT !["notes"] = draft.notes]
        /\ log' = <<first, all>>
        /\ rows' = <<Row("create", "target", NoEdit, first, 1),
                     Row("create", "test", NoEdit, first, 1),
                     Row("create", "notes", NoEdit, all, 2)>>
  BY DEF ApplyGenerated
<1>3. Shape'
  <2> DEFINE G == F \union {draft.code, draft.test, draft.notes}
  <2>1. first \in [Paths -> G] /\ all \in [Paths -> G]
    BY <1>0, <1>2 DEF Paths
  <2>2. base' \in [Paths -> G] /\ log' \in Seq([Paths -> G])
    BY <1>0, <1>1, <1>2, <2>1
  <2>3. \E R : rows' \in Seq(R)
    <3>1. rows' \in Seq({rows'[1], rows'[2], rows'[3]})
      BY <1>2
    <3> QED
      BY <3>1
  <2> QED
    BY <1>1, <2>2, <2>3 DEF BranchInv, Shape
<1>4. OnePath' /\ GreenInv'
  BY <1>1 DEF OnePath, GreenInv
<1>5. TellInv'
  <2>1. /\ rows'[1] = Row("create", "target", NoEdit, first, 1)
        /\ rows'[2] = Row("create", "test", NoEdit, first, 1)
        /\ rows'[3] = Row("create", "notes", NoEdit, all, 2)
        /\ DOMAIN rows' = {1, 2, 3} /\ log'[1] = first /\ log'[2] = all /\ Len(log') = 2
    BY <1>2
  <2>2. /\ rows'[1].commit = 1 /\ rows'[1].path = "target" /\ rows'[1].file = first["target"]
        /\ rows'[2].commit = 1 /\ rows'[2].path = "test" /\ rows'[2].file = first["test"]
        /\ rows'[3].commit = 2 /\ rows'[3].path = "notes" /\ rows'[3].file = all["notes"]
        /\ Told(rows'[1]) = {"target"} /\ Told(rows'[2]) = {"test"} /\ Told(rows'[3]) = {"notes"}
        /\ rows'[1].status = "applied" /\ rows'[2].status = "applied" /\ rows'[3].status = "applied"
    BY <2>1 DEF Row, Told
  <2>3. Applied' = {1, 2, 3}
    BY <2>1, <2>2 DEF Applied
  <2>4. Before(1)' = base /\ Before(2)' = first
    BY <1>1, <2>1 DEF Before
  <2>5. /\ \A p \in Paths : first[p] # base[p] => p \in {"target", "test"}
        /\ \A p \in Paths : all[p] # first[p] => p = "notes"
    BY <1>0, <1>2 DEF Paths
  <2>6. 1..2 = {1, 2} /\ untold' = {}
    BY <1>1
  <2>7. \A i \in Applied' : rows'[i].commit \in 1..2 /\ log'[rows'[i].commit][rows'[i].path] = rows'[i].file
    BY <2>1, <2>2, <2>3, <2>6
  <2>8. \A i, j \in Applied' : rows'[i].commit = rows'[j].commit /\ rows'[i].path = rows'[j].path => i = j
    BY <2>2, <2>3
  <2>9. \A k \in 1..2 \ untold', p \in Paths :
          log'[k][p] # Before(k)'[p] => \E i \in Applied' : rows'[i].commit = k /\ p \in Told(rows'[i])
    <3>1. ASSUME NEW p \in Paths, first[p] # base[p]
          PROVE  \E i \in Applied' : rows'[i].commit = 1 /\ p \in Told(rows'[i])
      BY <2>2, <2>3, <2>5, <3>1
    <3>2. ASSUME NEW p \in Paths, all[p] # first[p]
          PROVE  \E i \in Applied' : rows'[i].commit = 2 /\ p \in Told(rows'[i])
      BY <2>2, <2>3, <2>5, <3>2
    <3> QED
      BY <2>1, <2>4, <2>6, <3>1, <3>2
  <2>10. Tells(2)'
    BY <2>6, <2>7, <2>8, <2>9 DEF Tells
  <2> QED
    BY <1>1, <2>1, <2>10 DEF TellInv
<1> QED
  BY <1>3, <1>4, <1>5 DEF BranchInv

LEMMA ModifyFileKeeps ==
  ASSUME NEW path \in Paths, NEW edit, BranchInv, ModifyFile(path, edit)
  PROVE  BranchInv'
<1>0. PICK F : base \in [Paths -> F] /\ log \in Seq([Paths -> F])
  BY DEF BranchInv, Shape
<1>1. PICK file : log' = Append(log, [Tip EXCEPT ![path] = file])
  BY DEF ModifyFile
<1>2. /\ pending = NoEdit
      /\ pending' = [op |-> edit.op, edit |-> edit, path |-> path, checkpoint |-> Len(log)]
      /\ edits' = edits + 1 /\ UNCHANGED <<base, rows, suite, task, slow, untold>>
  BY DEF ModifyFile
<1>3. pending' # NoEdit
  <2>1. DOMAIN pending' = {"op", "edit", "path", "checkpoint"} /\ DOMAIN NoEdit = {"op"}
    BY <1>2 DEF NoEdit
  <2> QED
    BY <2>1
<1>4. Tip \in [Paths -> F] /\ Len(log) \in Nat
  <2>1. Tip \in [Paths -> F]
    BY <1>0, TipIs
  <2>2. Len(log) \in Nat
    BY <1>0
  <2> QED
    BY <2>1, <2>2
<1>5. /\ Len(log') = Len(log) + 1 /\ log' # <<>>
      /\ \A k \in 1..Len(log) : log'[k] = log[k]
      /\ log'[Len(log) + 1] = [Tip EXCEPT ![path] = file]
  BY <1>0, <1>1
<1>6. Before(Len(log))' = Tip
  <2>1. CASE log = <<>>
    <3>1. Len(log') = 1
      BY <1>5, <2>1
    <3> QED
      BY <1>2, <2>1, <3>1 DEF Before, Tip
  <2>2. CASE log # <<>>
    <3>1. Len(log) # 0 /\ Len(log') # 1 /\ Len(log') - 1 = Len(log) /\ Len(log) \in 1..Len(log)
      BY <1>0, <1>5, <2>2
    <3>2. Before(Len(log))' = log[Len(log)]
      BY <1>5, <3>1 DEF Before
    <3>3. Tip = log[Len(log)]
      BY <1>0, <2>2, TipIs
    <3> QED
      BY <3>2, <3>3
  <2> QED
    BY <2>1, <2>2
<1>7. Tip' = [Tip EXCEPT ![path] = file]
  BY <1>5 DEF Tip, Last
<1>8. Shape'
  <2>1. [Tip EXCEPT ![path] = file] \in [Paths -> F \union {file}]
    BY <1>4
  <2>2. log \in Seq([Paths -> F \union {file}])
    BY <1>0, MoreFiles
  <2>3. /\ base' \in [Paths -> F \union {file}]
        /\ log' \in Seq([Paths -> F \union {file}])
    BY <1>0, <1>1, <1>2, <2>1, <2>2
  <2> QED
    <3>1. \E R : rows' \in Seq(R)
      BY <1>2 DEF BranchInv, Shape
    <3>2. slow' \in Nat /\ edits' \in Nat \ {0}
      BY <1>2 DEF BranchInv, Shape
    <3> QED
      BY <2>3, <3>1, <3>2 DEF Shape
<1>9. OnePath'
  <2>1. Tip' = [Tip EXCEPT ![path] = Tip'[path]]
    BY <1>4, <1>7
  <2> QED
    BY <1>2, <1>4, <1>5, <1>6, <2>1 DEF OnePath
<1>10. GreenInv'
  <2>1. Checkpoint = Tip
    BY <1>2 DEF Checkpoint
  <2>2. Checkpoint' = Tip
    BY <1>3, <1>6 DEF Checkpoint
  <2> QED
    BY <1>2, <2>1, <2>2 DEF BranchInv, GreenInv, Green, PytestRun,
       Collected, Imported, CompileFails
<1>11. TellInv'
  <2>1. PICK n \in Nat : n = Len(log)
    BY <1>4
  <2>2. Tells(n)
    BY <1>2, <2>1 DEF BranchInv, TellInv
  <2>3. RowsStay
    BY <1>2 DEF RowsStay, Applied
  <2>4. Tells(n)'
    BY <1>2, <1>5, <2>1, <2>2, <2>3, TellsStill
  <2>5. Len(log') - 1 = n
    BY <1>5, <2>1
  <2> QED
    BY <1>3, <2>4, <2>5 DEF TellInv
<1> QED
  BY <1>8, <1>9, <1>10, <1>11 DEF BranchInv

LEMMA JudgeKeeps == BranchInv /\ Judge => BranchInv'
<1> SUFFICES ASSUME BranchInv, Judge PROVE BranchInv'
  OBVIOUS
<1>0. PICK F, R :
        base \in [Paths -> F] /\ log \in Seq([Paths -> F]) /\ rows \in Seq(R)
  BY DEF BranchInv, Shape
<1>1. PICK outcome :
        /\ outcome = PytestRun(Tip) \/ outcome = "cut off"
        /\ slow' = IF outcome = "cut off" THEN slow + 1 ELSE slow
        /\ IF CountsFailures(outcome) \/ CompileFails(Tip[pending.path])
             THEN Rollback(pending.checkpoint) /\ Recorded("reverted")
             ELSE UNCHANGED log /\ Recorded("applied")
  BY DEF Judge
<1>2. pending # NoEdit /\ pending' = NoEdit /\ UNCHANGED <<base, suite, task, edits>>
  BY DEF Judge
<1>3. /\ pending.path \in Paths /\ log # <<>> /\ pending.checkpoint = Len(log) - 1
      /\ Tip = [Before(Len(log)) EXCEPT ![pending.path] = Tip[pending.path]]
  BY <1>2 DEF BranchInv, OnePath
<1>4. /\ Len(log) \in Nat \ {0} /\ slow' \in Nat
      /\ (slow' = 0 => slow = 0 /\ outcome = PytestRun(Tip))
  <2>1. Len(log) \in Nat \ {0}
    BY <1>0, <1>3, EmptySeq
  <2>2. slow \in Nat
    BY DEF BranchInv, Shape
  <2>3. slow' = IF outcome = "cut off" THEN slow + 1 ELSE slow
    BY <1>1
  <2>4. slow' \in Nat /\ (slow' = 0 => slow = 0 /\ outcome # "cut off")
    <3>1. CASE outcome = "cut off"
      <4>1. slow' = slow + 1
        BY <2>3, <3>1
      <4>2. \A n \in Nat : n + 1 \in Nat /\ n + 1 # 0
        OBVIOUS
      <4> QED
        BY <2>2, <4>1, <4>2, Zenon
    <3>2. CASE outcome # "cut off"
      BY <2>2, <2>3, <3>2
    <3> QED
      BY <3>1, <3>2
  <2>5. outcome = PytestRun(Tip) \/ outcome = "cut off"
    BY <1>1
  <2> QED
    BY <2>1, <2>4, <2>5
<1>5. Tells(Len(log) - 1)
  BY <1>2 DEF BranchInv, TellInv
<1>6. PICK n \in Nat : n = Len(log) - 1
  BY <1>4
<1>7. slow = 0 /\ task # "implemented" => Green(Before(Len(log)))
  BY <1>2 DEF BranchInv, GreenInv, Checkpoint
<1>8. ASSUME log' \in Seq([Paths -> F]), \E S : rows' \in Seq(S)
      PROVE  Shape'
  BY <1>0, <1>2, <1>4, <1>8 DEF BranchInv, Shape
<1>9. CASE CountsFailures(outcome) \/ CompileFails(Tip[pending.path])
  <2>1. (\E S : rows' \in Seq(S)) /\ RowsStay
    <3>1. Recorded("reverted")
      BY <1>1, <1>9
    <3>2. \E S : rows' \in Seq(S)
      BY <1>0, <3>1, RecordedIs
    <3>3. RowsStay
      BY <1>0, <3>1, RecordedIs
    <3> QED
      BY <3>2, <3>3
  <2>2. log' = SubSeq(log, 1, Len(log) - 1)
    BY <1>1, <1>3, <1>9 DEF Rollback
  <2>3. /\ log' \in Seq([Paths -> F]) /\ Len(log') = Len(log) - 1
        /\ \A k \in 1..(Len(log) - 1) : log'[k] = log[k]
        /\ Len(log) = 1 => log' = <<>>
        /\ Len(log) # 1 => log' # <<>> /\ Len(log) - 1 \in 1..(Len(log) - 1)
    <3>1. PICK T : T = [Paths -> F]
      OBVIOUS
    <3>2. log \in Seq(T)
      BY <1>0, <3>1
    <3>3. log' \in Seq(T)
      BY <1>3, <2>2, <3>2, RollbackIs
    <3>4. /\ Len(log') = Len(log) - 1
          /\ \A k \in 1..(Len(log) - 1) : log'[k] = log[k]
          /\ Len(log) = 1 => log' = <<>>
          /\ Len(log) # 1 => log' # <<>> /\ Len(log) - 1 \in 1..(Len(log) - 1)
      BY <1>3, <2>2, <3>2, RollbackIs
    <3> QED
      BY <3>1, <3>3, <3>4
  <2>4. Tip' = Before(Len(log))
    <3>1. CASE Len(log) = 1
      BY <1>2, <2>3, <3>1 DEF Tip, Before
    <3>2. CASE Len(log) # 1
      BY <2>3, <3>2 DEF Tip, Last, Before
    <3> QED
      BY <3>1, <3>2
  <2>5. GreenInv'
    BY <1>2, <1>4, <1>7, <2>4 DEF GreenInv, Checkpoint, Green, PytestRun,
       Collected, Imported, CompileFails
  <2>6. TellInv'
    <3>1. Tells(n)'
      BY <1>2, <1>5, <1>6, <2>1, <2>3, TellsStill
    <3> QED
      BY <1>2, <1>6, <2>3, <3>1 DEF TellInv
  <2> QED
    BY <1>2, <1>8, <2>1, <2>3, <2>5, <2>6 DEF BranchInv, OnePath
<1>10. CASE ~(CountsFailures(outcome) \/ CompileFails(Tip[pending.path]))
  <2>1. (\E S : rows' \in Seq(S)) /\ (NoRow \/ \E last : RowAdded(last))
    <3>1. Recorded("applied")
      BY <1>1, <1>10
    <3>2. \E S : rows' \in Seq(S)
      BY <1>0, <3>1, RecordedIs
    <3>3. NoRow \/ \E last : RowAdded(last)
      BY <1>0, <3>1, RecordedIs
    <3> QED
      BY <3>2, <3>3
  <2>2. UNCHANGED log
    BY <1>1, <1>10
  <2>3. Tip' = Tip /\ Tip = log[Len(log)]
    BY <1>0, <1>2, <1>3, <2>2, TipIs DEF Tip
  <2>4. \A p \in Paths : p # pending.path => Tip[p] = Before(Len(log))[p]
    BY <1>0, <1>3, TipIs
  <2>5. GreenInv'
    <3> SUFFICES ASSUME slow' = 0, task # "implemented" PROVE Green(Tip)
      BY <1>2, <2>3 DEF GreenInv, Checkpoint, Green, PytestRun,
       Collected, Imported, CompileFails
    <3>1. /\ Green(Before(Len(log))) /\ PytestRun(Tip) # "failed"
          /\ ~CompileFails(Tip[pending.path])
      BY <1>4, <1>7, <1>10 DEF CountsFailures
    <3> QED
      BY <2>4, <3>1 DEF Green
  <2>6. TellInv'
    <3>1. PICK m \in Nat : m = Len(log) /\ m = n + 1
      BY <1>4, <1>6
    <3>2. \A p \in Paths : log[m][p] # Before(m)[p] => p = pending.path
      BY <2>3, <2>4, <3>1
    <3>3. Tells(n) /\ Tip = log[m] /\ log' = log /\ base' = base /\ pending.path \in Paths
      BY <1>2, <1>3, <1>5, <1>6, <2>2, <2>3, <3>1
    <3>4. Tells(m)'
      BY <2>1, <3>1, <3>2, <3>3, TellsMore
    <3> QED
      BY <1>2, <2>2, <3>1, <3>4 DEF TellInv
  <2> QED
    BY <1>0, <1>2, <1>8, <2>1, <2>2, <2>5, <2>6 DEF BranchInv, OnePath
<1> QED
  BY <1>9, <1>10

-----------------------------------------------------------------------------

LEMMA StutterKeeps == BranchInv /\ UNCHANGED sandboxVars => BranchInv'
<1> SUFFICES ASSUME BranchInv, UNCHANGED sandboxVars PROVE BranchInv'
  OBVIOUS
<1>1. Shape' /\ OnePath'
  BY DEF BranchInv, Shape, OnePath, Tip, Before, sandboxVars
<1>2. GreenInv'
  BY DEF BranchInv, GreenInv, Checkpoint, Green, PytestRun,
       Collected, Imported, CompileFails, Tip, Before, sandboxVars
<1>3. TellInv'
  BY DEF BranchInv, TellInv, Tells, Applied, Before, sandboxVars
<1> QED
  BY <1>1, <1>2, <1>3 DEF BranchInv

LEMMA BranchKept == SandboxSpec => []BranchInv
<1>1. BranchInv /\ [SandboxNext]_sandboxVars => BranchInv'
  BY PlanAndApplyKeeps, ApplyGeneratedKeeps, ModifyFileKeeps, JudgeKeeps, StutterKeeps
  DEF SandboxNext
<1> QED
  BY <1>1, BranchInit, PTL DEF SandboxSpec

\* Between edits the change rows marked applied tell the branch: of every path a
\* commit has changed there is one row, with what the commit left there, and of
\* no other commits there is any, after any planned or generated changes, edits
\* and rollbacks (plan_and_apply, apply, modify_file and its test gate).
THEOREM RowsTellBranchCorrect == SandboxSpec => []RowsTellBranch
<1>1. BranchInv => RowsTellBranch
  <2> SUFFICES ASSUME BranchInv, pending = NoEdit PROVE RowsTellBranch
    BY DEF RowsTellBranch
  <2>1. DOMAIN log = 1..Len(log) /\ Tells(Len(log))
    BY DEF BranchInv, Shape, TellInv
  <2> QED
    BY <2>1 DEF Tells, RowsTellBranch
<1> QED
  BY <1>1, BranchKept, PTL

\* Whatever is edited in a sandbox that started from what passes, nothing stays
\* on the branch that fails or does not compile, as long as no test run is cut
\* off: rollback_to goes back to a commit that was green.
THEOREM FailuresAreUndoneCorrect == SandboxSpec => []FailuresAreUndone
<1>1. BranchInv => FailuresAreUndone
  BY DEF BranchInv, GreenInv, Checkpoint, Green, FailuresAreUndone
<1> QED
  BY <1>1, BranchKept, PTL

-----------------------------------------------------------------------------
(***************************************************************************)
(* What an edit does to a text.  Numbers first: the least, the greatest    *)
(* and the one of each rank, on which the top-level symbol, the line of    *)
(* the imports and their order rest.  Then each operation of               *)
(* CodeModification: a text comes out again, the rest is kept, and what is *)
(* defined twice was so before.                                            *)
(***************************************************************************)

\* A set of numbers has a least one, unless it is empty;
LEMMA Least ==
  ASSUME NEW S, S \subseteq Nat, S # {}
  PROVE  \E n \in S : \A m \in S : n <= m
<1> DEFINE R == {p \in Nat \X Nat : p[1] < p[2]}
<1>1. R = OpToRel(<, Nat)
  BY DEF OpToRel
<1>2. IsWellFoundedOn(R, Nat)
  BY <1>1, NatLessThanWellFounded
<1>3. \A m, n \in Nat : m < n => <<m, n>> \in R
  OBVIOUS
<1> HIDE DEF R
<1>4. PICK n \in S : \A m \in S : <<m, n>> \notin R
  BY <1>2, WFMin
<1>5. ASSUME NEW m \in S PROVE n <= m
  <2>1. m \in Nat /\ n \in Nat /\ <<m, n>> \notin R
    BY <1>4
  <2>2. ~ (m < n)
    BY <2>1, <1>3
  <2> QED
    BY <2>1, <2>2
<1> QED
  BY <1>5

\* and a greatest, if it has a bound.
LEMMA Greatest ==
  ASSUME NEW b \in Nat, NEW S, S \subseteq 1..b, S # {}
  PROVE  \E n \in S : \A m \in S : n >= m
<1> DEFINE T == {n \in Nat : b - n \in S}
<1>1. T # {}
  <2>1. PICK m \in S : TRUE
    OBVIOUS
  <2>2. b - m \in T
    BY <2>1
  <2> QED
    BY <2>2
<1>2. PICK n \in T : \A m \in T : n <= m
  <2>1. T \subseteq Nat
    OBVIOUS
  <2> HIDE DEF T
  <2> QED
    BY <1>1, <2>1, Least
<1>3. \A m \in S : b - m \in T /\ b - (b - m) = m /\ m \in Nat
  OBVIOUS
<1>4. \A m \in S : b - n >= m
  <2> TAKE m \in S
  <2>1. n <= b - m /\ m \in Nat /\ n \in Nat
    BY <1>2, <1>3
  <2> QED
    BY <2>1
<1> QED
  BY <1>2, <1>4

LEMMA MinIs ==
  ASSUME NEW b \in Nat, NEW S, S \subseteq 1..b, S # {}
  PROVE  Min(S) \in S
<1>1. PICK n \in S : \A m \in S : n <= m
  <2>1. S \subseteq Nat
    OBVIOUS
  <2> QED
    BY <2>1, Least
<1> QED
  BY <1>1 DEF Min

LEMMA MaxIs ==
  ASSUME NEW b \in Nat, NEW S, S \subseteq 1..b, S # {}
  PROVE  Max(S) \in S
<1>1. PICK n \in S : \A m \in S : n >= m
  BY Greatest
<1> QED
  BY <1>1 DEF Max

\* The symbol of a name at the top level, or none.
LEMMA TopLevelIs ==
  ASSUME NEW items \in Seq(Item), NEW n
  PROVE  /\ TopLevel(items, n) \in 0..Len(items)
         /\ TopLevel(items, n) > 0 =>
              Defines(items[TopLevel(items, n)], n)
         /\ TopLevel(items, n) = 0 => \A k \in DOMAIN items : ~Defines(items[k], n)
<1> DEFINE I == {k \in 1..Len(items) : Defines(items[k], n)}
<1>1. TopLevel(items, n) = IF I # {} THEN Min(I) ELSE 0
  BY DEF TopLevel, SelectInSeq, Defines
<1>2. Len(items) \in Nat /\ DOMAIN items = 1..Len(items) /\ I \subseteq 1..Len(items)
  OBVIOUS
<1>3. \A k \in I : Defines(items[k], n)
  OBVIOUS
<1>4. \A k \in 1..Len(items) : k \notin I => ~Defines(items[k], n)
  OBVIOUS
<1> HIDE DEF I
<1>5. I # {} => Min(I) \in I
  BY <1>2, MinIs
<1>6. CASE I # {}
  <2>1. TopLevel(items, n) \in I
    BY <1>1, <1>5, <1>6
  <2>2. TopLevel(items, n) \in 1..Len(items)
    BY <1>2, <2>1
  <2>3. \A b \in Nat : \A k \in 1..b : k \in 0..b /\ k # 0
    OBVIOUS
  <2> QED
    BY <1>2, <1>3, <2>1, <2>2, <2>3
<1>7. CASE I = {}
  BY <1>1, <1>2, <1>4, <1>7
<1> QED
  BY <1>6, <1>7

LEMMA ImportLineIs ==
  ASSUME NEW items \in Seq(Item)
  PROVE  ImportLine(items) \in 0..Len(items)
<1> DEFINE I == {k \in 1..Len(items) : items[k].kind = "import"}
           last == IF I # {} THEN Max(I) ELSE 0
<1>1. ImportLine(items) =
        IF last > 0 THEN last
        ELSE IF items # <<>> /\ items[1].kind = "doc" THEN 1 ELSE 0
  BY DEF ImportLine, SelectLastInSeq
<1>2. Len(items) \in Nat /\ I \subseteq 1..Len(items)
  OBVIOUS
<1>3. last \in 0..Len(items)
  <2>1. I # {} => Max(I) \in I
    <3> HIDE DEF I
    <3> QED
      BY <1>2, MaxIs
  <2> QED
    BY <1>2, <2>1
<1>4. items # <<>> => 1 \in 0..Len(items)
  BY EmptySeq
<1> HIDE DEF last
<1>5. CASE last > 0
  BY <1>1, <1>3, <1>5
<1>6. CASE ~(last > 0)
  BY <1>1, <1>2, <1>4, <1>6
<1> QED
  BY <1>5, <1>6

-----------------------------------------------------------------------------

\* What a cut leaves: the items before, the piece, the items behind.
Spliced(items, from, to, piece, new) ==
  /\ new \in Seq(Item)
  /\ Len(new) = (from - 1) + Len(piece) + (Len(items) - to)
  /\ \A k \in 1..(from - 1) : new[k] = items[k]
  /\ \A k \in 1..Len(piece) : new[from - 1 + k] = piece[k]
  /\ \A k \in (to + 1)..Len(items) :
       new[k + Len(piece) - (to + 1 - from)] = items[k]

LEMMA CutIs ==
  ASSUME NEW items \in Seq(Item), NEW piece \in Seq(Item),
         NEW from \in 1..(Len(items) + 1), NEW to \in (from - 1)..Len(items),
         NEW new, new = Cut(items, from, to, piece)
  PROVE  Spliced(items, from, to, piece, new)
<1> DEFINE head == SubSeq(items, 1, from - 1)
           tail == SubSeq(items, to + 1, Len(items))
<1>1. PICK n \in Nat, m \in Nat : n = Len(items) /\ m = Len(piece)
  OBVIOUS
<1>2. /\ from \in Nat /\ from - 1 \in Nat /\ from - 1 <= to /\ to \in Nat /\ to <= n
      /\ n - to \in Nat
  BY <1>1
<1>3. \A k \in 1..n : items[k] \in Item
  BY <1>1
<1>4. /\ head \in Seq(Item) /\ Len(head) = from - 1
      /\ \A k \in 1..(from - 1) : head[k] = items[k]
  <2>1. \A k \in 1..(from - 1) : items[k] \in Item
    BY <1>2, <1>3
  <2>2. /\ head \in Seq(Item)
        /\ Len(head) = IF 1 <= from - 1 THEN (from - 1) - 1 + 1 ELSE 0
        /\ \A k \in 1..((from - 1) - 1 + 1) : head[k] = items[1 + k - 1]
    BY <1>2, <2>1, SubSeqProperties
  <2>3. Len(head) = from - 1
    BY <1>2, <2>2
  <2>4. \A k \in 1..(from - 1) : k \in 1..((from - 1) - 1 + 1) /\ 1 + k - 1 = k
    BY <1>2
  <2> QED
    BY <2>2, <2>3, <2>4
<1>5. /\ tail \in Seq(Item) /\ Len(tail) = n - to
      /\ \A k \in 1..(n - to) : tail[k] = items[to + k]
  <2>1. \A k \in (to + 1)..n : items[k] \in Item
    BY <1>2, <1>3
  <2>2. /\ tail \in Seq(Item)
        /\ Len(tail) = IF to + 1 <= n THEN n - (to + 1) + 1 ELSE 0
        /\ \A k \in 1..(n - (to + 1) + 1) : tail[k] = items[(to + 1) + k - 1]
    <3>1. PICK next \in Int : next = to + 1
      BY <1>2
    <3>2. \A k \in next..n : items[k] \in Item
      BY <2>1, <3>1
    <3>3. n \in Int /\ tail = SubSeq(items, next, n)
      BY <1>1, <3>1
    <3> HIDE DEF tail
    <3>4. /\ tail \in Seq(Item)
          /\ Len(tail) = IF next <= n THEN n - next + 1 ELSE 0
          /\ \A k \in 1..(n - next + 1) : tail[k] = items[next + k - 1]
      BY <3>2, <3>3, SubSeqProperties
    <3> QED
      BY <3>1, <3>4
  <2>3. Len(tail) = n - to
    BY <1>2, <2>2
  <2>4. \A k \in 1..(n - to) : k \in 1..(n - (to + 1) + 1) /\ (to + 1) + k - 1 = to + k
    BY <1>2
  <2> QED
    BY <2>2, <2>3, <2>4
<1> HIDE DEF head, tail
<1>6. /\ head \o piece \in Seq(Item) /\ Len(head \o piece) = (from - 1) + m
      /\ \A k \in 1..((from - 1) + m) :
           (head \o piece)[k] = IF k <= from - 1 THEN head[k] ELSE piece[k - (from - 1)]
  <2>1. /\ head \o piece \in Seq(Item) /\ Len(head \o piece) = Len(head) + Len(piece)
        /\ \A k \in 1..(Len(head) + Len(piece)) :
             (head \o piece)[k] = IF k <= Len(head) THEN head[k] ELSE piece[k - Len(head)]
    BY <1>4, ConcatProperties
  <2> QED
    BY <1>1, <1>4, <2>1
<1>7. new = (head \o piece) \o tail
  BY DEF Cut, head, tail
<1>8. /\ new \in Seq(Item) /\ Len(new) = ((from - 1) + m) + (n - to)
      /\ \A k \in 1..(((from - 1) + m) + (n - to)) :
           new[k] = IF k <= (from - 1) + m THEN (head \o piece)[k]
                    ELSE tail[k - ((from - 1) + m)]
  <2>1. PICK t : t = head \o piece
    OBVIOUS
  <2>2. /\ new \in Seq(Item) /\ Len(new) = Len(t) + Len(tail)
        /\ \A k \in 1..(Len(t) + Len(tail)) :
             new[k] = IF k <= Len(t) THEN t[k] ELSE tail[k - Len(t)]
    <3>1. t \in Seq(Item) /\ tail \in Seq(Item) /\ new = t \o tail
      BY <1>5, <1>6, <1>7, <2>1
    <3> QED
      BY <3>1, ConcatProperties
  <2>3. Len(t) = (from - 1) + m /\ Len(tail) = n - to
    BY <1>5, <1>6, <2>1
  <2> QED
    BY <2>1, <2>2, <2>3
<1>9. ASSUME NEW k \in 1..(from - 1) PROVE new[k] = items[k]
  <2>1. /\ k \in 1..(((from - 1) + m) + (n - to)) /\ k <= (from - 1) + m
        /\ k \in 1..((from - 1) + m) /\ k <= from - 1
    BY <1>1, <1>2
  <2> QED
    BY <1>4, <1>6, <1>8, <2>1
<1>10. ASSUME NEW k \in 1..m PROVE new[from - 1 + k] = piece[k]
  <2>1. /\ from - 1 + k \in 1..(((from - 1) + m) + (n - to)) /\ from - 1 + k <= (from - 1) + m
        /\ from - 1 + k \in 1..((from - 1) + m) /\ ~ (from - 1 + k <= from - 1)
        /\ (from - 1 + k) - (from - 1) = k
    BY <1>1, <1>2
  <2>2. new[from - 1 + k] = (head \o piece)[from - 1 + k]
    BY <1>8, <2>1
  <2>3. (head \o piece)[from - 1 + k] = piece[(from - 1 + k) - (from - 1)]
    BY <1>6, <2>1
  <2> QED
    BY <2>1, <2>2, <2>3
<1>11. ASSUME NEW k \in (to + 1)..n PROVE new[k + m - (to + 1 - from)] = items[k]
  <2> DEFINE j == k + m - (to + 1 - from)
  <2>1. /\ j \in 1..(((from - 1) + m) + (n - to)) /\ ~ (j <= (from - 1) + m)
        /\ j - ((from - 1) + m) = k - to
        /\ k - to \in 1..(n - to) /\ to + (k - to) = k
    BY <1>1, <1>2
  <2> HIDE DEF j
  <2>2. new[j] = tail[k - to]
    BY <1>8, <2>1
  <2>3. tail[k - to] = items[k]
    BY <1>5, <2>1
  <2> QED
    BY <2>2, <2>3 DEF j
<1> QED
  BY <1>1, <1>8, <1>9, <1>10, <1>11 DEF Spliced

LEMMA Bounded ==
  ASSUME NEW b \in Nat, NEW S, S \subseteq 1..b
  PROVE  IsFiniteSet(S) /\ Cardinality(S) \in Nat
<1>1. IsFiniteSet(1..b)
  BY FS_Interval
<1> QED
  BY <1>1, FS_Subset, FS_CardinalityType

\* In a set of numbers there is one of every rank.
HasRank(S, r) == \E k \in S : Cardinality({j \in S : j <= k}) = r

LEMMA RankReached ==
  ASSUME NEW b \in Nat, NEW S, S \subseteq 1..b, NEW r \in 1..Cardinality(S)
  PROVE  HasRank(S, r)
<1> DEFINE upto(k) == {j \in S : j <= k}
           T == {k \in Nat : Cardinality(upto(k)) >= r}
<1>1. IsFiniteSet(S) /\ Cardinality(S) \in Nat
  BY Bounded
<1>2. \A k \in Nat : IsFiniteSet(upto(k)) /\ Cardinality(upto(k)) \in Nat
  <2> TAKE k \in Nat
  <2>1. upto(k) \in SUBSET S
    OBVIOUS
  <2> QED
    BY <1>1, <2>1, FS_Subset, FS_CardinalityType
<1>3. b \in T
  <2>1. \A j \in 1..b : j <= b
    OBVIOUS
  <2>2. upto(b) = S
    BY <2>1
  <2> QED
    BY <1>1, <2>2
<1>4. PICK k \in T : \A j \in T : k <= j
  <2>1. T \subseteq Nat /\ T # {}
    BY <1>3
  <2> HIDE DEF T
  <2> QED
    BY <2>1, Least
<1>5. k # 0
  <2>0. \A j \in 1..b : ~ (j <= 0)
    OBVIOUS
  <2>1. upto(0) = {}
    BY <2>0
  <2>2. Cardinality(upto(0)) = 0
    BY <2>1, FS_EmptySet
  <2> QED
    BY <1>4, <2>2
<1>6. k - 1 \in Nat /\ ~ (Cardinality(upto(k - 1)) >= r)
  <2>1. k \in Nat
    BY <1>4
  <2>2. k - 1 \in Nat /\ ~ (k <= k - 1)
    BY <1>5, <2>1
  <2>3. k - 1 \notin T
    <3> HIDE DEF T
    <3> QED
      BY <1>4, <2>2
  <2> QED
    BY <2>2, <2>3
<1>7. upto(k) = IF k \in S THEN upto(k - 1) \union {k} ELSE upto(k - 1)
  <2>1. k \in Nat
    BY <1>4
  <2>2. \A j \in Nat : j <= k <=> j <= k - 1 \/ j = k
    BY <2>1
  <2>3. S \subseteq Nat
    OBVIOUS
  <2> QED
    BY <2>1, <2>2, <2>3
<1>8. k \in Nat /\ Cardinality(upto(k)) >= r
  BY <1>4
<1> HIDE DEF upto, T
<1>9. k \in S
  BY <1>6, <1>7, <1>8
<1>10. Cardinality(upto(k)) <= Cardinality(upto(k - 1)) + 1
  <2>1. /\ IsFiniteSet(upto(k - 1)) /\ Cardinality(upto(k - 1)) \in Nat
        /\ upto(k) = upto(k - 1) \union {k}
    BY <1>2, <1>6, <1>7, <1>9
  <2>2. \/ Cardinality(upto(k)) = Cardinality(upto(k - 1))
        \/ Cardinality(upto(k)) = Cardinality(upto(k - 1)) + 1
    BY <2>1, FS_AddElement
  <2>3. \A c \in Nat : c <= c + 1 /\ c + 1 <= c + 1
    OBVIOUS
  <2> QED
    BY <2>1, <2>2, <2>3, Zenon
<1>11. Cardinality(upto(k)) = r
  <2>1. /\ Cardinality(upto(k)) \in Nat /\ Cardinality(upto(k - 1)) \in Nat /\ r \in Nat
    BY <1>1, <1>2, <1>6, <1>8
  <2> QED
    BY <1>6, <1>8, <1>10, <2>1
<1> QED
  BY <1>9, <1>11 DEF upto, HasRank

LEMMA NewImportsAre ==
  ASSUME NEW items, NEW imports \in Seq(Names)
  PROVE  NewImports(items, imports) \in Seq(Names)
<1> DEFINE new == {k \in DOMAIN imports : Import(imports[k]) \notin ToSet(items)}
           at(r) == CHOOSE k \in new : Cardinality({j \in new : j <= k}) = r
<1>1. PICK b \in Nat : b = Len(imports)
  OBVIOUS
<1>2. new \subseteq 1..b
  BY <1>1
<1>3. \A k \in 1..b : imports[k] \in Names
  BY <1>1
<1>4. NewImports(items, imports) = [r \in 1..Cardinality(new) |-> imports[at(r)]]
  BY DEF NewImports
<1> HIDE DEF new
<1>5. Cardinality(new) \in Nat
  BY <1>1, <1>2, Bounded
<1>6. ASSUME NEW r \in 1..Cardinality(new) PROVE imports[at(r)] \in Names
  <2>1. b \in Nat /\ r \in 1..Cardinality(new)
    BY <1>1
  <2>2. HasRank(new, r)
    BY <1>2, <2>1, RankReached
  <2>3. at(r) \in new
    BY <2>2 DEF HasRank
  <2> HIDE DEF at
  <2> QED
    BY <1>2, <1>3, <2>3
<1> HIDE DEF at
<1> QED
  BY <1>4, <1>5, <1>6, IsASeq

-----------------------------------------------------------------------------

LEMMA FileIs ==
  ASSUME NEW file \in File
  PROVE  /\ file.items \in Seq(Item) /\ file.python \in BOOLEAN /\ file.ended \in BOOLEAN
         /\ \A items \in Seq(Item) :
              Finalized(items) \in File /\ Finalized(items).items = items
  BY DEF File, Finalized

LEMMA FileWith ==
  ASSUME NEW file \in File, NEW items \in Seq(Item), NEW new, new = [file EXCEPT !.items = items]
  PROVE  new \in File /\ new.items = items
  BY DEF File

LEMMA ChangeIs ==
  ASSUME NEW edit \in Change
  PROVE  /\ edit.name \in Names /\ edit.new \in Names /\ edit.snippet \in Seq(Item)
         /\ edit.imports \in Seq(Names) /\ edit.content \subseteq File
  BY DEF Change

LEMMA ImportIs ==
  ASSUME NEW n \in Names
  PROVE  Import(n) \in Item /\ Import(n).kind = "import"
  BY DEF Import, Item, ItemKinds

LEMMA MergedIs ==
  ASSUME NEW file \in File, NEW imports \in Seq(Names), NEW merged \in MergeImports(file, imports)
  PROVE  /\ merged.items \in Seq(Item)
         /\ \E at \in 0..Len(file.items), n \in Nat :
              /\ Len(merged.items) = Len(file.items) + n
              /\ SameAround(file.items, merged.items, at + 1, at, n)
              /\ \A k \in (at + 1)..(at + n) : merged.items[k].kind = "import"
<1> DEFINE new == NewImports(file.items, imports)
           at == ImportLine(file.items)
           block == [k \in DOMAIN new |-> Import(new[k])]
<1>1. \/ merged = file
      \/ merged = Finalized(Cut(file.items, at + 1, at, block))
  BY DEF MergeImports
<1>2. file.items \in Seq(Item)
  BY FileIs
<1>3. PICK b \in Nat : b = Len(file.items)
  BY <1>2
<1>4. CASE merged = file
  <2>1. SameAround(file.items, file.items, 1, 0, 0)
    <3>1. \A k \in 1..b : k \in DOMAIN file.items /\ k + 0 - (0 + 1 - 1) = k
      BY <1>2, <1>3
    <3>2. \A k \in 1..(1 - 1) : FALSE
      OBVIOUS
    <3>3. (0 + 1)..Len(file.items) = 1..b
      BY <1>3
    <3> QED
      BY <3>1, <3>2, <3>3 DEF SameAround
  <2>2. 0 \in 0..b /\ b = b + 0 /\ 0 + 1 = 1 /\ \A k \in (0 + 1)..(0 + 0) : FALSE
    OBVIOUS
  <2> QED
    BY <1>2, <1>3, <1>4, <2>1, <2>2
<1>5. CASE merged = Finalized(Cut(file.items, at + 1, at, block))
  <2>1. at \in 0..b
    BY <1>2, <1>3, ImportLineIs
  <2>2. new \in Seq(Names)
    BY NewImportsAre
  <2>3. PICK n \in Nat : n = Len(new) /\ DOMAIN new = 1..n /\ \A k \in 1..n : new[k] \in Names
    BY <2>2
  <2>4. /\ \A k \in 1..n : Import(new[k]) \in Item /\ Import(new[k]).kind = "import"
        /\ block = [k \in 1..n |-> Import(new[k])]
    BY <2>3, ImportIs
  <2> HIDE DEF new
  <2>5. block \in Seq(Item) /\ Len(block) = n /\ \A k \in 1..n : block[k].kind = "import"
    BY <2>4
  <2> HIDE DEF at, block
  <2>6. PICK from : from = at + 1 /\ from \in 1..(Len(file.items) + 1)
    BY <1>3, <2>1
  <2>7. at \in (from - 1)..Len(file.items)
    BY <1>3, <2>1, <2>6
  <2>8. PICK items : items = Cut(file.items, from, at, block)
    OBVIOUS
  <2>9. /\ items \in Seq(Item)
        /\ Len(items) = (from - 1) + Len(block) + (Len(file.items) - at)
        /\ \A k \in 1..(from - 1) : items[k] = file.items[k]
        /\ \A k \in 1..Len(block) : items[from - 1 + k] = block[k]
        /\ \A k \in (at + 1)..Len(file.items) :
             items[k + Len(block) - (at + 1 - from)] = file.items[k]
    <3>1. PICK old, piece, to : old = file.items /\ piece = block /\ to = at
      OBVIOUS
    <3>2. /\ old \in Seq(Item) /\ piece \in Seq(Item)
          /\ from \in 1..(Len(old) + 1) /\ to \in (from - 1)..Len(old)
          /\ items = Cut(old, from, to, piece)
      BY <1>2, <2>5, <2>6, <2>7, <2>8, <3>1
    <3>3. Spliced(old, from, to, piece, items)
      BY <3>2, CutIs
    <3> QED
      BY <3>1, <3>3 DEF Spliced
  <2>10. merged.items = items
    BY <1>5, <2>6, <2>8, <2>9, FileIs
  <2>11. Len(items) = b + n
    <3>1. \A a \in 0..b : ((a + 1) - 1) + n + (b - a) = b + n
      OBVIOUS
    <3>2. Len(items) = ((at + 1) - 1) + n + (b - at)
      BY <1>3, <2>5, <2>6, <2>9
    <3> QED
      BY <2>1, <3>1, <3>2, Zenon
  <2>12. DOMAIN items = 1..(b + n)
    BY <2>9, <2>11
  <2>13. SameAround(file.items, items, at + 1, at, n)
    <3>1. \A k \in 1..((at + 1) - 1) : k \in 1..(b + n) /\ k \in 1..(from - 1)
      BY <2>1, <2>6
    <3>2. \A k \in (at + 1)..b : k + n - (at + 1 - (at + 1)) \in 1..(b + n)
      BY <2>1
    <3> QED
      BY <1>3, <2>5, <2>6, <2>9, <2>12, <3>1, <3>2 DEF SameAround
  <2>14. ASSUME NEW k \in (at + 1)..(at + n) PROVE items[k].kind = "import"
    <3>1. k - at \in 1..n /\ from - 1 + (k - at) = k
      BY <2>1, <2>6
    <3>2. items[k] = block[k - at]
      BY <2>5, <2>9, <3>1
    <3> QED
      BY <2>5, <3>1, <3>2
  <2> QED
    BY <1>3, <2>1, <2>9, <2>10, <2>11, <2>13, <2>14
<1> QED
  BY <1>1, <1>4, <1>5

\* The places before an inserted block, behind it and behind the old end.
LEMMA Places ==
  ASSUME NEW b \in Nat, NEW n \in Nat, NEW s \in Nat, NEW at \in 0..b, NEW k \in 1..(b + n + s)
  PROVE  /\ k <= at => k \in 1..((at + 1) - 1) /\ k \in 1..b /\ k <= b + n
         /\ k > at + n /\ k <= b + n =>
              /\ k - n \in (at + 1)..b /\ k - n \in 1..b /\ ~ (k <= at)
              /\ (k - n) + n - (at + 1 - (at + 1)) = k
         /\ k > b + n => k - (b + n) \in 1..s /\ b + n + (k - (b + n)) = k
  OBVIOUS

\* Where a name that is defined twice after an addition comes from.
Double(old, snippet, name) ==
  \/ DefinedTwice(old, name) \/ DefinedTwice(snippet, name)
  \/ /\ \E k \in DOMAIN old : Defines(old[k], name)
     /\ \E k \in DOMAIN snippet : Defines(snippet[k], name)

Added(old, at, n, snippet, new) ==
  /\ at \in 0..Len(old) /\ n \in Nat
  /\ Len(new) = Len(old) + n + Len(snippet)
  /\ SameAround(old, new, at + 1, at, n)
  /\ \A k \in (at + 1)..(at + n) : new[k].kind = "import"
  /\ \A k \in 1..Len(snippet) : new[Len(old) + n + k] = snippet[k]

LEMMA AddedTwice ==
  ASSUME NEW old \in Seq(Item), NEW new \in Seq(Item), NEW snippet \in Seq(Item),
         NEW at, NEW n, Added(old, at, n, snippet, new),
         NEW name, DefinedTwice(new, name)
  PROVE  Double(old, snippet, name)
<1> SUFFICES ASSUME at \in 0..Len(old), n \in Nat,
                    Len(new) = Len(old) + n + Len(snippet),
                    SameAround(old, new, at + 1, at, n),
                    \A k \in (at + 1)..(at + n) : new[k].kind = "import",
                    \A k \in 1..Len(snippet) : new[Len(old) + n + k] = snippet[k]
             PROVE  Double(old, snippet, name)
  BY DEF Added
<1>1. PICK b \in Nat, s \in Nat : b = Len(old) /\ s = Len(snippet)
  OBVIOUS
<1>2. /\ DOMAIN old = 1..b /\ DOMAIN snippet = 1..s /\ DOMAIN new = 1..(b + n + s)
      /\ at \in Nat /\ at <= b
  BY <1>1
<1> DEFINE from(k) == IF k <= at THEN k ELSE k - n
<1>3. ASSUME NEW k \in 1..(b + n + s), Defines(new[k], name)
      PROVE  \/ /\ k <= b + n /\ from(k) \in 1..b
                /\ new[k] = old[from(k)]
                /\ k <= at \/ k > at + n
             \/ k > b + n /\ k - (b + n) \in 1..s /\ new[k] = snippet[k - (b + n)]
  <2>1. new[k].kind # "import"
    BY <1>3 DEF Defines, IsSymbol
  <2>2. k \notin (at + 1)..(at + n)
    BY <2>1
  <2>3. CASE k <= at
    <3>1. k \in 1..((at + 1) - 1) /\ k <= b + n /\ k \in 1..b
      BY <1>1, <1>2, <2>3, Places
    <3>2. new[k] = old[k]
      BY <3>1 DEF SameAround
    <3> QED
      BY <2>3, <3>1, <3>2
  <2>4. CASE k > at + n /\ k <= b + n
    <3>1. /\ k - n \in (at + 1)..b /\ (k - n) + n - (at + 1 - (at + 1)) = k /\ k - n \in 1..b
          /\ ~ (k <= at)
      BY <1>1, <2>4, Places
    <3>2. new[(k - n) + n - (at + 1 - (at + 1))] = old[k - n]
      BY <1>1, <3>1 DEF SameAround
    <3> QED
      BY <2>4, <3>1, <3>2
  <2>5. CASE k > b + n
    <3>1. k - (b + n) \in 1..s /\ b + n + (k - (b + n)) = k
      BY <1>1, <2>5, Places
    <3>2. new[b + n + (k - (b + n))] = snippet[k - (b + n)]
      BY <1>1, <3>1
    <3> QED
      BY <2>5, <3>1, <3>2
  <2>6. k <= at \/ (k > at + n /\ k <= b + n) \/ k > b + n
    BY <1>2, <2>2
  <2> QED
    BY <2>3, <2>4, <2>5, <2>6
<1>4. PICK j \in 1..(b + n + s), k \in 1..(b + n + s) :
        j # k /\ Defines(new[j], name) /\ Defines(new[k], name)
  BY <1>2 DEF DefinedTwice
<1>5. CASE j <= b + n /\ k <= b + n
  <2>1. /\ from(j) \in 1..b /\ new[j] = old[from(j)] /\ (j <= at \/ j > at + n)
        /\ from(k) \in 1..b /\ new[k] = old[from(k)] /\ (k <= at \/ k > at + n)
    <3>1. ~ (j > b + n) /\ ~ (k > b + n)
      BY <1>5
    <3> QED
      BY <1>3, <1>4, <3>1
  <2>2. from(j) # from(k)
    BY <1>2, <1>4, <2>1
  <2> QED
    BY <1>2, <1>4, <2>1, <2>2 DEF DefinedTwice, Double
<1>6. CASE j > b + n /\ k > b + n
  <2>1. /\ j - (b + n) \in 1..s /\ new[j] = snippet[j - (b + n)]
        /\ k - (b + n) \in 1..s /\ new[k] = snippet[k - (b + n)]
    <3>1. ~ (j <= b + n) /\ ~ (k <= b + n)
      BY <1>6
    <3> QED
      BY <1>3, <1>4, <3>1
  <2>2. j - (b + n) # k - (b + n)
    BY <1>4
  <2> QED
    BY <1>2, <1>4, <2>1, <2>2 DEF DefinedTwice, Double
<1>7. ASSUME NEW x \in {j, k}, NEW y \in {j, k}, x <= b + n, y > b + n
      PROVE  /\ \E i \in DOMAIN old : Defines(old[i], name)
             /\ \E i \in DOMAIN snippet : Defines(snippet[i], name)
  <2>1. /\ x \in 1..(b + n + s) /\ Defines(new[x], name) /\ ~ (x > b + n)
        /\ y \in 1..(b + n + s) /\ Defines(new[y], name) /\ ~ (y <= b + n)
    BY <1>4, <1>7
  <2>2. from(x) \in 1..b /\ new[x] = old[from(x)]
    BY <1>3, <2>1
  <2>3. y - (b + n) \in 1..s /\ new[y] = snippet[y - (b + n)]
    BY <1>3, <2>1
  <2> QED
    BY <1>2, <2>1, <2>2, <2>3
<1>8. (j <= b + n \/ j > b + n) /\ (k <= b + n \/ k > b + n)
  OBVIOUS
<1> QED
  BY <1>5, <1>6, <1>7, <1>8 DEF Double

LEMMA AddFunctionIs ==
  ASSUME NEW file \in File, NEW edit \in Change, NEW new \in AddFunction(file, edit)
  PROVE  /\ new \in File
         /\ OnlyAdds(file.items, new.items, edit)
         /\ \A name \in Names :
              DefinedTwice(new.items, name) =>
                \/ DefinedTwice(file.items, name) \/ DefinedTwice(edit.snippet, name)
                \/ name # edit.name /\ \E k \in DOMAIN edit.snippet : Defines(edit.snippet[k], name)
<1>1. PICK merged \in MergeImports(file, edit.imports) :
        new = Finalized(merged.items \o edit.snippet)
  BY DEF AddFunction
<1>2. TopLevel(file.items, edit.name) = 0
  BY DEF AddFunction
<1>3. file.items \in Seq(Item) /\ edit.imports \in Seq(Names) /\ edit.snippet \in Seq(Item)
  BY FileIs, ChangeIs
<1>4. /\ merged.items \in Seq(Item)
      /\ \E at \in 0..Len(file.items), n \in Nat :
           /\ Len(merged.items) = Len(file.items) + n
           /\ SameAround(file.items, merged.items, at + 1, at, n)
           /\ \A k \in (at + 1)..(at + n) : merged.items[k].kind = "import"
  BY <1>1, <1>3, MergedIs
<1>5. PICK at \in 0..Len(file.items), n \in Nat :
        /\ Len(merged.items) = Len(file.items) + n
        /\ SameAround(file.items, merged.items, at + 1, at, n)
        /\ \A k \in (at + 1)..(at + n) : merged.items[k].kind = "import"
  BY <1>4
<1>6. PICK b \in Nat, s \in Nat : b = Len(file.items) /\ s = Len(edit.snippet)
  BY <1>3
<1>7. PICK items : items = merged.items \o edit.snippet
  OBVIOUS
<1>8. /\ items \in Seq(Item) /\ Len(items) = (b + n) + s
      /\ \A k \in 1..((b + n) + s) :
           items[k] = IF k <= b + n THEN merged.items[k] ELSE edit.snippet[k - (b + n)]
  <2>1. /\ items \in Seq(Item) /\ Len(items) = Len(merged.items) + Len(edit.snippet)
        /\ \A k \in 1..(Len(merged.items) + Len(edit.snippet)) :
             items[k] = IF k <= Len(merged.items) THEN merged.items[k]
                        ELSE edit.snippet[k - Len(merged.items)]
    BY <1>3, <1>4, <1>7, ConcatProperties
  <2> QED
    BY <1>5, <1>6, <2>1
<1>9. new \in File /\ new.items = items
  BY <1>1, <1>7, <1>8, FileIs
<1>10. at \in Nat /\ at <= b /\ DOMAIN items = 1..((b + n) + s) /\ DOMAIN merged.items = 1..(b + n)
  BY <1>4, <1>5, <1>6, <1>8
<1>11. \A k \in 1..(b + n) : k \in 1..((b + n) + s) /\ items[k] = merged.items[k]
  <2>1. \A k \in 1..(b + n) : k \in 1..((b + n) + s) /\ k <= b + n
    OBVIOUS
  <2> QED
    BY <1>8, <2>1
<1>12. \A k \in 1..s : items[b + n + k] = edit.snippet[k]
  <2>1. \A k \in 1..s : /\ b + n + k \in 1..((b + n) + s) /\ ~ (b + n + k <= b + n)
                        /\ (b + n + k) - (b + n) = k
    OBVIOUS
  <2> QED
    BY <1>8, <2>1
<1>13. SameAround(file.items, items, at + 1, at, n)
  BY <1>5, <1>10, <1>11 DEF SameAround
<1>14. \A k \in (at + 1)..(at + n) : items[k].kind = "import"
  <2>1. \A k \in (at + 1)..(at + n) : k \in 1..(b + n)
    BY <1>10
  <2> QED
    BY <1>5, <1>11, <2>1
<1>15. OnlyAdds(file.items, items, edit)
  <2>1. n \in 0..Len(items)
    BY <1>8
  <2>2. ASSUME NEW k \in (b + n + 1)..((b + n) + s) PROVE items[k] \in ToSet(edit.snippet)
    <3>1. k - (b + n) \in 1..s /\ b + n + (k - (b + n)) = k
      OBVIOUS
    <3>2. items[k] = edit.snippet[k - (b + n)] /\ k - (b + n) \in DOMAIN edit.snippet
      BY <1>3, <1>6, <1>12, <3>1
    <3> QED
      BY <3>2 DEF ToSet
  <2>3. (Len(file.items) + n + 1)..Len(items) = (b + n + 1)..((b + n) + s)
    BY <1>6, <1>8
  <2>4. \A k \in ((at + 1)..(at + n)) \union ((Len(file.items) + n + 1)..Len(items)) :
          items[k] \in ToSet(edit.snippet) \/ items[k].kind = "import"
    BY <1>14, <2>2, <2>3
  <2> QED
    BY <1>13, <2>1, <2>4 DEF OnlyAdds
<1>16. ASSUME NEW name, DefinedTwice(items, name)
       PROVE  Double(file.items, edit.snippet, name)
  <2>1. /\ Len(items) = Len(file.items) + n + Len(edit.snippet)
        /\ \A k \in 1..Len(edit.snippet) : items[Len(file.items) + n + k] = edit.snippet[k]
    BY <1>6, <1>8, <1>12
  <2>2. Added(file.items, at, n, edit.snippet, items)
    BY <1>13, <1>14, <2>1 DEF Added
  <2> QED
    BY <1>3, <1>8, <1>16, <2>2, AddedTwice
<1>17. \A k \in DOMAIN file.items : ~ Defines(file.items[k], edit.name)
  BY <1>2, <1>3, TopLevelIs
<1> QED
  BY <1>9, <1>15, <1>16, <1>17 DEF Double

-----------------------------------------------------------------------------

\* One item exchanged for a piece.
Exchanged(old, k, piece, new) ==
  /\ new \in Seq(Item) /\ Len(new) = Len(old) + Len(piece) - 1
  /\ SameAround(old, new, k, k, Len(piece))
  /\ \A j \in 1..Len(piece) : new[k - 1 + j] = piece[j]

LEMMA ExchangeIs ==
  ASSUME NEW old \in Seq(Item), NEW piece \in Seq(Item), NEW k \in 1..Len(old),
         NEW new, new = Cut(old, k, k, piece)
  PROVE  Exchanged(old, k, piece, new)
<1>1. PICK b \in Nat, n \in Nat : b = Len(old) /\ n = Len(piece)
  OBVIOUS
<1>2. k \in 1..b
  BY <1>1
<1>3. Spliced(old, k, k, piece, new)
  <2>1. k \in 1..(Len(old) + 1) /\ k \in (k - 1)..Len(old)
    BY <1>1, <1>2
  <2> QED
    BY <2>1, CutIs
<1>4. new \in Seq(Item) /\ Len(new) = (k - 1) + n + (b - k)
  BY <1>1, <1>3 DEF Spliced
<1>5. (k - 1) + n + (b - k) = b + n - 1
  BY <1>2
<1>6. DOMAIN new = 1..(b + n - 1)
  BY <1>4, <1>5
<1>7. SameAround(old, new, k, k, n)
  <2>1. \A j \in 1..(k - 1) : j \in 1..(b + n - 1)
    BY <1>2
  <2>2. \A j \in (k + 1)..b : j + n - (k + 1 - k) \in 1..(b + n - 1)
    BY <1>2
  <2> QED
    BY <1>1, <1>3, <1>6, <2>1, <2>2 DEF SameAround, Spliced
<1>8. \A j \in 1..n : new[k - 1 + j] = piece[j]
  BY <1>1, <1>3 DEF Spliced
<1> QED
  BY <1>1, <1>4, <1>5, <1>7, <1>8 DEF Exchanged

\* A piece put in behind item at.
Inserted(old, at, piece, new) ==
  /\ new \in Seq(Item) /\ Len(new) = Len(old) + Len(piece)
  /\ SameAround(old, new, at + 1, at, Len(piece))
  /\ \A j \in 1..Len(piece) : new[at + j] = piece[j]

LEMMA InsertionIs ==
  ASSUME NEW old \in Seq(Item), NEW piece \in Seq(Item), NEW at \in 0..Len(old),
         NEW from, from = at + 1, NEW new, new = Cut(old, from, at, piece)
  PROVE  Inserted(old, at, piece, new)
<1>1. PICK b \in Nat, n \in Nat : b = Len(old) /\ n = Len(piece)
  OBVIOUS
<1>2. at \in 0..b /\ from - 1 = at
  BY <1>1
<1>3. Spliced(old, from, at, piece, new)
  <2>1. from \in 1..(Len(old) + 1) /\ at \in (from - 1)..Len(old)
    BY <1>1, <1>2
  <2> QED
    BY <2>1, CutIs
<1>4. new \in Seq(Item) /\ Len(new) = at + n + (b - at)
  BY <1>1, <1>2, <1>3 DEF Spliced
<1>5. at + n + (b - at) = b + n
  BY <1>2
<1>6. DOMAIN new = 1..(b + n)
  BY <1>4, <1>5
<1>7. SameAround(old, new, at + 1, at, n)
  <2>1. \A j \in 1..((at + 1) - 1) : j \in 1..(b + n) /\ j \in 1..at
    BY <1>2
  <2>2. \A j \in (at + 1)..b : j + n - (at + 1 - (at + 1)) \in 1..(b + n)
    BY <1>2
  <2> QED
    BY <1>1, <1>2, <1>3, <1>6, <2>1, <2>2 DEF SameAround, Spliced
<1>8. \A j \in 1..n : new[at + j] = piece[j]
  BY <1>1, <1>2, <1>3 DEF Spliced
<1> QED
  BY <1>1, <1>4, <1>5, <1>7, <1>8 DEF Inserted

-----------------------------------------------------------------------------

LEMMA AddMethodIs ==
  ASSUME NEW file \in File, NEW edit \in Change, NEW new \in AddMethod(file, edit)
  PROVE  /\ new \in File
         /\ OnlyExtends(file.items, new.items, edit)
         /\ \A name \in Names :
              DefinedTwice(new.items, name) => DefinedTwice(file.items, name)
<1> DEFINE k == TopLevel(file.items, edit.name)
           items == [file.items EXCEPT ![k].methods = @ \union {edit.new}]
<1>1. /\ k > 0 /\ file.items[k].kind = "class" /\ edit.new \notin file.items[k].methods
      /\ new = Finalized(items)
  BY DEF AddMethod
<1>2. file.items \in Seq(Item) /\ edit.new \in Names
  BY FileIs, ChangeIs
<1>3. k \in 1..Len(file.items) /\ Defines(file.items[k], edit.name)
  <2>1. k \in 0..Len(file.items) /\ Defines(file.items[k], edit.name)
    BY <1>1, <1>2, TopLevelIs
  <2> QED
    BY <1>1, <2>1
<1> HIDE DEF k
<1>4. PICK item : item = [file.items[k] EXCEPT !.methods = @ \union {edit.new}]
  OBVIOUS
<1>5. /\ item \in Item /\ item.kind = "class" /\ item.name = file.items[k].name
      /\ [item EXCEPT !.methods = @ \ {edit.new}] = file.items[k]
  <2>1. file.items[k] \in Item
    BY <1>2, <1>3
  <2>2. item \in Item
    BY <1>2, <1>4, <2>1 DEF Item
  <2>3. item.kind = "class" /\ item.name = file.items[k].name
    BY <1>1, <1>4, <2>1 DEF Item
  <2>4. [item EXCEPT !.methods = @ \ {edit.new}] = file.items[k]
    <3>1. item.methods \ {edit.new} = file.items[k].methods
      BY <1>1, <1>4, <2>1 DEF Item
    <3> QED
      BY <1>4, <2>1, <3>1 DEF Item
  <2> QED
    BY <2>2, <2>3, <2>4
<1>6. items = [file.items EXCEPT ![k] = item]
  BY <1>4
<1> HIDE DEF items
<1>7. /\ items \in Seq(Item) /\ DOMAIN items = DOMAIN file.items
      /\ items[k] = item /\ \A j \in DOMAIN items : j # k => items[j] = file.items[j]
  BY <1>2, <1>3, <1>5, <1>6
<1>8. new \in File /\ new.items = items
  BY <1>1, <1>7, FileIs
<1>9. OnlyExtends(file.items, items, edit)
  BY <1>1, <1>3, <1>5, <1>7 DEF OnlyExtends, Defines
<1>10. ASSUME NEW name, DefinedTwice(items, name) PROVE DefinedTwice(file.items, name)
  <2>1. \A j \in DOMAIN items : Defines(items[j], name) => Defines(file.items[j], name)
    BY <1>1, <1>3, <1>5, <1>7 DEF Defines, IsSymbol
  <2> QED
    BY <1>7, <1>10, <2>1 DEF DefinedTwice
<1> QED
  BY <1>8, <1>9, <1>10

LEMMA ReplaceFunctionIs ==
  ASSUME NEW file \in File, NEW edit \in Change, edit.op # "remove_symbol",
         NEW new \in ReplaceFunction(file, edit)
  PROVE  /\ new \in File
         /\ OnlyExchanges(file.items, new.items, edit)
<1> DEFINE k == TopLevel(file.items, edit.name)
<1>1. k > 0 /\ new = Finalized(Cut(file.items, k, k, edit.snippet))
  BY DEF ReplaceFunction
<1>2. file.items \in Seq(Item) /\ edit.snippet \in Seq(Item)
  BY FileIs, ChangeIs
<1>3. k \in 1..Len(file.items) /\ Defines(file.items[k], edit.name)
  <2>1. k \in 0..Len(file.items) /\ Defines(file.items[k], edit.name)
    BY <1>1, <1>2, TopLevelIs
  <2> QED
    BY <1>1, <2>1
<1> HIDE DEF k
<1>4. PICK items : items = Cut(file.items, k, k, edit.snippet)
  OBVIOUS
<1>5. /\ items \in Seq(Item) /\ Len(items) = Len(file.items) + Len(edit.snippet) - 1
      /\ SameAround(file.items, items, k, k, Len(edit.snippet))
      /\ \A j \in 1..Len(edit.snippet) : items[k - 1 + j] = edit.snippet[j]
  <2>1. Exchanged(file.items, k, edit.snippet, items)
    BY <1>2, <1>3, <1>4, ExchangeIs
  <2> QED
    BY <1>2, <2>1 DEF Exchanged
<1>6. Len(items) + 1 - Len(file.items) = Len(edit.snippet)
  BY <1>2, <1>5
<1>7. new \in File /\ new.items = items
  BY <1>1, <1>4, <1>5, FileIs
<1>8. OnlyExchanges(file.items, items, edit)
  <2>1. k \in DOMAIN file.items
    BY <1>2, <1>3
  <2> QED
    BY <1>3, <1>5, <1>6, <2>1 DEF OnlyExchanges, Defines
<1> QED
  BY <1>7, <1>8

LEMMA RemoveSymbolIs ==
  ASSUME NEW file \in File, NEW edit \in Change, edit.op = "remove_symbol",
         NEW new \in RemoveSymbol(file, edit)
  PROVE  /\ new \in File
         /\ OnlyExchanges(file.items, new.items, edit)
         /\ \A name \in Names :
              DefinedTwice(new.items, name) => DefinedTwice(file.items, name)
<1> DEFINE k == TopLevel(file.items, edit.name)
<1>1. k > 0 /\ new = Finalized(Cut(file.items, k, k, <<>>))
  BY DEF RemoveSymbol
<1>2. file.items \in Seq(Item) /\ <<>> \in Seq(Item) /\ Len(<<>>) = 0
  BY FileIs, EmptySeq
<1>3. k \in 1..Len(file.items) /\ Defines(file.items[k], edit.name)
  <2>1. k \in 0..Len(file.items) /\ Defines(file.items[k], edit.name)
    BY <1>1, <1>2, TopLevelIs
  <2> QED
    BY <1>1, <2>1
<1> HIDE DEF k
<1>4. PICK items : items = Cut(file.items, k, k, <<>>)
  OBVIOUS
<1>5. /\ items \in Seq(Item) /\ Len(items) = Len(file.items) + 0 - 1
      /\ SameAround(file.items, items, k, k, 0)
  <2>1. Exchanged(file.items, k, <<>>, items)
    BY <1>2, <1>3, <1>4, ExchangeIs
  <2> QED
    BY <1>2, <2>1 DEF Exchanged
<1>6. PICK b \in Nat : b = Len(file.items)
  BY <1>2
<1>7. Len(items) + 1 - Len(file.items) = 0 /\ k \in 1..b /\ Len(items) = b - 1
  BY <1>3, <1>5, <1>6
<1>8. new \in File /\ new.items = items
  BY <1>1, <1>4, <1>5, FileIs
<1>9. DOMAIN file.items = 1..b /\ DOMAIN items = 1..(b - 1)
  BY <1>2, <1>5, <1>6, <1>7
<1>10. OnlyExchanges(file.items, items, edit)
  <2>1. \A j \in 1..0 : items[k - 1 + j] = edit.snippet[j]
    OBVIOUS
  <2> QED
    BY <1>3, <1>5, <1>7, <1>9, <2>1 DEF OnlyExchanges, Defines
<1>11. ASSUME NEW name, DefinedTwice(items, name) PROVE DefinedTwice(file.items, name)
  <2> DEFINE from(j) == IF j < k THEN j ELSE j + 1
  <2>1. ASSUME NEW j \in 1..(b - 1)
        PROVE  from(j) \in 1..b /\ items[j] = file.items[from(j)]
    <3>1. CASE j < k
      <4>1. j \in 1..(k - 1) /\ j \in 1..b
        BY <1>7, <3>1
      <4> QED
        BY <1>5, <3>1, <4>1 DEF SameAround
    <3>2. CASE ~ (j < k)
      <4>1. j + 1 \in (k + 1)..b /\ (j + 1) + 0 - (k + 1 - k) = j /\ j + 1 \in 1..b
        BY <1>7, <3>2
      <4>2. items[(j + 1) + 0 - (k + 1 - k)] = file.items[j + 1]
        BY <1>5, <1>6, <4>1 DEF SameAround
      <4> QED
        BY <3>2, <4>1, <4>2
    <3> QED
      BY <3>1, <3>2
  <2>2. \A i, j \in 1..(b - 1) : i # j => from(i) # from(j)
    BY <1>7
  <2> HIDE DEF from
  <2>3. PICK i \in 1..(b - 1), j \in 1..(b - 1) :
          i # j /\ Defines(items[i], name) /\ Defines(items[j], name)
    BY <1>9, <1>11 DEF DefinedTwice
  <2> QED
    BY <1>9, <2>1, <2>2, <2>3 DEF DefinedTwice
<1> QED
  BY <1>8, <1>10, <1>11

RenamedTo(item, old, new, renamed) ==
  /\ renamed \in Item /\ renamed.kind = item.kind
  /\ renamed.name = Renamed(item.name, old, new)
  /\ new \notin {item.name} \union item.methods \union item.uses =>
       RenamedItem(renamed, new, old) = item

LEMMA RenamedItemIs ==
  ASSUME NEW item \in Item, NEW old \in Names, NEW new \in Names,
         NEW renamed, renamed = RenamedItem(item, old, new)
  PROVE  RenamedTo(item, old, new, renamed)
<1>1. \A n : Renamed(n, old, new) = IF n = old THEN new ELSE n
  BY DEF Renamed
<1>2. \A n : Renamed(n, new, old) = IF n = new THEN old ELSE n
  BY DEF Renamed
<1> DEFINE there(S) == {Renamed(n, old, new) : n \in S}
           back(S) == {Renamed(n, new, old) : n \in S}
<1>3. renamed = [item EXCEPT !.name = Renamed(@, old, new), !.methods = there(@), !.uses = there(@)]
  BY DEF RenamedItem
<1>4. RenamedItem(renamed, new, old) =
        [renamed EXCEPT !.name = Renamed(@, new, old), !.methods = back(@), !.uses = back(@)]
  BY DEF RenamedItem
<1>5. \A S \in SUBSET Names : there(S) \in SUBSET Names
  BY <1>1
<1>6. ASSUME NEW S, new \notin S PROVE back(there(S)) = S
  BY <1>1, <1>2, <1>6
<1>7. item.name # new => Renamed(Renamed(item.name, old, new), new, old) = item.name
  BY <1>1, <1>2
<1> HIDE DEF there, back
<1>8. /\ renamed.kind = item.kind /\ renamed.sound = item.sound
      /\ renamed.name = Renamed(item.name, old, new)
      /\ renamed.methods = there(item.methods) /\ renamed.uses = there(item.uses)
  BY <1>3 DEF Item
<1>9. renamed \in Item
  <2>1. Renamed(item.name, old, new) \in Names
    BY <1>1 DEF Item
  <2> QED
    BY <1>3, <1>5, <2>1 DEF Item
<1>10. ASSUME new \notin {item.name} \union item.methods \union item.uses
       PROVE  RenamedItem(renamed, new, old) = item
  <2>1. /\ Renamed(renamed.name, new, old) = item.name
        /\ back(renamed.methods) = item.methods /\ back(renamed.uses) = item.uses
    BY <1>6, <1>7, <1>8, <1>10
  <2>2. RenamedItem(renamed, new, old) =
          [renamed EXCEPT !.name = item.name, !.methods = item.methods, !.uses = item.uses]
    BY <1>4, <2>1
  <2> QED
    BY <1>8, <1>9, <2>2 DEF Item
<1> QED
  BY <1>8, <1>9, <1>10 DEF RenamedTo

LEMMA RenameSymbolIs ==
  ASSUME NEW file \in File, NEW edit \in Change, NEW new \in RenameSymbol(file, edit)
  PROVE  /\ new \in File
         /\ edit.new \notin Mentioned(file.items) => IsReversible(file.items, new.items, edit)
         /\ \A name \in Names :
              DefinedTwice(new.items, name) =>
                DefinedTwice(file.items, IF name = edit.new THEN edit.name ELSE name)
<1> DEFINE items == [k \in DOMAIN file.items |-> RenamedItem(file.items[k], edit.name, edit.new)]
<1>1. TopLevel(file.items, edit.new) = 0 /\ new = Finalized(items)
  BY DEF RenameSymbol
<1>2. file.items \in Seq(Item) /\ edit.name \in Names /\ edit.new \in Names
  BY FileIs, ChangeIs
<1>3. \A k \in DOMAIN file.items : file.items[k] \in Item /\ ~ Defines(file.items[k], edit.new)
  BY <1>1, <1>2, TopLevelIs
<1>4. ASSUME NEW k \in DOMAIN file.items
      PROVE  /\ items[k] \in Item /\ items[k].kind = file.items[k].kind
             /\ items[k].name = Renamed(file.items[k].name, edit.name, edit.new)
             /\ edit.new \notin Mentioned(file.items) =>
                  RenamedItem(items[k], edit.new, edit.name) = file.items[k]
  <2>1. file.items[k] \in ToSet(file.items)
    BY DEF ToSet
  <2>2. edit.new \notin Mentioned(file.items) =>
          edit.new \notin {file.items[k].name} \union file.items[k].methods \union file.items[k].uses
    BY <2>1 DEF Mentioned
  <2>3. items[k] = RenamedItem(file.items[k], edit.name, edit.new)
    OBVIOUS
  <2> HIDE DEF items
  <2>4. file.items[k] \in Item
    BY <1>3
  <2>5. RenamedTo(file.items[k], edit.name, edit.new, items[k])
    BY <1>2, <2>3, <2>4, RenamedItemIs
  <2> QED
    BY <2>2, <2>5 DEF RenamedTo
<1>5. DOMAIN items = DOMAIN file.items
  OBVIOUS
<1> HIDE DEF items
<1>6. items \in Seq(Item)
  <2>1. DOMAIN items = 1..Len(file.items) /\ Len(file.items) \in Nat
    BY <1>2, <1>5
  <2>2. items \in [1..Len(file.items) -> Item]
    <3>1. items = [k \in DOMAIN items |-> items[k]]
      BY DEF items
    <3> QED
      BY <1>4, <1>5, <2>1, <3>1
  <2> QED
    BY <2>1, <2>2, SeqDef
<1>7. new \in File /\ new.items = items
  BY <1>1, <1>6, FileIs
<1>8. ASSUME edit.new \notin Mentioned(file.items)
      PROVE  IsReversible(file.items, items, edit)
  <2>1. \A k \in DOMAIN items : RenamedItem(items[k], edit.new, edit.name) = file.items[k]
    BY <1>4, <1>5, <1>8
  <2>2. file.items = [k \in DOMAIN items |-> file.items[k]]
    BY <1>2, <1>5
  <2>3. [k \in DOMAIN items |-> RenamedItem(items[k], edit.new, edit.name)]
          = [k \in DOMAIN items |-> file.items[k]]
    BY <2>1
  <2> QED
    BY <2>2, <2>3 DEF IsReversible
<1>9. ASSUME NEW name, DefinedTwice(items, name)
      PROVE  DefinedTwice(file.items, IF name = edit.new THEN edit.name ELSE name)
  <2> DEFINE before == IF name = edit.new THEN edit.name ELSE name
  <2>1. ASSUME NEW k \in DOMAIN items, Defines(items[k], name)
        PROVE  Defines(file.items[k], before)
    <3>1. IsSymbol(file.items[k]) /\ Renamed(file.items[k].name, edit.name, edit.new) = name
      BY <1>4, <1>5, <2>1 DEF Defines, IsSymbol
    <3>2. file.items[k].name # edit.new
      BY <1>3, <1>5, <3>1 DEF Defines
    <3> QED
      BY <3>1, <3>2 DEF Renamed, Defines
  <2> HIDE DEF before
  <2>2. DefinedTwice(file.items, before)
    BY <1>5, <1>9, <2>1 DEF DefinedTwice
  <2> QED
    BY <2>2 DEF before
<1> QED
  BY <1>7, <1>8, <1>9

-----------------------------------------------------------------------------

\* A block put in at an anchor adds and no more.
LEMMA InsertedAdds ==
  ASSUME NEW old \in Seq(Item), NEW edit \in Change, NEW at \in 0..Len(old), NEW new,
         Inserted(old, at, edit.snippet, new)
  PROVE  OnlyAdds(old, new, edit)
<1>0. edit.snippet \in Seq(Item)
  BY ChangeIs
<1>1. PICK b \in Nat, n \in Nat : b = Len(old) /\ n = Len(edit.snippet)
  BY <1>0
<1>2. /\ new \in Seq(Item) /\ Len(new) = b + n
      /\ SameAround(old, new, at + 1, at, n)
      /\ \A j \in 1..n : new[at + j] = edit.snippet[j]
  BY <1>1 DEF Inserted
<1>3. at \in Nat /\ n \in 0..Len(new) /\ DOMAIN edit.snippet = 1..n
  BY <1>0, <1>1, <1>2
<1>4. ASSUME NEW k \in ((at + 1)..(at + n)) \union ((b + n + 1)..(b + n))
      PROVE  new[k] \in ToSet(edit.snippet)
  <2>1. k - at \in 1..n /\ at + (k - at) = k
    BY <1>1, <1>3
  <2>2. new[k] = edit.snippet[k - at]
    BY <1>2, <2>1
  <2> QED
    BY <1>3, <2>1, <2>2 DEF ToSet
<1> QED
  BY <1>1, <1>2, <1>3, <1>4 DEF OnlyAdds

LEMMA GarbledIs ==
  ASSUME NEW file \in File, 1 \in DOMAIN file.items
  PROVE  Garbled(file) \in File /\ ~ Parses(Garbled(file))
<1> DEFINE item == [kind |-> "broken", name |-> file.items[1].name, methods |-> {},
                    uses |-> {}, sound |-> FALSE]
<1>1. file.items \in Seq(Item)
  BY FileIs
<1>2. file.items[1] \in Item
  BY <1>1
<1>3. item \in Item
  BY <1>2 DEF Item, ItemKinds
<1>4. item.kind = "broken"
  OBVIOUS
<1>5. Garbled(file) = [file EXCEPT !.items = <<item>>]
  BY DEF Garbled
<1> HIDE DEF item
<1>6. <<item>> \in Seq(Item)
  BY <1>3
<1>7. Garbled(file) \in File /\ Garbled(file).items = <<item>>
  BY <1>5, <1>6, FileWith
<1>8. 1 \in DOMAIN <<item>> /\ <<item>>[1] = item
  OBVIOUS
<1> QED
  BY <1>4, <1>7, <1>8 DEF Parses, Whole

LEMMA InsertedAfterIs ==
  ASSUME NEW file \in File, NEW edit \in Change, NEW k \in DOMAIN file.items,
         NEW new, new = InsertedAfter(file, k, edit.snippet)
  PROVE  /\ new \in File
         /\ OnlyAdds(file.items, new.items, edit) \/ ~ file.ended
<1>1. /\ file.items \in Seq(Item) /\ edit.snippet \in Seq(Item)
      /\ k \in 1..Len(file.items) /\ k \in 0..Len(file.items)
  <2>1. file.items \in Seq(Item) /\ edit.snippet \in Seq(Item)
    BY FileIs, ChangeIs
  <2>2. k \in 1..Len(file.items)
    BY <2>1
  <2>3. \A b \in Nat : \A j \in 1..b : j \in 0..b
    OBVIOUS
  <2>4. Len(file.items) \in Nat
    BY <2>1
  <2> QED
    BY <2>1, <2>2, <2>3, <2>4
<1>2. CASE k < Len(file.items) \/ file.ended
  <2>1. PICK from, items : from = k + 1 /\ items = Cut(file.items, from, k, edit.snippet)
    OBVIOUS
  <2>2. Inserted(file.items, k, edit.snippet, items)
    BY <1>1, <2>1, InsertionIs
  <2>3. items \in Seq(Item) /\ OnlyAdds(file.items, items, edit)
    BY <1>1, <2>2, InsertedAdds DEF Inserted
  <2>4. new = [file EXCEPT !.items = items]
    BY <1>2, <2>1 DEF InsertedAfter
  <2>5. new \in File /\ new.items = items
    BY <2>3, <2>4, FileWith
  <2> QED
    BY <2>3, <2>5
<1>3. CASE ~ (k < Len(file.items) \/ file.ended)
  <2> DEFINE joined == [file.items[k] EXCEPT !.uses = @ \union {Head(edit.snippet).name}]
             items == IF edit.snippet = <<>> THEN file.items
                      ELSE Cut(file.items, k, k, <<joined>> \o Tail(edit.snippet))
  <2>1. new = [file EXCEPT !.items = items, !.ended = TRUE]
    BY <1>3 DEF InsertedAfter
  <2>2. items \in Seq(Item)
    <3>1. CASE edit.snippet = <<>>
      BY <1>1, <3>1
    <3>2. CASE edit.snippet # <<>>
      <4>1. Head(edit.snippet) \in Item /\ Tail(edit.snippet) \in Seq(Item)
        BY <1>1, <3>2, HeadTailProperties
      <4>2. file.items[k] \in Item
        BY <1>1
      <4>3. joined \in Item
        BY <4>1, <4>2 DEF Item
      <4> HIDE DEF joined
      <4>4. <<joined>> \o Tail(edit.snippet) \in Seq(Item)
        BY <4>1, <4>3, ConcatProperties
      <4>5. PICK piece : piece = <<joined>> \o Tail(edit.snippet)
        OBVIOUS
      <4>6. Exchanged(file.items, k, piece, items)
        BY <1>1, <3>2, <4>4, <4>5, ExchangeIs
      <4> QED
        BY <4>6 DEF Exchanged
    <3> QED
      BY <3>1, <3>2
  <2> HIDE DEF items
  <2>3. new \in File
    BY <2>1, <2>2 DEF File
  <2> QED
    BY <1>3, <2>3
<1> QED
  BY <1>2, <1>3

LEMMA InsertedBeforeIs ==
  ASSUME NEW file \in File, NEW edit \in Change, NEW k \in DOMAIN file.items,
         NEW new, new = InsertedBefore(file, k, edit.snippet)
  PROVE  new \in File /\ OnlyAdds(file.items, new.items, edit)
<1>1. file.items \in Seq(Item) /\ edit.snippet \in Seq(Item)
  BY FileIs, ChangeIs
<1>2. PICK at : at = k - 1 /\ at \in 0..Len(file.items) /\ k = at + 1
  BY <1>1
<1>3. PICK items : items = Cut(file.items, k, at, edit.snippet)
  OBVIOUS
<1>4. Inserted(file.items, at, edit.snippet, items)
  BY <1>1, <1>2, <1>3, InsertionIs
<1>5. items \in Seq(Item) /\ OnlyAdds(file.items, items, edit)
  BY <1>1, <1>2, <1>4, InsertedAdds DEF Inserted
<1>6. new = [file EXCEPT !.items = items]
  BY <1>2, <1>3 DEF InsertedBefore
<1>7. new \in File /\ new.items = items
  BY <1>5, <1>6, FileWith
<1> QED
  BY <1>5, <1>7

LEMMA AnchoredIs ==
  ASSUME NEW file \in File, NEW edit \in Change, NEW new \in Anchored(file, edit)
  PROVE  /\ new \in File
         /\ \/ OnlyAdds(file.items, new.items, edit)
            \/ ~ Parses(new)
            \/ ~ file.ended /\ edit.op = "insert_after_anchor"
<1>1. PICK k \in AnchorLines(file.items, edit) :
        \/ edit.op = "insert_after_anchor" /\ new = InsertedAfter(file, k, edit.snippet)
        \/ new = InsertedBefore(file, k, edit.snippet)
        \/ new = Garbled(file)
  BY DEF Anchored
<1>2. k \in DOMAIN file.items /\ 1 \in DOMAIN file.items
  <2>1. k \in DOMAIN file.items
    BY DEF AnchorLines
  <2>2. file.items \in Seq(Item)
    BY FileIs
  <2> QED
    BY <2>1, <2>2
<1>3. CASE edit.op = "insert_after_anchor" /\ new = InsertedAfter(file, k, edit.snippet)
  BY <1>2, <1>3, InsertedAfterIs
<1>4. CASE new = InsertedBefore(file, k, edit.snippet)
  BY <1>2, <1>4, InsertedBeforeIs
<1>5. CASE new = Garbled(file)
  BY <1>2, <1>5, GarbledIs
<1> QED
  BY <1>1, <1>3, <1>4, <1>5

-----------------------------------------------------------------------------

\* What EditsAreLocal says of one edit.
Local(old, new, edit) ==
  /\ \/ KeepsRest(old.items, new.items, edit)
     \/ ~ Parses(new)
     \/ ~ old.ended /\ edit.op = "insert_after_anchor"
  /\ \A n \in Names :
       /\ edit.op \in {"add_function", "add_method", "remove_symbol", "rename_symbol"}
       /\ DefinedTwice(new.items, n)
       => \/ DefinedTwice(old.items, IF edit.op = "rename_symbol" /\ n = edit.new THEN edit.name ELSE n)
          \/ Unseen(edit, n)

LEMMA TransformIs ==
  ASSUME NEW file \in File, NEW edit \in Change, NEW new \in Transform(file, edit)
  PROVE  new \in File /\ Local(file, new, edit)
<1>1. CASE edit.op = "add_function"
  <2>1. new \in AddFunction(file, edit)
    BY <1>1 DEF Transform
  <2>2. KeepsRest(file.items, new.items, edit)
    BY <1>1, <2>1, AddFunctionIs DEF KeepsRest
  <2> QED
    BY <1>1, <2>1, <2>2, AddFunctionIs DEF Local, Unseen
<1>2. CASE edit.op = "add_method"
  <2>1. new \in AddMethod(file, edit)
    BY <1>2 DEF Transform
  <2>2. KeepsRest(file.items, new.items, edit)
    BY <1>2, <2>1, AddMethodIs DEF KeepsRest
  <2> QED
    BY <1>2, <2>1, <2>2, AddMethodIs DEF Local
<1>3. CASE edit.op = "replace_function"
  <2>1. new \in ReplaceFunction(file, edit)
    BY <1>3 DEF Transform
  <2>2. new \in File /\ OnlyExchanges(file.items, new.items, edit)
    BY <1>3, <2>1, ReplaceFunctionIs
  <2> QED
    BY <1>3, <2>2 DEF Local, KeepsRest
<1>4. CASE edit.op = "remove_symbol"
  <2>1. new \in RemoveSymbol(file, edit)
    BY <1>4 DEF Transform
  <2>2. KeepsRest(file.items, new.items, edit)
    BY <1>4, <2>1, RemoveSymbolIs DEF KeepsRest
  <2> QED
    BY <1>4, <2>1, <2>2, RemoveSymbolIs DEF Local
<1>5. CASE edit.op = "rename_symbol"
  <2>1. new \in RenameSymbol(file, edit)
    BY <1>5 DEF Transform
  <2>2. KeepsRest(file.items, new.items, edit)
    BY <1>5, <2>1, RenameSymbolIs DEF KeepsRest
  <2> QED
    BY <1>5, <2>1, <2>2, RenameSymbolIs DEF Local
<1>6. CASE edit.op \notin {"add_function", "add_method", "replace_function",
                           "remove_symbol", "rename_symbol"}
  <2>1. new \in Anchored(file, edit)
    BY <1>6 DEF Transform
  <2>2. OnlyAdds(file.items, new.items, edit) => KeepsRest(file.items, new.items, edit)
    BY <1>6 DEF KeepsRest
  <2> QED
    BY <1>6, <2>1, <2>2, AnchoredIs DEF Local
<1> QED
  BY <1>1, <1>2, <1>3, <1>4, <1>5, <1>6

-----------------------------------------------------------------------------
(***************************************************************************)
(* The edits on the branch.  The invariant: every row of an edit, and the  *)
(* edit that is not judged, tells of a text that the engine gives for the  *)
(* edit and for the text that the commit found.  So what holds of one edit *)
(* holds of the branch, after any reverts.                                 *)
(***************************************************************************)

\* A tree has a text at each path, or nothing.
Trees == [Paths -> File \union {NoFile}]

Filed == base \in Trees /\ log \in Seq(Trees)

\* The new text is one that the engine gives for the edit and the old text.
FromEdit(old, new, edit, path) ==
  path \in Paths /\ edit \in Change /\ old # NoFile /\ new \in Transform(old, edit)

\* The row of an edit tells what its commit has made of the text before it.
RowFromEdit(i) ==
  FromEdit(Before(rows[i].commit)[rows[i].path], log[rows[i].commit][rows[i].path], rows[i].edit, rows[i].path)

PendingFromEdit ==
  pending # NoEdit =>
    FromEdit(Before(Len(log))[pending.path], Tip[pending.path], pending.edit, pending.path)

EditInv == /\ Filed /\ PendingFromEdit
           /\ \A i \in Edited : RowFromEdit(i)

\* A row whose commit and the one before stay.
LEMMA RowStays ==
  ASSUME NEW i, i \in Applied, i \in Applied', rows'[i] = rows[i],
         base' = base, NEW n \in Nat, rows[i].commit \in 1..n,
         \A k \in 1..n : log'[k] = log[k]
  PROVE  /\ i \in Edited' => i \in Edited
         /\ RowFromEdit(i) => RowFromEdit(i)'
<1>1. PICK k \in 1..n : k = rows[i].commit
  OBVIOUS
<1>2. log'[k] = log[k] /\ Before(k)' = Before(k)
  BY BeforeStays
<1>3. /\ rows'[i].commit = k /\ rows'[i].path = rows[i].path
      /\ rows'[i].edit = rows[i].edit /\ rows'[i].file = rows[i].file
  BY <1>1
<1>4. PICK old, new : /\ old = Before(k) /\ Before(k)' = old /\ old = Before(rows[i].commit)
                      /\ new = log[k] /\ log'[k] = new
  BY <1>1, <1>2
<1>5. Before(rows[i].commit)' = old
  BY <1>3, <1>4 DEF Before
<1> QED
  BY <1>1, <1>3, <1>4, <1>5 DEF Edited, RowFromEdit

\* A commit on top.
LEMMA CommitIs ==
  ASSUME NEW F, log \in Seq(F), NEW tree \in F, log' = Append(log, tree), base' = base
  PROVE  /\ log' \in Seq(F) /\ Len(log') = Len(log) + 1 /\ Len(log) \in Nat
         /\ \A k \in 1..Len(log) : log'[k] = log[k]
         /\ Before(Len(log))' = Tip /\ Tip' = tree
<1>1. PICK n \in Nat : n = Len(log)
  OBVIOUS
<1>2. /\ log' \in Seq(F) /\ Len(log') = n + 1 /\ log' # <<>>
      /\ \A k \in 1..n : log'[k] = log[k]
      /\ log'[n + 1] = tree
  BY <1>1
<1>3. Tip' = tree
  BY <1>2 DEF Tip, Last
<1>4. CASE log = <<>>
  <2>1. Len(log') = 1
    BY <1>1, <1>2, <1>4
  <2> QED
    BY <1>1, <1>2, <1>3, <1>4, <2>1 DEF Before, Tip
<1>5. CASE log # <<>>
  <2>1. n # 0
    BY <1>1, <1>5, EmptySeq
  <2>2. Len(log') # 1 /\ Len(log') - 1 = n /\ n \in 1..n
    BY <1>2, <2>1
  <2>3. Before(Len(log))' = log[n]
    BY <1>2, <2>2 DEF Before
  <2>4. Tip = log[n]
    BY <1>1, <1>5 DEF Tip, Last
  <2> QED
    BY <1>1, <1>2, <1>3, <2>3, <2>4
<1> QED
  BY <1>4, <1>5

LEMMA EditInit == SandboxInit => EditInv
<1> SUFFICES ASSUME SandboxInit PROVE EditInv
  OBVIOUS
<1>1. PICK source \in Sources :
        base = [p \in Paths |-> IF p = "target" THEN source ELSE NoFile]
  BY DEF SandboxInit
<1>2. source \in File \union {NoFile}
  BY FilesAssumption DEF FilesAssumption
<1>3. base \in Trees
  BY <1>1, <1>2 DEF Trees
<1>4. log = <<>> /\ rows = <<>> /\ pending = NoEdit
  BY DEF SandboxInit
<1>5. Edited = {}
  BY <1>4 DEF Edited, Applied
<1> QED
  BY <1>3, <1>4, <1>5, EmptySeq DEF EditInv, Filed, PendingFromEdit

\* A planned modification is one that the engine gives for its specification.
LEMMA PlanEdits ==
  ASSUME NEW spec \in Specs, base \in Trees, NEW plan \in Plans(spec)
  PROVE  /\ plan[1] \in Trees
         /\ plan[2].edit.op \in Operations /\ base[plan[2].path] # NoFile =>
              FromEdit(base[plan[2].path], plan[1][plan[2].path], plan[2].edit, plan[2].path)
<1> DEFINE deleted == [base EXCEPT !["target"] = NoFile]
           moved == [base EXCEPT !["target"] = NoFile, !["moved"] = base["target"]]
<1>1. spec \in Change /\ spec.content \subseteq File
  BY FilesAssumption, ChangeIs DEF FilesAssumption
<1>2. {"target", "moved"} \subseteq Paths /\ \A p \in Paths : base[p] \in File \union {NoFile}
  BY DEF Paths, Trees
<1>3. \A file \in File \union {NoFile} : [base EXCEPT !["target"] = file] \in Trees
  BY <1>2 DEF Trees
<1>4. CASE base["target"] # NoFile /\ spec.op = "delete_file"
  <2>1. plan = <<deleted, Row("delete", "target", spec, deleted, 1)>>
    BY <1>4 DEF Plans
  <2>2. deleted \in Trees
    BY <1>3
  <2> HIDE DEF deleted
  <2>3. plan[1] = deleted /\ plan[2].edit = spec
    BY <2>1 DEF Row
  <2> QED
    BY <1>4, <2>2, <2>3 DEF Operations
<1>5. CASE base["target"] # NoFile /\ spec.op = "rename_file"
  <2>1. plan = <<moved, Row("rename", "moved", spec, moved, 1)>>
    BY <1>5 DEF Plans
  <2>2. moved \in Trees
    BY <1>2 DEF Trees
  <2> HIDE DEF moved
  <2>3. plan[1] = moved /\ plan[2].edit = spec
    BY <2>1 DEF Row
  <2> QED
    BY <1>5, <2>2, <2>3 DEF Operations
<1>6. CASE base["target"] # NoFile /\ spec.op \notin {"delete_file", "rename_file"}
  <2>1. PICK file \in Transform(base["target"], spec) :
          plan = <<[base EXCEPT !["target"] = file],
                   Row("modify", "target", spec, [base EXCEPT !["target"] = file], 1)>>
    BY <1>6 DEF Plans
  <2>2. PICK tree : tree = [base EXCEPT !["target"] = file]
    OBVIOUS
  <2>3. plan[1] = tree /\ plan[2].edit = spec /\ plan[2].path = "target"
    BY <2>1, <2>2 DEF Row
  <2>4. base["target"] \in File
    BY <1>2, <1>6
  <2>5. file \in File
    BY <1>1, <2>4, TransformIs
  <2>6. tree \in Trees /\ tree["target"] = file
    BY <1>2, <1>3, <2>2, <2>5 DEF Trees
  <2> QED
    BY <1>1, <1>2, <1>6, <2>3, <2>6 DEF FromEdit
<1>7. CASE base["target"] = NoFile
  <2>1. PICK file \in spec.content :
          plan = <<[base EXCEPT !["target"] = file],
                   Row("create", "target", spec, [base EXCEPT !["target"] = file], 1)>>
    BY <1>7 DEF Plans
  <2>2. PICK tree : tree = [base EXCEPT !["target"] = file]
    OBVIOUS
  <2>3. plan[1] = tree /\ plan[2].path = "target"
    BY <2>1, <2>2 DEF Row
  <2>4. tree \in Trees
    BY <1>1, <1>3, <2>2
  <2> QED
    BY <1>7, <2>3, <2>4
<1> QED
  BY <1>4, <1>5, <1>6, <1>7

LEMMA PlanAndApplyFromEdit == BranchInv /\ EditInv /\ PlanAndApply => EditInv'
<1> SUFFICES ASSUME BranchInv, EditInv, PlanAndApply PROVE EditInv'
  OBVIOUS
<1>1. /\ log = <<>> /\ rows = <<>> /\ pending = NoEdit /\ base \in Trees
      /\ UNCHANGED <<base, suite, pending, edits, slow>>
  BY DEF PlanAndApply, Untouched, BranchInv, Shape, EditInv, Filed
<1>2. PendingFromEdit'
  BY <1>1 DEF PendingFromEdit
<1>3. ASSUME NEW spec \in Specs, NEW plan \in Plans(spec),
             log' = <<plan[1]>>, rows' = <<plan[2]>>
      PROVE  EditInv'
  <2>1. /\ plan[1] \in Trees
        /\ plan[2].edit.op \in Operations /\ base[plan[2].path] # NoFile =>
             FromEdit(base[plan[2].path], plan[1][plan[2].path], plan[2].edit, plan[2].path)
    BY <1>1, <1>3, PlanEdits
  <2>2. plan[2].status = "applied" /\ plan[2].commit = 1
    <3>1. PICK F : base \in [Paths -> F]
      BY DEF BranchInv, Shape
    <3> QED
      BY <1>3, <3>1, PlanTells
  <2>3. log' \in Seq(Trees)
    BY <1>3, <2>1
  <2>4. Applied' = {1}
    BY <1>3, <2>2 DEF Applied
  <2>5. rows'[1] = plan[2] /\ rows'[1].commit = 1
    BY <1>3, <2>2
  <2>6. Before(rows[1].commit)' = base /\ log'[rows'[1].commit] = plan[1] /\ rows'[1] = plan[2]
    BY <1>1, <1>3, <2>5 DEF Before
  <2>7. ASSUME NEW i \in Edited' PROVE RowFromEdit(i)'
    <3>1. i = 1
      BY <2>4, <2>7 DEF Edited
    <3>2. plan[2].edit.op \in Operations /\ base[plan[2].path] # NoFile
      BY <2>6, <2>7, <3>1 DEF Edited
    <3> QED
      BY <2>1, <2>6, <3>1, <3>2 DEF RowFromEdit
  <2> QED
    BY <1>1, <1>2, <2>3, <2>7 DEF EditInv, Filed
<1>4. ASSUME UNCHANGED <<log, rows>> PROVE EditInv'
  <2>1. Edited' = {}
    BY <1>1, <1>4 DEF Edited, Applied
  <2> QED
    BY <1>1, <1>2, <1>4, <2>1 DEF EditInv, Filed
<1> QED
  BY <1>3, <1>4 DEF PlanAndApply

LEMMA ApplyGeneratedFromEdit == BranchInv /\ EditInv /\ ApplyGenerated => EditInv'
<1> SUFFICES ASSUME BranchInv, EditInv, ApplyGenerated PROVE EditInv'
  OBVIOUS
<1>1. /\ pending = NoEdit /\ base \in Trees
      /\ UNCHANGED <<base, suite, pending, edits, slow>>
  BY DEF ApplyGenerated, Untouched, BranchInv, Shape, EditInv, Filed
<1>2. PICK draft \in Drafts :
        \E first, all :
          /\ first = [base EXCEPT !["target"] = draft.code, !["test"] = draft.test]
          /\ all = [first EXCEPT !["notes"] = draft.notes]
          /\ log' = <<first, all>>
          /\ rows' = <<Row("create", "target", NoEdit, first, 1),
                       Row("create", "test", NoEdit, first, 1),
                       Row("create", "notes", NoEdit, all, 2)>>
  BY DEF ApplyGenerated
<1>3. draft.code \in File /\ draft.test \in File /\ draft.notes \in File
  BY FilesAssumption DEF FilesAssumption
<1>4. PICK first, all :
        /\ first = [base EXCEPT !["target"] = draft.code, !["test"] = draft.test]
        /\ all = [first EXCEPT !["notes"] = draft.notes]
        /\ log' = <<first, all>>
        /\ rows' = <<Row("create", "target", NoEdit, first, 1),
                     Row("create", "test", NoEdit, first, 1),
                     Row("create", "notes", NoEdit, all, 2)>>
  BY <1>2
<1>5. log' \in Seq(Trees)
  <2>1. first \in Trees /\ all \in Trees
    BY <1>1, <1>3, <1>4 DEF Trees, Paths
  <2> QED
    BY <1>4, <2>1
<1>6. Edited' = {}
  <2>1. /\ rows'[1].edit = NoEdit /\ rows'[2].edit = NoEdit /\ rows'[3].edit = NoEdit
        /\ DOMAIN rows' = {1, 2, 3}
    BY <1>4 DEF Row
  <2>2. NoEdit.op \notin Operations
    BY DEF NoEdit, Operations
  <2>3. Applied' \subseteq {1, 2, 3}
    BY <2>1 DEF Applied
  <2> QED
    BY <2>1, <2>2, <2>3 DEF Edited
<1> QED
  BY <1>1, <1>5, <1>6 DEF EditInv, Filed, PendingFromEdit

LEMMA ModifyFileFromEdit ==
  ASSUME NEW path \in Paths, NEW edit \in Edits, BranchInv, EditInv, ModifyFile(path, edit)
  PROVE  EditInv'
<1>1. base \in Trees /\ log \in Seq(Trees) /\ Tip \in Trees
  <2>1. base \in Trees /\ log \in Seq(Trees)
    BY DEF EditInv, Filed
  <2> QED
    BY <2>1, TipIs DEF Trees
<1>2. PICK file \in Transform(Tip[path], edit) : log' = Append(log, [Tip EXCEPT ![path] = file])
  BY DEF ModifyFile
<1>3. /\ pending = NoEdit /\ Tip[path] # NoFile
      /\ pending' = [op |-> edit.op, edit |-> edit, path |-> path, checkpoint |-> Len(log)]
      /\ UNCHANGED <<base, rows>>
  BY DEF ModifyFile
<1>4. edit \in Change
  BY FilesAssumption DEF FilesAssumption
<1>5. Tip[path] \in File
  BY <1>1, <1>3 DEF Trees
<1>6. file \in File
  BY <1>4, <1>5, TransformIs
<1>7. PICK tree : tree \in Trees /\ tree = [Tip EXCEPT ![path] = file] /\ tree[path] = file
  <2>1. \A F : \A t \in [Paths -> F], f \in F :
          [t EXCEPT ![path] = f] \in [Paths -> F] /\ [t EXCEPT ![path] = f][path] = f
    OBVIOUS
  <2>2. [Tip EXCEPT ![path] = file] \in Trees /\ [Tip EXCEPT ![path] = file][path] = file
    BY <1>1, <1>6, <2>1 DEF Trees
  <2> QED
    BY <2>2
<1>8. /\ log' \in Seq(Trees) /\ Len(log) \in Nat
      /\ \A k \in 1..Len(log) : log'[k] = log[k]
      /\ Before(Len(log))' = Tip /\ Tip' = tree
  BY <1>1, <1>2, <1>3, <1>7, CommitIs
<1>9. Filed'
  BY <1>1, <1>3, <1>8 DEF Filed
<1>10. PendingFromEdit'
  BY <1>3, <1>4, <1>7, <1>8 DEF PendingFromEdit, FromEdit
<1>11. ASSUME NEW i \in Edited' PROVE RowFromEdit(i)'
  <2>1. Applied' = Applied /\ i \in Applied /\ i \in Applied' /\ rows'[i] = rows[i] /\ base' = base
    BY <1>3 DEF Applied, Edited
  <2>2. rows[i].commit \in 1..Len(log)
    BY <1>3, <2>1 DEF BranchInv, TellInv, Tells
  <2>6. i \in Edited /\ (RowFromEdit(i) => RowFromEdit(i)')
    BY <1>8, <1>11, <2>1, <2>2, RowStays
  <2> QED
    BY <2>6 DEF EditInv
<1> QED
  BY <1>9, <1>10, <1>11 DEF EditInv

\* What a judgement does to the branch and the rows.
LEMMA JudgeRows ==
  ASSUME BranchInv, Judge
  PROVE  /\ base' = base /\ pending' = NoEdit /\ pending # NoEdit
         /\ Len(log) \in Nat \ {0} /\ Len(log) - 1 \in Nat
         /\ \A k \in 1..(Len(log) - 1) : log'[k] = log[k]
         /\ \A i \in Applied : rows[i].commit \in 1..(Len(log) - 1)
         /\ \/ log' = SubSeq(log, 1, Len(log) - 1) /\ RowsStay
            \/ log' = log /\ (NoRow \/ \E last : RowAdded(last))
<1>0. PICK F, R : log \in Seq([Paths -> F]) /\ rows \in Seq(R)
  BY DEF BranchInv, Shape
<1>1. \/ Rollback(pending.checkpoint) /\ Recorded("reverted")
      \/ UNCHANGED log /\ Recorded("applied")
  BY DEF Judge
<1>2. base' = base /\ pending' = NoEdit /\ pending # NoEdit
  BY DEF Judge
<1>3. log # <<>> /\ pending.checkpoint = Len(log) - 1
  BY <1>2 DEF BranchInv, OnePath
<1>4. Len(log) \in Nat \ {0} /\ Len(log) - 1 \in Nat
  <2>1. Len(log) \in Nat \ {0}
    BY <1>0, <1>3, EmptySeq
  <2> QED
    BY <2>1
<1>5. \A i \in Applied : rows[i].commit \in 1..(Len(log) - 1)
  BY <1>2 DEF BranchInv, TellInv, Tells
<1>6. CASE Rollback(pending.checkpoint) /\ Recorded("reverted")
  <2>1. log' = SubSeq(log, 1, Len(log) - 1)
    BY <1>3, <1>6 DEF Rollback
  <2>2. PICK T : log \in Seq(T)
    BY <1>0
  <2>3. \A k \in 1..(Len(log) - 1) : log'[k] = log[k]
    BY <1>3, <2>1, <2>2, RollbackIs
  <2>4. RowsStay
    BY <1>0, <1>6, RecordedIs
  <2> QED
    BY <1>2, <1>4, <1>5, <2>1, <2>3, <2>4
<1>7. CASE UNCHANGED log /\ Recorded("applied")
  <2>1. NoRow \/ \E last : RowAdded(last)
    BY <1>0, <1>7, RecordedIs
  <2> QED
    BY <1>2, <1>4, <1>5, <1>7, <2>1
<1> QED
  BY <1>1, <1>6, <1>7

LEMMA JudgeFromEdit == BranchInv /\ EditInv /\ Judge => EditInv'
<1> SUFFICES ASSUME BranchInv, EditInv, Judge PROVE EditInv'
  OBVIOUS
<1>1. /\ base' = base /\ pending' = NoEdit /\ pending # NoEdit
      /\ Len(log) \in Nat \ {0} /\ Len(log) - 1 \in Nat
      /\ \A k \in 1..(Len(log) - 1) : log'[k] = log[k]
      /\ \A i \in Applied : rows[i].commit \in 1..(Len(log) - 1)
      /\ \/ log' = SubSeq(log, 1, Len(log) - 1) /\ RowsStay
         \/ log' = log /\ (NoRow \/ \E last : RowAdded(last))
  BY JudgeRows
<1>2. Filed'
  <2>1. PICK T : T = Trees
    OBVIOUS
  <2>2. base \in Trees /\ log \in Seq(T) /\ log # <<>>
    BY <1>1, <2>1 DEF EditInv, Filed, BranchInv, OnePath
  <2>3. log' = SubSeq(log, 1, Len(log) - 1) => log' \in Seq(T)
    BY <2>2, RollbackIs
  <2> QED
    BY <1>1, <2>1, <2>2, <2>3 DEF Filed
<1>3. PendingFromEdit'
  BY <1>1 DEF PendingFromEdit
<1>4. ASSUME NEW i \in Edited', i \in Applied PROVE RowFromEdit(i)'
  <2>1. PICK n \in Nat : n = Len(log) - 1
    BY <1>1
  <2>2. i \in Applied' /\ rows'[i] = rows[i]
    BY <1>1, <1>4 DEF Edited, RowsStay, NoRow, RowAdded
  <2>3. rows[i].commit \in 1..n /\ \A k \in 1..n : log'[k] = log[k]
    BY <1>1, <1>4, <2>1
  <2>4. i \in Edited /\ (RowFromEdit(i) => RowFromEdit(i)')
    BY <1>1, <1>4, <2>2, <2>3, RowStays
  <2> QED
    BY <2>4 DEF EditInv
<1>5. ASSUME NEW last, RowAdded(last), log' = log PROVE RowFromEdit(last)'
  <2>1. FromEdit(Before(Len(log))[pending.path], Tip[pending.path], pending.edit, pending.path)
    BY <1>1 DEF EditInv, PendingFromEdit
  <2>2. Tip = log[Len(log)]
    <3>1. log # <<>>
      BY <1>1 DEF BranchInv, OnePath
    <3> QED
      BY <3>1 DEF Tip, Last
  <2>3. /\ rows'[last].commit = Len(log)
        /\ rows'[last].path = pending.path /\ rows'[last].edit = pending.edit
    BY <1>5 DEF RowAdded
  <2>4. Before(rows[last].commit)' = Before(Len(log))
    BY <1>1, <1>5, <2>3 DEF Before
  <2> QED
    BY <1>5, <2>1, <2>2, <2>3, <2>4 DEF RowFromEdit
<1>6. ASSUME NEW i \in Edited' PROVE RowFromEdit(i)'
  <2>1. i \in Applied'
    BY <1>6 DEF Edited
  <2>2. i \in Applied \/ (log' = log /\ RowAdded(i))
    <3>1. RowsStay \/ NoRow => Applied' = Applied
      BY DEF RowsStay, NoRow, Applied
    <3>2. ASSUME NEW last, RowAdded(last) PROVE i \in Applied \/ i = last
      BY <2>1, <3>2 DEF RowAdded
    <3> QED
      BY <1>1, <2>1, <3>1, <3>2
  <2> QED
    BY <1>4, <1>5, <1>6, <2>2
<1> QED
  BY <1>2, <1>3, <1>6 DEF EditInv

LEMMA EditInvKept == SandboxSpec => []EditInv
<1>1. EditInv /\ UNCHANGED sandboxVars => EditInv'
  BY DEF EditInv, Filed, PendingFromEdit, RowFromEdit, Edited, Applied, Before, Tip, sandboxVars
<1>2. BranchInv /\ EditInv /\ [SandboxNext]_sandboxVars => EditInv'
  BY <1>1, PlanAndApplyFromEdit, ApplyGeneratedFromEdit, ModifyFileFromEdit, JudgeFromEdit
  DEF SandboxNext
<1> QED
  BY <1>2, EditInit, BranchKept, PTL DEF SandboxSpec

\* An edit on the branch has changed what it is about and nothing else, whatever
\* the texts, the edits, their snippets and their order are (dev_modification.py):
\* all other items are there, unchanged and in order, and no name is defined
\* twice that was defined once.
THEOREM EditsAreLocalCorrect == SandboxSpec => []EditsAreLocal
<1>1. ASSUME BranchInv, EditInv PROVE EditsAreLocal
  <2> SUFFICES ASSUME pending = NoEdit, NEW i \in Edited
               PROVE  Local(Before(rows[i].commit)[rows[i].path], log[rows[i].commit][rows[i].path], rows[i].edit)
    BY DEF EditsAreLocal, RestIsKept, NoSecondDefinition, Local, Old, New
  <2>1. FromEdit(Before(rows[i].commit)[rows[i].path], log[rows[i].commit][rows[i].path], rows[i].edit, rows[i].path)
    BY <1>1 DEF EditInv, RowFromEdit
  <2>2. Before(rows[i].commit) \in Trees
    <3>1. PICK T, k : T = Trees /\ log \in Seq(T) /\ base \in T /\ k = rows[i].commit
      BY <1>1 DEF EditInv, Filed
    <3>2. k \in 1..Len(log)
      BY <1>1, <3>1 DEF BranchInv, TellInv, Tells, Edited
    <3>3. k # 1 => k - 1 \in 1..Len(log)
      BY <3>1, <3>2
    <3>4. k # 1 => log[k - 1] \in T
      BY <3>1, <3>3, ElementOfSeq
    <3> QED
      BY <3>1, <3>4 DEF Before
  <2>3. Before(rows[i].commit)[rows[i].path] \in File
    BY <2>1, <2>2 DEF FromEdit, Trees
  <2> QED
    BY <2>1, <2>3, TransformIs DEF FromEdit
<1> QED
  BY <1>1, BranchKept, EditInvKept, PTL
=============================================================================
