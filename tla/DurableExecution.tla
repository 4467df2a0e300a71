-------------------------- MODULE DurableExecution --------------------------
(***************************************************************************)
(* What the job queue promises of the execution of jobs, without rows,     *)
(* statuses, workers, heartbeats or requests: an execution is paid for by  *)
(* putting the job in line once, and is in progress until its effects are  *)
(* committed or it comes to nothing.  Whoever puts a job in line once,     *)
(* and never again, gets its effects at most once.                         *)
(***************************************************************************)
EXTENDS Naturals

CONSTANT Jobs   \* what can be executed

VARIABLES
  paid,      \* paid[j]: times job j was put in line
  running,   \* running[j]: executions of it in progress
  done       \* done[j]: times its effects were committed

vars == <<paid, running, done>>

Init ==
  /\ paid = [j \in Jobs |-> 0]
  /\ running = [j \in Jobs |-> 0]
  /\ done = [j \in Jobs |-> 0]

\* Some jobs are put in line: enqueued, recovered, or asked for by a client.
Put(S) ==
  /\ paid' = [j \in Jobs |-> IF j \in S THEN paid[j] + 1 ELSE paid[j]]
  /\ UNCHANGED <<running, done>>

\* An execution starts, and has been paid for.
Take(j) ==
  /\ running[j] + done[j] < paid[j]
  /\ running' = [running EXCEPT ![j] = @ + 1]
  /\ UNCHANGED <<paid, done>>

\* An execution ends with its effects, all at once.
Commit(j) ==
  /\ running[j] > 0
  /\ running' = [running EXCEPT ![j] = @ - 1]
  /\ done' = [done EXCEPT ![j] = @ + 1]
  /\ UNCHANGED paid

\* An execution ends without effects: it raised, or its process died.
Drop(j) ==
  /\ running[j] > 0
  /\ running' = [running EXCEPT ![j] = @ - 1]
  /\ UNCHANGED <<paid, done>>

Next ==
  \/ \E S \in SUBSET Jobs : Put(S)
  \/ \E j \in Jobs : Take(j) \/ Commit(j) \/ Drop(j)

Spec == Init /\ [][Next]_vars
=============================================================================
