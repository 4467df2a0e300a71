------------------------------ MODULE Delivery ------------------------------
(***************************************************************************)
(* Releases and the environments they are deployed to: the release and     *)
(* staging stages of PipelineService.run, the founder's deploy_production, *)
(* DeploymentService.deploy and RollbackService.rollback.  What a task     *)
(* goes through before its pipeline starts is in DevTask.                  *)
(*                                                                         *)
(* A deployment is a READ COMMITTED transaction around work on files that  *)
(* no rollback undoes.  It takes three steps: what the request reads, the  *)
(* removal of deployments/<environment>/<version> with the extraction that *)
(* begins there, and the verification with the commit.  Other transactions *)
(* commit in between, and the backend may die.                             *)
(***************************************************************************)
EXTENDS Naturals, Sequences, FiniteSets

CONSTANTS
  Founders,   \* requests that deploy to production and roll back
  Builders,   \* who runs pipelines: requests and the worker
  MaxPipelines, MaxDeploys, MaxFailures, MaxCrashes   \* bounds

Procs == Founders \union Builders
Envs == {"staging", "production"}
NoRelease == 0
NoPipe == 0
NoRow == 0

ASSUME BoundsAssumption == {MaxPipelines, MaxDeploys, MaxFailures, MaxCrashes} \subseteq Nat
ASSUME ProcsAssumption == IsFiniteSet(Procs)

VARIABLES
  pipes,        \* PipelineRun rows: status and release
  releases,     \* ReleaseVersion rows, by the number in their version: status
  deployments,  \* DeploymentRun rows, in the order of their commits
  rollbacks,    \* RollbackHistory rows
  disk,         \* deployments/<environment>/<version>: "none", "partial", "whole"
  tx,           \* transactions in flight
  begun, failures, crashes,   \* counters (begun: the created_at given out)
  redeployed    \* history: directories removed while in use

vars == <<pipes, releases, deployments, rollbacks, disk, tx, begun, failures,
          crashes, redeployed>>

Versions == 1..MaxPipelines
Idle == [op |-> "idle"]
InFlight(op) == {p \in Procs : tx[p].op = op}
Extracting == {p \in Procs : tx[p].op # "idle" /\ tx[p].extracting}

Init ==
  /\ pipes = <<>> /\ releases = <<>> /\ deployments = <<>> /\ rollbacks = {}
  /\ disk = [e \in Envs |-> [v \in Versions |-> "none"]]
  /\ tx = [p \in Procs |-> Idle]
  /\ begun = 0 /\ failures = 0 /\ crashes = 0 /\ redeployed = {}

\* Rows of an environment that say "deployed".
Deployed(e) == {i \in DOMAIN deployments :
                  deployments[i].env = e /\ deployments[i].status = "deployed"}

\* rollback: the newest of them by created_at, the start of its transaction.
Current(e) ==
  {i \in Deployed(e) : \A k \in Deployed(e) : deployments[k].stamp <= deployments[i].stamp}

-----------------------------------------------------------------------------
(* What a transaction reads *)

Begin(p, op, pipe, release, env, current) ==
  /\ tx[p] = Idle
  /\ tx' = [tx EXCEPT ![p] = [op |-> op, pipe |-> pipe, release |-> release, env |-> env,
                              current |-> current, stamp |-> begun, extracting |-> FALSE]]
  /\ begun' = begun + 1
  /\ UNCHANGED <<pipes, releases, deployments, rollbacks, disk, failures, crashes, redeployed>>

\* PipelineService.run numbers its row, and later its release, by counting.
StartPipeline(p) ==
  /\ Len(pipes) + Cardinality(InFlight("pipeline")) < MaxPipelines
  /\ Begin(p, "pipeline", Len(pipes) + 1, Len(releases) + 1, "staging", NoRow)

\* Deployments of the founder that may still begin.
MayDeploy == Cardinality({i \in DOMAIN deployments : deployments[i].founder})
               + Cardinality(InFlight("production") \union InFlight("rollback")) < MaxDeploys

AwaitsProduction(i) == pipes[i].status = "awaiting_production"

\* POST /devops/pipelines/{id}/deploy-production.
StartProduction(p) ==
  /\ MayDeploy
  /\ \E i \in DOMAIN pipes :
       /\ AwaitsProduction(i)
       /\ Begin(p, "production", i, pipes[i].release, "production", NoRow)

\* POST /devops/rollback, to any release.
StartRollback(p) ==
  /\ MayDeploy
  /\ \E e \in Envs, r \in DOMAIN releases :
       \E i \in (IF Current(e) = {} THEN {NoRow} ELSE Current(e)) :
         Begin(p, "rollback", NoPipe, r, e, i)

-----------------------------------------------------------------------------
(* The deployment *)

\* The number of a pipeline is unique.  The second of two overlapping ones
\* waits in its INSERT, and is refused when the first has committed.
Numbered(p) == tx[p].op = "pipeline" => tx[p].pipe = Len(pipes) + 1
MayGoOn(p) == /\ tx[p] # Idle /\ Numbered(p)
              /\ tx[p].op = "pipeline" =>
                   \A q \in InFlight("pipeline") \ {p} : ~tx[q].extracting

PipelineConflict(p) ==
  /\ tx[p] # Idle /\ ~Numbered(p)
  /\ tx' = [tx EXCEPT ![p] = Idle]
  /\ UNCHANGED <<pipes, releases, deployments, rollbacks, disk, begun, failures, crashes,
                 redeployed>>

\* Build, tests or security scan fail: the pipeline ends without a release.
StopPipeline(p) ==
  /\ MayGoOn(p) /\ tx[p].op = "pipeline" /\ ~tx[p].extracting
  /\ pipes' = Append(pipes, [status |-> "failed", release |-> NoRelease])
  /\ tx' = [tx EXCEPT ![p] = Idle]
  /\ UNCHANGED <<releases, deployments, rollbacks, disk, begun, failures, crashes, redeployed>>

\* extract_artifact removes what lies in the directory and starts to fill it.
Extract(p) ==
  LET e == tx[p].env
      r == tx[p].release IN
  /\ MayGoOn(p) /\ ~tx[p].extracting
  /\ tx' = [tx EXCEPT ![p].extracting = TRUE]
  /\ disk' = [disk EXCEPT ![e][r] = "partial"]
  /\ redeployed' = IF \/ \E i \in Deployed(e) : deployments[i].release = r
                      \/ \E q \in Extracting : tx[q].env = e /\ tx[q].release = r
                     THEN redeployed \union {<<e, r>>} ELSE redeployed
  /\ UNCHANGED <<pipes, releases, deployments, rollbacks, begun, failures, crashes>>

\* Mutant: what has been extracted counts as deployed.
OutcomeUnverified(ok) == "deployed"

Outcome(ok) == IF ok THEN "deployed" ELSE "failed"

\* The rows a deployment leaves: its own, and for a rollback the one it
\* replaces, whether or not the new one is up.
NewRow(t, ok) ==
  [env |-> t.env, release |-> t.release, pipe |-> t.pipe, status |-> Outcome(ok),
   stamp |-> t.stamp, founder |-> t.op # "pipeline"]
Replaced(t) == IF t.current = NoRow THEN deployments
               ELSE [deployments EXCEPT ![t.current].status = "rolled_back"]

\* Mutant: the rollback looks for the row it replaces after the redeployment.
RowsLate(t, ok) ==
  LET all == Append(deployments, NewRow(t, ok)) IN
  [i \in DOMAIN all |->
     IF t.op = "rollback" /\ all[i].env = t.env /\ all[i].status = "deployed"
          /\ \A k \in DOMAIN all : all[k].env = t.env /\ all[k].status = "deployed"
                                     => all[k].stamp <= all[i].stamp
       THEN [all[i] EXCEPT !.status = "rolled_back"] ELSE all[i]]

Rows(t, ok) == Append(Replaced(t), NewRow(t, ok))

\* Mutant: a rollback brings its target back to released.
ReleasedAnywhere(t, ok) ==
  LET all == IF t.op = "pipeline" THEN Append(releases, "candidate") ELSE releases IN
  IF ok /\ t.op # "pipeline" THEN [all EXCEPT ![t.release] = "released"] ELSE all

\* The release: a candidate when the pipeline cuts it, released once it is in
\* production.  (Nothing ever sets a release to rolled_back.)
Released(t, ok) ==
  LET all == IF t.op = "pipeline" THEN Append(releases, "candidate") ELSE releases IN
  IF ok /\ t.env = "production" THEN [all EXCEPT ![t.release] = "released"] ELSE all

\* Mutant: the founder's approval passes the pipeline.
PipedAnyway(t, ok) ==
  IF t.op = "pipeline"
    THEN Append(pipes, [status |-> IF ok THEN "awaiting_production" ELSE "failed",
                        release |-> t.release])
  ELSE IF t.op = "production" THEN [pipes EXCEPT ![t.pipe].status = "passed"]
  ELSE pipes

Piped(t, ok) ==
  IF t.op = "pipeline"
    THEN Append(pipes, [status |-> IF ok THEN "awaiting_production" ELSE "failed",
                        release |-> t.release])
  ELSE IF t.op = "production"
    THEN [pipes EXCEPT ![t.pipe].status = IF ok THEN "passed" ELSE "failed"]
  ELSE pipes

\* Verified and committed, or failed and committed: the artifact is missing,
\* or cannot be extracted, or does not compile.
Finish(p, ok) ==
  LET t == tx[p]
      alone == \A q \in Extracting \ {p} : <<tx[q].env, tx[q].release>> # <<t.env, t.release>> IN
  /\ MayGoOn(p)
  /\ t.extracting \/ (~ok /\ t.op # "pipeline")
  /\ ok \/ failures < MaxFailures
  /\ failures' = IF ok THEN failures ELSE failures + 1
  /\ disk' = IF ok /\ alone THEN [disk EXCEPT ![t.env][t.release] = "whole"] ELSE disk
  /\ deployments' = Rows(t, ok)
  /\ releases' = Released(t, ok)
  /\ pipes' = Piped(t, ok)
  /\ rollbacks' = IF t.op = "rollback"
                    THEN rollbacks \union {[env |-> t.env, from |-> t.current, to |-> t.release,
                                            completed |-> ok]}
                    ELSE rollbacks
  /\ tx' = [tx EXCEPT ![p] = Idle]
  /\ UNCHANGED <<begun, crashes, redeployed>>

\* The backend dies: the transactions are undone, the files are not.
Crash ==
  /\ crashes < MaxCrashes
  /\ crashes' = crashes + 1
  /\ tx' = [p \in Procs |-> Idle]
  /\ UNCHANGED <<pipes, releases, deployments, rollbacks, disk, begun, failures, redeployed>>

Next ==
  \/ \E p \in Builders : StartPipeline(p) \/ StopPipeline(p) \/ PipelineConflict(p)
  \/ \E p \in Founders : StartProduction(p) \/ StartRollback(p)
  \/ \E p \in Procs : Extract(p) \/ \E ok \in BOOLEAN : Finish(p, ok)
  \/ Crash

Spec == Init /\ [][Next]_vars

-----------------------------------------------------------------------------
(* Properties *)

\* A row of a deployment that took place.
TookPlace(d) == d.status \in {"deployed", "rolled_back"}

Transactions == {Idle} \union
  [op : {"pipeline", "production", "rollback"}, pipe : Nat, release : Versions, env : Envs,
   current : Nat, stamp : Nat, extracting : BOOLEAN]

\* Every variable has its type, and rows refer to rows that are there.
TypeOK ==
  /\ pipes \in Seq([status : {"failed", "awaiting_production", "passed"},
                    release : {NoRelease} \union DOMAIN releases])
  /\ releases \in Seq({"candidate", "released"})
  /\ deployments \in Seq([env : Envs, release : DOMAIN releases,
                          pipe : {NoPipe} \union DOMAIN pipes, founder : BOOLEAN,
                          status : {"deployed", "failed", "rolled_back"}, stamp : Nat])
  /\ rollbacks \subseteq [env : Envs, from : {NoRow} \union DOMAIN deployments,
                          to : DOMAIN releases, completed : BOOLEAN]
  /\ disk \in [Envs -> [Versions -> {"none", "partial", "whole"}]]
  /\ tx \in [Procs -> Transactions]
  /\ {begun, failures, crashes} \subseteq Nat
  /\ redeployed \subseteq Envs \X Versions

\* What a pipeline brings to production it has deployed to staging before,
\* however requests overlap (run, deploy_production's guard).
ShippedWasStaged ==
  \A i \in DOMAIN deployments :
    LET d == deployments[i] IN
    (d.env = "production" /\ d.pipe # NoPipe) =>
      \E k \in 1..(i - 1) : /\ deployments[k].env = "staging" /\ TookPlace(deployments[k])
                            /\ deployments[k].pipe = d.pipe
                            /\ deployments[k].release = d.release

\* A release is called released exactly if it has been in production, by its
\* pipeline or by a rollback (deploy).
ReleasedRanInProduction ==
  \A r \in DOMAIN releases :
    releases[r] = "released" <=>
      \E i \in DOMAIN deployments :
        /\ deployments[i].env = "production" /\ deployments[i].release = r
        /\ TookPlace(deployments[i])

\* What a pipeline's status says of production is so, even when two approvals
\* of it overlap: one that passed is deployed, one that waits is not.
PipelineTellsProduction ==
  \A n \in DOMAIN pipes :
    LET inProduction == \E i \in DOMAIN deployments :
          /\ deployments[i].env = "production" /\ deployments[i].pipe = n
          /\ TookPlace(deployments[i]) IN
    /\ pipes[n].status = "passed" => inProduction
    /\ pipes[n].status = "awaiting_production" => ~inProduction

\* A pipeline tells what it deployed, to staging first and to production.
PipelineTellsDeployments == ShippedWasStaged /\ PipelineTellsProduction

\* An environment that has been served stays served, unless a rollback of it
\* has failed: whatever overlaps, no rollback leaves it without a deployment
\* (rollback).
EnvironmentStaysServed ==
  \A e \in Envs :
    (\E i \in DOMAIN deployments : deployments[i].env = e /\ TookPlace(deployments[i])) =>
      Deployed(e) # {} \/ \E h \in rollbacks : h.env = e /\ ~h.completed

\* The directory of a deployment that stands is complete, across failures and
\* crashes, unless the same release has been deployed there again
\* (extract_artifact, verify_deployment, the numbering of releases).
DeployedIsOnDisk ==
  \A e \in Envs : \A i \in Deployed(e) :
    \/ disk[e][deployments[i].release] = "whole"
    \/ <<e, deployments[i].release>> \in redeployed
=============================================================================
