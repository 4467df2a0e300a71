--------------------------- MODULE DeliveryProofs ---------------------------
(***************************************************************************)
(* The type invariant and the four safety invariants of Delivery, for any  *)
(* founders, builders and bounds.                                          *)
(*                                                                         *)
(* What makes them inductive is what a transaction in flight may rely on   *)
(* although others commit: Links says it of each kind of transaction, and  *)
(* DiskInv of the directories that are being filled.                       *)
(***************************************************************************)
EXTENDS Delivery, FiniteSetTheorems, TLAPS

\* A release that a pipeline has cut, and brought to staging.
Staged(n) ==
  /\ pipes[n].release \in DOMAIN releases
  /\ \E k \in DOMAIN deployments :
       /\ deployments[k].env = "staging" /\ TookPlace(deployments[k])
       /\ deployments[k].pipe = n /\ deployments[k].release = pipes[n].release

\* A pipeline that still has its number cuts the next release; a production
\* deployment has a staged pipeline; a rollback has a release, and the row that
\* it replaces has stood in its environment.
PipelineLink(t) ==
  t.op = "pipeline" =>
    /\ t.env = "staging" /\ t.current = NoRow /\ t.pipe \in 1..(Len(pipes) + 1)
    /\ t.pipe <= MaxPipelines
    /\ t.pipe = Len(pipes) + 1 => t.release = Len(releases) + 1
ProductionLink(t) ==
  t.op = "production" =>
    /\ t.env = "production" /\ t.current = NoRow
    /\ t.pipe \in DOMAIN pipes /\ t.release = pipes[t.pipe].release /\ Staged(t.pipe)
RollbackLink(t) ==
  t.op = "rollback" =>
    /\ t.pipe = NoPipe /\ t.release \in DOMAIN releases
    /\ t.current # NoRow => /\ t.current \in DOMAIN deployments
                            /\ deployments[t.current].env = t.env
                            /\ TookPlace(deployments[t.current])

Links ==
  /\ Len(releases) <= Len(pipes) /\ Len(pipes) <= MaxPipelines
  /\ \A p \in Procs : PipelineLink(tx[p]) /\ ProductionLink(tx[p]) /\ RollbackLink(tx[p])
  /\ \A n \in DOMAIN pipes : pipes[n].status # "failed" => Staged(n)

\* Directories that two transactions fill are known as redeployed.
DiskInv ==
  /\ DeployedIsOnDisk
  /\ \A p, q \in Extracting :
       p # q /\ tx[p].env = tx[q].env /\ tx[p].release = tx[q].release =>
         <<tx[p].env, tx[p].release>> \in redeployed

-----------------------------------------------------------------------------
(* Rows and transactions *)

LEMMA Kinds ==
  \A t \in Transactions :
    \/ t = Idle /\ t.op = "idle"
    \/ /\ t # Idle /\ t.op \in {"pipeline", "production", "rollback"}
       /\ t.pipe \in Nat /\ t.release \in Versions /\ t.env \in Envs
       /\ t.current \in Nat /\ t.stamp \in Nat /\ t.extracting \in BOOLEAN
BY DEF Transactions, Idle

LEMMA Appended ==
  ASSUME NEW S, NEW s \in Seq(S), NEW x \in S
  PROVE  /\ Append(s, x) \in Seq(S) /\ Len(Append(s, x)) = Len(s) + 1
         /\ \A i \in 1..Len(s) : Append(s, x)[i] = s[i]
         /\ Append(s, x)[Len(s) + 1] = x
OBVIOUS

LEMMA InitTypes == Init => TypeOK /\ Links
<1> SUFFICES ASSUME Init PROVE TypeOK /\ Links
  OBVIOUS
<1>1. TypeOK
  BY BoundsAssumption DEF Init, TypeOK, Transactions, Envs
<1>2. Links
  BY BoundsAssumption DEF Init, Links, PipelineLink, ProductionLink, RollbackLink, Idle
<1> QED
  BY <1>1, <1>2

Rowtypes == [env : Envs, release : Nat, pipe : Nat, founder : BOOLEAN,
             status : {"deployed", "failed", "rolled_back"}, stamp : Nat]

\* What a transaction leaves behind when it ends.
LEMMA FinishShape ==
  ASSUME TypeOK, Links, NEW p \in Procs, NEW ok \in BOOLEAN, Finish(p, ok)
  PROVE  LET t == tx[p]
             n == Len(deployments) IN
         /\ t \in Transactions /\ t # Idle /\ n \in Nat
         /\ deployments \in Seq(Rowtypes) /\ deployments' \in Seq(Rowtypes)
         /\ Len(deployments') = n + 1
         /\ deployments'[n + 1] = NewRow(t, ok)
         /\ \A i \in 1..n :
              /\ deployments'[i].env = deployments[i].env
              /\ deployments'[i].release = deployments[i].release
              /\ deployments'[i].pipe = deployments[i].pipe
              /\ deployments'[i].status =
                   IF t.op = "rollback" /\ i = t.current THEN "rolled_back"
                   ELSE deployments[i].status
         /\ t.op = "rollback" /\ t.current # NoRow => TookPlace(deployments[t.current])
<1> DEFINE t == tx[p]
           n == Len(deployments)
<1>1. t \in Transactions /\ t # Idle
  BY DEF TypeOK, Finish, MayGoOn
<1>2. deployments \in Seq(Rowtypes)
  <2> DEFINE S == [env : Envs, release : DOMAIN releases, pipe : {NoPipe} \union DOMAIN pipes,
                   founder : BOOLEAN, status : {"deployed", "failed", "rolled_back"}, stamp : Nat]
  <2>1. S \subseteq Rowtypes
    BY DEF Rowtypes, TypeOK, NoPipe
  <2>2. deployments \in Seq(S)
    BY DEF TypeOK
  <2> HIDE DEF S
  <2> QED
    BY <2>1, <2>2
<1>3. NewRow(t, ok) \in Rowtypes
  BY <1>1, Kinds DEF NewRow, Rowtypes, Outcome, Versions
<1>4. t.op # "rollback" => t.current = NoRow
  BY <1>1, Kinds DEF Links, PipelineLink, ProductionLink
<1>5. t.current # NoRow => t.current \in 1..n /\ TookPlace(deployments[t.current])
  BY <1>1, <1>2, <1>4, Kinds DEF Links, RollbackLink
<1>6. Replaced(t) \in Seq(Rowtypes) /\ Len(Replaced(t)) = n
      /\ \A i \in 1..n :
              /\ Replaced(t)[i].env = deployments[i].env
              /\ Replaced(t)[i].release = deployments[i].release
              /\ Replaced(t)[i].pipe = deployments[i].pipe
              /\ Replaced(t)[i].status = IF i = t.current THEN "rolled_back" ELSE deployments[i].status
  <2>1. CASE t.current = NoRow
    BY <1>2, <2>1 DEF Replaced, NoRow
  <2>2. CASE t.current # NoRow
    <3>1. Replaced(t) = [deployments EXCEPT ![t.current] =
                           [deployments[t.current] EXCEPT !.status = "rolled_back"]]
      BY <2>2 DEF Replaced
    <3> DEFINE row == deployments[t.current]
               new == [row EXCEPT !.status = "rolled_back"]
    <3>2. t.current \in 1..n /\ row \in Rowtypes
      BY <1>2, <1>5, <2>2
    <3>3. /\ new \in Rowtypes /\ new.env = row.env /\ new.release = row.release
          /\ new.pipe = row.pipe /\ new.status = "rolled_back"
      BY <3>2 DEF Rowtypes
    <3> HIDE DEF new
    <3>4. Replaced(t) = [deployments EXCEPT ![t.current] = new]
      BY <3>1 DEF new
    <3>5. Replaced(t) \in Seq(Rowtypes) /\ Len(Replaced(t)) = n
      BY <1>2, <3>2, <3>3, <3>4
    <3>6. \A i \in 1..n : Replaced(t)[i] = IF i = t.current THEN new ELSE deployments[i]
      BY <1>2, <3>2, <3>4
    <3> QED
      BY <3>2, <3>3, <3>5, <3>6
  <2> QED
    BY <2>1, <2>2
<1>7. deployments' = Append(Replaced(t), NewRow(t, ok))
  BY DEF Finish, Rows
<1>8. n \in Nat
  BY <1>2
<1>9. /\ deployments' \in Seq(Rowtypes) /\ Len(deployments') = n + 1
      /\ deployments'[n + 1] = NewRow(t, ok) /\ \A i \in 1..n : deployments'[i] = Replaced(t)[i]
  BY <1>3, <1>6, <1>7, Appended
<1> QED
  BY <1>1, <1>2, <1>4, <1>5, <1>6, <1>8, <1>9 DEF NoRow

PipeRows == [status : {"failed", "awaiting_production", "passed"}, release : Nat]
Outcomes == {"candidate", "released"}

LEMMA Sequence ==
  ASSUME NEW S, NEW T, NEW s \in Seq(T), \A i \in 1..Len(s) : s[i] \in S
  PROVE  s \in Seq(S)
OBVIOUS

\* The types of the rows without what they refer to, and what they refer to.
LEMMA RowsHaveTypes ==
  ASSUME TypeOK
  PROVE  /\ pipes \in Seq(PipeRows) /\ Len(pipes) \in Nat /\ DOMAIN pipes = 1..Len(pipes)
         /\ \A n \in 1..Len(pipes) : pipes[n].release \in 0..Len(releases)
         /\ releases \in Seq(Outcomes) /\ Len(releases) \in Nat
         /\ DOMAIN releases = 1..Len(releases)
         /\ deployments \in Seq(Rowtypes) /\ Len(deployments) \in Nat
         /\ DOMAIN deployments = 1..Len(deployments)
         /\ \A i \in 1..Len(deployments) : /\ deployments[i].release \in 1..Len(releases)
                                           /\ deployments[i].pipe \in 0..Len(pipes)
<1>1. releases \in Seq(Outcomes) /\ Len(releases) \in Nat /\ DOMAIN releases = 1..Len(releases)
  BY DEF TypeOK, Outcomes
<1> DEFINE P == [status : {"failed", "awaiting_production", "passed"},
                 release : {NoRelease} \union DOMAIN releases]
           D == [env : Envs, release : DOMAIN releases, pipe : {NoPipe} \union DOMAIN pipes,
                 founder : BOOLEAN, status : {"deployed", "failed", "rolled_back"}, stamp : Nat]
<1>2. pipes \in Seq(P) /\ deployments \in Seq(D)
  BY DEF TypeOK
<1>3. \A x \in P : x \in PipeRows /\ x.release \in 0..Len(releases)
  BY <1>1 DEF PipeRows, NoRelease
<1> HIDE DEF P
<1>4. /\ Len(pipes) \in Nat /\ DOMAIN pipes = 1..Len(pipes)
      /\ \A n \in 1..Len(pipes) : pipes[n] \in P
  BY <1>2
<1>5. \A x \in D : x \in Rowtypes /\ x.release \in 1..Len(releases) /\ x.pipe \in 0..Len(pipes)
  BY <1>1, <1>4 DEF Rowtypes, NoPipe
<1> HIDE DEF D
<1>6. /\ Len(deployments) \in Nat /\ DOMAIN deployments = 1..Len(deployments)
      /\ \A i \in 1..Len(deployments) : deployments[i] \in D
  BY <1>2
<1>7. pipes \in Seq(PipeRows)
  BY <1>2, <1>3, <1>4, Sequence
<1>8. deployments \in Seq(Rowtypes)
  BY <1>2, <1>5, <1>6, Sequence
<1> QED
  BY <1>1, <1>3, <1>4, <1>5, <1>6, <1>7, <1>8

LEMMA HaveRowTypes ==
  ASSUME NEW ps \in Seq(PipeRows), NEW rs \in Seq(Outcomes), NEW ds \in Seq(Rowtypes),
         \A n \in 1..Len(ps) : ps[n].release \in 0..Len(rs),
         \A i \in 1..Len(ds) : ds[i].release \in 1..Len(rs) /\ ds[i].pipe \in 0..Len(ps)
  PROVE  /\ ps \in Seq([status : {"failed", "awaiting_production", "passed"},
                        release : {NoRelease} \union DOMAIN rs])
         /\ rs \in Seq({"candidate", "released"})
         /\ ds \in Seq([env : Envs, release : DOMAIN rs,
                        pipe : {NoPipe} \union DOMAIN ps, founder : BOOLEAN,
                        status : {"deployed", "failed", "rolled_back"}, stamp : Nat])
<1> DEFINE P == [status : {"failed", "awaiting_production", "passed"},
                 release : {NoRelease} \union DOMAIN rs]
           D == [env : Envs, release : DOMAIN rs, pipe : {NoPipe} \union DOMAIN ps,
                 founder : BOOLEAN, status : {"deployed", "failed", "rolled_back"}, stamp : Nat]
<1>1. \A x \in PipeRows : x.release \in 0..Len(rs) => x \in P
  BY DEF PipeRows, NoRelease
<1>2. \A x \in Rowtypes : x.release \in 1..Len(rs) /\ x.pipe \in 0..Len(ps) => x \in D
  BY DEF Rowtypes, NoPipe
<1> HIDE DEF P, D
<1>3. \A n \in 1..Len(ps) : ps[n] \in P
  <2>1. \A n \in 1..Len(ps) : ps[n] \in PipeRows
    OBVIOUS
  <2> QED
    BY <1>1, <2>1
<1>4. \A i \in 1..Len(ds) : ds[i] \in D
  <2>1. \A i \in 1..Len(ds) : ds[i] \in Rowtypes
    OBVIOUS
  <2> QED
    BY <1>2, <2>1
<1>5. ps \in Seq(P) /\ ds \in Seq(D)
  BY <1>3, <1>4, Sequence
<1> QED
  BY <1>5 DEF P, D, Outcomes

\* The status a transaction leaves the pipelines with, and the releases.
PipesAre(t, ok) ==
  \A i \in 1..Len(pipes) :
    pipes'[i].status = IF t.op = "production" /\ i = t.pipe
                         THEN IF ok THEN "passed" ELSE "failed"
                         ELSE pipes[i].status
ReleasesAre(t, ok) ==
  \A r \in 1..Len(releases) :
    releases'[r] = IF ok /\ t.env = "production" /\ r = t.release
                     THEN "released" ELSE releases[r]

\* What a transaction leaves of pipelines and releases when it ends.
LEMMA FinishPipes ==
  ASSUME TypeOK, Links, NEW p \in Procs, NEW ok \in BOOLEAN, Finish(p, ok)
  PROVE  LET t == tx[p]
             n == Len(pipes)
             m == Len(releases) IN
         /\ pipes' \in Seq(PipeRows) /\ releases' \in Seq(Outcomes)
         /\ \A i \in 1..n : pipes'[i].release = pipes[i].release
         /\ PipesAre(t, ok) /\ ReleasesAre(t, ok)
         /\ t.op = "pipeline" =>
              /\ t.pipe = n + 1 /\ t.release = m + 1 /\ t.env = "staging" /\ t.current = NoRow
              /\ Len(pipes') = n + 1 /\ Len(releases') = m + 1 /\ n + 1 <= MaxPipelines
              /\ pipes'[n + 1] = [status |-> IF ok THEN "awaiting_production" ELSE "failed",
                                  release |-> t.release]
              /\ releases'[m + 1] = "candidate"
         /\ t.op = "production" => /\ t.env = "production" /\ t.pipe \in 1..n
                                   /\ t.release = pipes[t.pipe].release /\ Staged(t.pipe)
                                   /\ t.current = NoRow
         /\ t.op = "rollback" => t.pipe = 0
         /\ t.op # "pipeline" => /\ Len(pipes') = n /\ Len(releases') = m
                                 /\ t.release \in 1..m
<1> DEFINE t == tx[p]
           n == Len(pipes)
           m == Len(releases)
<1>1. t \in Transactions /\ t # Idle /\ t.op \in {"pipeline", "production", "rollback"}
  BY Kinds DEF TypeOK, Finish, MayGoOn
<1>2. /\ pipes \in Seq(PipeRows) /\ n \in Nat /\ DOMAIN pipes = 1..n
      /\ releases \in Seq(Outcomes) /\ m \in Nat /\ DOMAIN releases = 1..m
  BY RowsHaveTypes
<1>3. PipelineLink(t) /\ ProductionLink(t) /\ RollbackLink(t)
  BY DEF Links
<1>4. pipes' = Piped(t, ok) /\ releases' = Released(t, ok)
  BY DEF Finish
<1>5. t.release \in Nat
  BY <1>1, Kinds DEF Versions
<1>6. CASE t.op = "pipeline"
  <2>1. t.pipe = n + 1
    BY <1>6 DEF Finish, MayGoOn, Numbered
  <2>2. t.release = m + 1 /\ t.env = "staging" /\ n + 1 <= MaxPipelines /\ t.current = NoRow
    BY <1>3, <1>6, <2>1 DEF PipelineLink
  <2> DEFINE new == [status |-> IF ok THEN "awaiting_production" ELSE "failed", release |-> t.release]
  <2>3. new \in PipeRows
    BY <1>5 DEF PipeRows
  <2>4. pipes' = Append(pipes, new)
    BY <1>4, <1>6 DEF Piped
  <2>5. releases' = Append(releases, "candidate")
    BY <1>4, <1>6, <2>2 DEF Released
  <2> HIDE DEF new
  <2>6. /\ pipes' \in Seq(PipeRows) /\ Len(pipes') = n + 1 /\ pipes'[n + 1] = new
        /\ \A i \in 1..n : pipes'[i] = pipes[i]
    BY <1>2, <2>3, <2>4, Appended
  <2>7. /\ releases' \in Seq(Outcomes) /\ Len(releases') = m + 1 /\ releases'[m + 1] = "candidate"
        /\ \A r \in 1..m : releases'[r] = releases[r]
    <3>1. "candidate" \in Outcomes
      BY DEF Outcomes
    <3> QED
      BY <1>2, <2>5, <3>1, Appended
  <2>8. PipesAre(t, ok) /\ ReleasesAre(t, ok)
    BY <1>6, <2>2, <2>6, <2>7 DEF PipesAre, ReleasesAre
  <2>9. \A i \in 1..n : pipes'[i].release = pipes[i].release
    BY <2>6
  <2> QED
    BY <1>6, <2>1, <2>2, <2>6, <2>7, <2>8, <2>9 DEF new
<1>7. CASE t.op # "pipeline"
  <2>1. t.op = "production" => /\ t.env = "production" /\ t.pipe \in 1..n /\ t.current = NoRow
                               /\ t.release = pipes[t.pipe].release /\ Staged(t.pipe)
    BY <1>2, <1>3 DEF ProductionLink
  <2>2. t.op = "rollback" => t.pipe = 0
    BY <1>3 DEF RollbackLink, NoPipe
  <2>3. t.release \in 1..m
    BY <1>1, <1>2, <1>3, <1>7, <2>1 DEF RollbackLink, Staged
  <2>4. releases' \in Seq(Outcomes) /\ Len(releases') = m
        /\ \A r \in 1..m : releases'[r] = IF ok /\ t.env = "production" /\ r = t.release
                                             THEN "released" ELSE releases[r]
    <3>1. releases' = IF ok /\ t.env = "production"
                        THEN [releases EXCEPT ![t.release] = "released"] ELSE releases
      BY <1>4, <1>7 DEF Released
    <3>2. "released" \in Outcomes
      BY DEF Outcomes
    <3> DEFINE r0 == t.release
    <3>3. r0 \in 1..m
      BY <2>3
    <3> HIDE DEF r0
    <3>4. CASE ok /\ t.env = "production"
      <4>1. releases' = [releases EXCEPT ![r0] = "released"]
        BY <3>1, <3>4 DEF r0
      <4>2. /\ releases' \in Seq(Outcomes) /\ Len(releases') = m
            /\ \A r \in 1..m : releases'[r] = IF r = r0 THEN "released" ELSE releases[r]
        BY <1>2, <3>2, <3>3, <4>1
      <4> QED
        BY <3>4, <4>2 DEF r0
    <3>5. CASE ~(ok /\ t.env = "production")
      BY <1>2, <3>1, <3>5
    <3> QED
      BY <3>4, <3>5
  <2>5. /\ pipes' \in Seq(PipeRows) /\ Len(pipes') = n
        /\ \A i \in 1..n :
              /\ pipes'[i].release = pipes[i].release
              /\ pipes'[i].status = IF t.op = "production" /\ i = t.pipe
                                      THEN IF ok THEN "passed" ELSE "failed"
                                      ELSE pipes[i].status
    <3>1. CASE t.op = "rollback"
      BY <1>2, <1>4, <3>1 DEF Piped
    <3>2. CASE t.op = "production"
      <4> DEFINE row == pipes[t.pipe]
                 new == [row EXCEPT !.status = IF ok THEN "passed" ELSE "failed"]
      <4>1. row \in PipeRows
        BY <1>2, <2>1, <3>2
      <4>2. /\ new \in PipeRows /\ new.release = row.release
            /\ new.status = IF ok THEN "passed" ELSE "failed"
        BY <4>1 DEF PipeRows
      <4>3. pipes' = [pipes EXCEPT ![t.pipe] = new]
        BY <1>4, <3>2 DEF Piped
      <4> HIDE DEF new
      <4>4. /\ pipes' \in Seq(PipeRows) /\ Len(pipes') = n
            /\ \A i \in 1..n : pipes'[i] = IF i = t.pipe THEN new ELSE pipes[i]
        BY <1>2, <2>1, <3>2, <4>2, <4>3
      <4> QED
        BY <3>2, <4>2, <4>4
    <3> QED
      BY <1>1, <1>7, <3>1, <3>2
  <2>6. PipesAre(t, ok) /\ ReleasesAre(t, ok)
    BY <2>4, <2>5 DEF PipesAre, ReleasesAre
  <2> QED
    BY <1>7, <2>1, <2>2, <2>3, <2>4, <2>5, <2>6
<1> QED
  BY <1>6, <1>7

LEMMA FinishCounts ==
  ASSUME TypeOK, Links, NEW p \in Procs, NEW ok \in BOOLEAN, Finish(p, ok)
  PROVE  /\ tx[p].op \in {"pipeline", "production", "rollback"}
         /\ Len(pipes) \in Nat /\ Len(releases) \in Nat /\ Len(deployments) \in Nat
         /\ Len(deployments') = Len(deployments) + 1
         /\ \/ /\ tx[p].op = "pipeline" /\ tx[p].env = "staging"
               /\ Len(pipes') = Len(pipes) + 1 /\ Len(releases') = Len(releases) + 1
               /\ tx[p].pipe = Len(pipes) + 1 /\ tx[p].release = Len(releases) + 1
               /\ Len(pipes) + 1 <= MaxPipelines
            \/ /\ tx[p].op # "pipeline"
               /\ Len(pipes') = Len(pipes) /\ Len(releases') = Len(releases)
               /\ tx[p].pipe \in 0..Len(pipes) /\ tx[p].release \in 1..Len(releases)
<1>1. tx[p] \in Transactions /\ tx[p].op \in {"pipeline", "production", "rollback"}
  BY Kinds DEF TypeOK, Finish, MayGoOn
<1>2. Len(pipes) \in Nat /\ Len(releases) \in Nat /\ Len(deployments) \in Nat
  BY RowsHaveTypes
<1>3. Len(deployments') = Len(deployments) + 1
  BY FinishShape
<1>4. CASE tx[p].op = "pipeline"
  <2>1. /\ tx[p].env = "staging"
        /\ Len(pipes') = Len(pipes) + 1 /\ Len(releases') = Len(releases) + 1
        /\ tx[p].pipe = Len(pipes) + 1 /\ tx[p].release = Len(releases) + 1
        /\ Len(pipes) + 1 <= MaxPipelines
    BY <1>4, FinishPipes
  <2> QED
    BY <1>1, <1>2, <1>3, <1>4, <2>1
<1>5. CASE tx[p].op # "pipeline"
  <2>1. /\ Len(pipes') = Len(pipes) /\ Len(releases') = Len(releases)
        /\ tx[p].release \in 1..Len(releases)
    BY <1>5, FinishPipes
  <2>2. tx[p].op = "production" => tx[p].pipe \in 1..Len(pipes)
    BY FinishPipes
  <2>3. tx[p].op = "rollback" => tx[p].pipe = 0
    BY FinishPipes
  <2>4. tx[p].pipe \in 0..Len(pipes)
    BY <1>1, <1>2, <1>5, <2>2, <2>3
  <2> QED
    BY <1>1, <1>2, <1>3, <1>5, <2>1, <2>4
<1> QED
  BY <1>4, <1>5

\* What no step undoes: releases, and what rows say of a deployment.
Grows ==
  /\ Len(pipes) <= Len(pipes') /\ Len(releases) <= Len(releases')
  /\ Len(deployments) <= Len(deployments')
  /\ \A n \in 1..Len(pipes) : pipes'[n].release = pipes[n].release
  /\ \A i \in 1..Len(deployments) :
       /\ deployments'[i].env = deployments[i].env
       /\ deployments'[i].release = deployments[i].release
       /\ deployments'[i].pipe = deployments[i].pipe
       /\ TookPlace(deployments'[i]) <=> TookPlace(deployments[i])

LEMMA FinishGrows ==
  ASSUME TypeOK, Links, NEW p \in Procs, NEW ok \in BOOLEAN, Finish(p, ok)
  PROVE  Grows
<1>1. Len(pipes) <= Len(pipes') /\ Len(releases) <= Len(releases')
  BY FinishCounts
<1>2. \A n \in 1..Len(pipes) : pipes'[n].release = pipes[n].release
  BY FinishPipes
<1>3. Len(deployments) <= Len(deployments')
  BY FinishCounts
<1>4. \A i \in 1..Len(deployments) :
       /\ deployments'[i].env = deployments[i].env
       /\ deployments'[i].release = deployments[i].release
       /\ deployments'[i].pipe = deployments[i].pipe
  BY FinishShape
<1>5. \A i \in 1..Len(deployments) : TookPlace(deployments'[i]) <=> TookPlace(deployments[i])
  <2> SUFFICES ASSUME NEW i \in 1..Len(deployments)
               PROVE  TookPlace(deployments'[i]) <=> TookPlace(deployments[i])
    OBVIOUS
  <2>1. CASE tx[p].op = "rollback" /\ i = tx[p].current
    <3>1. tx[p].current # NoRow
      BY <2>1, RowsHaveTypes DEF NoRow
    <3> QED
      BY <2>1, <3>1, FinishShape DEF TookPlace
  <2>2. CASE ~(tx[p].op = "rollback" /\ i = tx[p].current)
    BY <2>2, FinishShape DEF TookPlace
  <2> QED
    BY <2>1, <2>2
<1> QED
  BY <1>1, <1>2, <1>3, <1>4, <1>5 DEF Grows

\* Nothing a transaction relies on is taken away while pipelines do not move.
LEMMA StagedKept ==
  ASSUME TypeOK, Grows, DOMAIN releases' = 1..Len(releases'),
         DOMAIN deployments' = 1..Len(deployments'), NEW n \in 1..Len(pipes), Staged(n),
         Len(releases') \in Nat, Len(deployments') \in Nat
  PROVE  Staged(n)'
<1>1. PICK k \in 1..Len(deployments) :
        /\ deployments[k].env = "staging" /\ TookPlace(deployments[k])
        /\ deployments[k].pipe = n /\ deployments[k].release = pipes[n].release
  BY RowsHaveTypes DEF Staged
<1>2. k \in DOMAIN deployments' /\ pipes'[n].release = pipes[n].release
  BY <1>1, RowsHaveTypes DEF Grows
<1>3. /\ deployments'[k].env = "staging" /\ TookPlace(deployments'[k])
      /\ deployments'[k].pipe = n /\ deployments'[k].release = pipes'[n].release
  BY <1>1, <1>2 DEF Grows
<1>4. pipes'[n].release \in DOMAIN releases'
  BY <1>2, RowsHaveTypes DEF Staged, Grows
<1> QED
  BY <1>2, <1>3, <1>4 DEF Staged, TookPlace

LEMMA LinksKept ==
  ASSUME TypeOK, Links, Grows, DOMAIN releases' = 1..Len(releases'),
         DOMAIN deployments' = 1..Len(deployments'), DOMAIN pipes' = 1..Len(pipes'),
         Len(releases') \in Nat, Len(deployments') \in Nat, Len(pipes') \in Nat,
         Len(pipes') > Len(pipes) \/ Len(releases') = Len(releases),
         NEW t \in Transactions, PipelineLink(t), ProductionLink(t), RollbackLink(t)
  PROVE  PipelineLink(t)' /\ ProductionLink(t)' /\ RollbackLink(t)'
<1>1. PipelineLink(t)'
  <2> SUFFICES ASSUME t.op = "pipeline"
               PROVE  /\ t.env = "staging" /\ t.current = NoRow /\ t.pipe \in 1..(Len(pipes') + 1)
                      /\ t.pipe <= MaxPipelines
                      /\ t.pipe = Len(pipes') + 1 => t.release = Len(releases') + 1
    BY DEF PipelineLink
  <2>1. /\ t.env = "staging" /\ t.current = NoRow /\ t.pipe \in 1..(Len(pipes) + 1)
        /\ t.pipe <= MaxPipelines /\ (t.pipe = Len(pipes) + 1 => t.release = Len(releases) + 1)
    BY DEF PipelineLink
  <2>2. Len(pipes) \in Nat /\ Len(releases) \in Nat
    BY RowsHaveTypes
  <2>3. Len(pipes) <= Len(pipes')
    BY DEF Grows
  <2> QED
    BY <2>1, <2>2, <2>3
<1>2. ProductionLink(t)'
  <2> SUFFICES ASSUME t.op = "production"
               PROVE  /\ t.env = "production" /\ t.current = NoRow
                      /\ t.pipe \in DOMAIN pipes' /\ t.release = pipes'[t.pipe].release
                      /\ Staged(t.pipe)'
    BY DEF ProductionLink
  <2>1. /\ t.env = "production" /\ t.current = NoRow
        /\ t.pipe \in 1..Len(pipes) /\ t.release = pipes[t.pipe].release /\ Staged(t.pipe)
    BY RowsHaveTypes DEF ProductionLink
  <2>2. Staged(t.pipe)'
    BY <2>1, StagedKept
  <2>3. Len(pipes) \in Nat /\ Len(pipes) <= Len(pipes')
        /\ pipes'[t.pipe].release = pipes[t.pipe].release
    BY <2>1, RowsHaveTypes DEF Grows
  <2> QED
    BY <2>1, <2>2, <2>3
<1>3. RollbackLink(t)'
  <2> SUFFICES ASSUME t.op = "rollback"
               PROVE  /\ t.pipe = NoPipe /\ t.release \in DOMAIN releases'
                      /\ t.current # NoRow => /\ t.current \in DOMAIN deployments'
                                              /\ deployments'[t.current].env = t.env
                                              /\ TookPlace(deployments'[t.current])
    BY DEF RollbackLink, TookPlace
  <2>1. /\ t.pipe = NoPipe /\ t.release \in 1..Len(releases)
        /\ t.current # NoRow => /\ t.current \in 1..Len(deployments)
                                /\ deployments[t.current].env = t.env
                                /\ TookPlace(deployments[t.current])
    BY RowsHaveTypes DEF RollbackLink
  <2>2. /\ Len(releases) \in Nat /\ Len(releases) <= Len(releases')
        /\ Len(deployments) \in Nat /\ Len(deployments) <= Len(deployments')
    BY RowsHaveTypes DEF Grows
  <2>3. t.current \in 1..Len(deployments) =>
          /\ deployments'[t.current].env = deployments[t.current].env
          /\ TookPlace(deployments'[t.current]) <=> TookPlace(deployments[t.current])
    BY DEF Grows
  <2> QED
    BY <2>1, <2>2, <2>3
<1> QED
  BY <1>1, <1>2, <1>3

-----------------------------------------------------------------------------
(* The type invariant and the links, one action at a time *)

LEMMA FinishKeepsTypes ==
  ASSUME TypeOK, Links, NEW p \in Procs, NEW ok \in BOOLEAN, Finish(p, ok)
  PROVE  TypeOK' /\ Links'
<1> DEFINE t == tx[p]
           n == Len(pipes)
           m == Len(releases)
<1>1. t \in Transactions /\ t # Idle /\ t.op \in {"pipeline", "production", "rollback"}
      /\ t.pipe \in Nat /\ t.release \in Versions /\ t.env \in Envs /\ t.current \in Nat
  BY Kinds DEF TypeOK, Finish, MayGoOn
<1>2. Grows
  BY FinishGrows
<1>3. /\ pipes' \in Seq(PipeRows) /\ releases' \in Seq(Outcomes) /\ deployments' \in Seq(Rowtypes)
  BY FinishPipes, FinishShape
<1>4. /\ DOMAIN releases' = 1..Len(releases') /\ DOMAIN deployments' = 1..Len(deployments')
      /\ DOMAIN pipes' = 1..Len(pipes') /\ Len(releases') \in Nat /\ Len(deployments') \in Nat
      /\ Len(pipes') \in Nat
  BY <1>3
<1>5. t.pipe \in 0..Len(pipes') /\ t.release \in 1..Len(releases')
  BY FinishCounts
<1>6. \A k \in 1..Len(pipes') : pipes'[k].release \in 0..Len(releases')
  <2> SUFFICES ASSUME NEW k \in 1..Len(pipes') PROVE pipes'[k].release \in 0..Len(releases')
    OBVIOUS
  <2>1. CASE k \in 1..n
    BY <1>2, <1>4, <2>1, RowsHaveTypes DEF Grows
  <2>2. CASE k \notin 1..n
    <3>1. t.op = "pipeline" /\ k = n + 1
      BY <2>2, FinishCounts
    <3>2. pipes'[n + 1] = [status |-> IF ok THEN "awaiting_production" ELSE "failed",
                           release |-> t.release]
      BY <3>1, FinishPipes
    <3>3. pipes'[n + 1].release = t.release
      BY <3>2
    <3> QED
      BY <1>4, <1>5, <3>1, <3>3
  <2> QED
    BY <2>1, <2>2
<1>7. \A i \in 1..Len(deployments') : /\ deployments'[i].release \in 1..Len(releases')
                                      /\ deployments'[i].pipe \in 0..Len(pipes')
  <2> SUFFICES ASSUME NEW i \in 1..Len(deployments')
               PROVE  /\ deployments'[i].release \in 1..Len(releases')
                      /\ deployments'[i].pipe \in 0..Len(pipes')
    OBVIOUS
  <2>1. CASE i \in 1..Len(deployments)
    BY <1>2, <1>4, <2>1, RowsHaveTypes DEF Grows
  <2>2. CASE i \notin 1..Len(deployments)
    <3>1. i = Len(deployments) + 1 /\ deployments'[i] = NewRow(t, ok)
      BY <2>2, FinishShape, RowsHaveTypes
    <3>2. NewRow(t, ok).release = t.release /\ NewRow(t, ok).pipe = t.pipe
      BY DEF NewRow
    <3> QED
      BY <1>5, <3>1, <3>2
  <2> QED
    BY <2>1, <2>2
<1>8. /\ pipes' \in Seq([status : {"failed", "awaiting_production", "passed"},
                         release : {NoRelease} \union DOMAIN releases'])
      /\ releases' \in Seq({"candidate", "released"})
      /\ deployments' \in Seq([env : Envs, release : DOMAIN releases',
                               pipe : {NoPipe} \union DOMAIN pipes', founder : BOOLEAN,
                               status : {"deployed", "failed", "rolled_back"}, stamp : Nat])
  <2> QED
    BY ONLY <1>3, <1>6, <1>7, HaveRowTypes
<1>9. rollbacks' \subseteq [env : Envs, from : {NoRow} \union DOMAIN deployments',
                            to : DOMAIN releases', completed : BOOLEAN]
  <2>1. rollbacks \subseteq [env : Envs, from : {NoRow} \union DOMAIN deployments',
                             to : DOMAIN releases', completed : BOOLEAN]
    <3>1. DOMAIN deployments \subseteq DOMAIN deployments' /\ DOMAIN releases \subseteq DOMAIN releases'
      BY <1>2, <1>4, RowsHaveTypes DEF Grows
    <3>2. rollbacks \subseteq [env : Envs, from : {NoRow} \union DOMAIN deployments,
                               to : DOMAIN releases, completed : BOOLEAN]
      BY DEF TypeOK
    <3> QED
      BY <3>1, <3>2
  <2>2. CASE t.op = "rollback"
    <3>1. t.current \in {NoRow} \union DOMAIN deployments'
      BY <1>1, <1>2, <1>4, <2>2, RowsHaveTypes DEF Links, RollbackLink, Grows
    <3> DEFINE h == [env |-> t.env, from |-> t.current, to |-> t.release, completed |-> ok]
    <3>2. h \in [env : Envs, from : {NoRow} \union DOMAIN deployments',
                 to : DOMAIN releases', completed : BOOLEAN]
      BY <1>1, <1>4, <1>5, <3>1
    <3>3. rollbacks' = rollbacks \union {h}
      BY <2>2 DEF Finish
    <3> HIDE DEF h
    <3> QED
      BY <2>1, <3>2, <3>3
  <2>3. CASE t.op # "rollback"
    BY <2>1, <2>3 DEF Finish
  <2> QED
    BY <2>2, <2>3
<1>10. disk' \in [Envs -> [Versions -> {"none", "partial", "whole"}]]
  <2>1. disk \in [Envs -> [Versions -> {"none", "partial", "whole"}]]
    BY DEF TypeOK
  <2>2. disk' = disk \/ disk' = [disk EXCEPT ![t.env][t.release] = "whole"]
    BY DEF Finish
  <2> QED
    BY <1>1, <2>1, <2>2
<1>11. tx' = [tx EXCEPT ![p] = Idle] /\ tx' \in [Procs -> Transactions]
       /\ \A q \in Procs : tx'[q] = IF q = p THEN Idle ELSE tx[q]
  BY DEF Finish, TypeOK, Transactions
<1>12. {begun', failures', crashes'} \subseteq Nat /\ redeployed' \subseteq Envs \X Versions
  BY DEF Finish, TypeOK
<1>13. TypeOK'
  BY <1>8, <1>9, <1>10, <1>11, <1>12 DEF TypeOK
<1>14. Len(pipes') > Len(pipes) \/ Len(releases') = Len(releases)
  BY FinishCounts
<1>15. \A q \in Procs : PipelineLink(tx[q])' /\ ProductionLink(tx[q])' /\ RollbackLink(tx[q])'
  <2> SUFFICES ASSUME NEW q \in Procs
               PROVE  PipelineLink(tx[q])' /\ ProductionLink(tx[q])' /\ RollbackLink(tx[q])'
    OBVIOUS
  <2>1. CASE q = p
    BY <1>11, <2>1 DEF PipelineLink, ProductionLink, RollbackLink, Idle
  <2>2. CASE q # p
    <3> PICK u : u = tx[q]
      OBVIOUS
    <3>1. u \in Transactions /\ PipelineLink(u) /\ ProductionLink(u) /\ RollbackLink(u) /\ tx'[q] = u
      BY <1>11, <2>2 DEF TypeOK, Links
    <3>2. PipelineLink(u)' /\ ProductionLink(u)' /\ RollbackLink(u)'
      BY ONLY <1>2, <1>4, <1>14, <3>1, LinksKept, TypeOK, Links
    <3>3. PipelineLink(tx[q])'
      BY ONLY <3>1, <3>2 DEF PipelineLink
    <3>4. ProductionLink(tx[q])'
      BY ONLY <3>1, <3>2 DEF ProductionLink
    <3>5. RollbackLink(tx[q])'
      BY ONLY <3>1, <3>2 DEF RollbackLink
    <3> QED
      BY <3>3, <3>4, <3>5
  <2> QED
    BY <2>1, <2>2
<1>16. \A k \in DOMAIN pipes' : pipes'[k].status # "failed" => Staged(k)'
  <2> SUFFICES ASSUME NEW k \in DOMAIN pipes', pipes'[k].status # "failed" PROVE Staged(k)'
    OBVIOUS
  <2>1. CASE k \in 1..n
    <3>1. Staged(k)
      <4>1. CASE t.op = "production" /\ k = t.pipe
        BY <4>1, FinishPipes
      <4>2. CASE ~(t.op = "production" /\ k = t.pipe)
        <5>1. pipes[k].status # "failed"
          <6>1. PipesAre(t, ok)
            BY FinishPipes
          <6> QED
            BY <2>1, <4>2, <6>1 DEF PipesAre
        <5> QED
          BY <2>1, <5>1, RowsHaveTypes DEF Links
      <4> QED
        BY <4>1, <4>2
    <3> QED
      BY <1>2, <1>4, <2>1, <3>1, StagedKept
  <2>2. CASE k \notin 1..n
    <3>1. t.op = "pipeline" /\ k = n + 1 /\ t.pipe = k /\ t.env = "staging"
      <4>1. k \in 1..Len(pipes')
        BY <1>4
      <4> QED
        BY <2>2, <4>1, FinishCounts
    <3>2. pipes'[k] = [status |-> IF ok THEN "awaiting_production" ELSE "failed",
                       release |-> t.release]
      BY <3>1, FinishPipes
    <3>3. pipes'[k].release = t.release /\ ok
      BY <3>2
    <3> DEFINE i == Len(deployments) + 1
    <3>4. i \in DOMAIN deployments' /\ deployments'[i] = NewRow(t, ok)
      <4>1. i \in DOMAIN deployments'
        <5>1. Len(deployments') = Len(deployments) + 1 /\ Len(deployments) \in Nat
          BY FinishCounts
        <5>2. i \in 1..Len(deployments')
          BY <5>1
        <5> QED
          BY <1>4, <5>2
      <4>2. deployments'[i] = NewRow(t, ok)
        BY FinishShape
      <4> QED
        BY <4>1, <4>2
    <3>5. /\ NewRow(t, ok).env = "staging" /\ NewRow(t, ok).status = "deployed"
          /\ NewRow(t, ok).pipe = k /\ NewRow(t, ok).release = t.release
      BY <3>1, <3>3 DEF NewRow, Outcome
    <3> HIDE DEF i, t
    <3> QED
      BY <1>4, <1>5, <3>3, <3>4, <3>5 DEF Staged, TookPlace
  <2> QED
    BY <2>1, <2>2
<1>17. Len(releases') <= Len(pipes') /\ Len(pipes') <= MaxPipelines
  <2>1. Len(releases) <= Len(pipes) /\ Len(pipes) <= MaxPipelines
    BY DEF Links
  <2> QED
    BY <2>1, FinishCounts
<1>18. Links'
  BY <1>15, <1>16, <1>17 DEF Links
<1> QED
  BY <1>13, <1>18

\* A step that leaves releases and deployments alone, and ends at most the
\* transactions in flight or starts one.
LEMMA QuietKeepsTypes ==
  ASSUME TypeOK, Links,
         UNCHANGED <<releases, deployments, rollbacks>>,
         pipes' = pipes \/ \E p \in Procs : StopPipeline(p),
         disk' \in [Envs -> [Versions -> {"none", "partial", "whole"}]],
         {begun', failures', crashes'} \subseteq Nat, redeployed' \subseteq Envs \X Versions,
         tx' \in [Procs -> Transactions],
         \A q \in Procs : \/ tx'[q] = Idle
                          \/ \E x \in BOOLEAN : tx'[q] = [tx[q] EXCEPT !.extracting = x] /\ tx[q] # Idle
                          \/ tx'[q] = tx[q]
                          \/ pipes' = pipes /\ PipelineLink(tx'[q]) /\ ProductionLink(tx'[q])
                               /\ RollbackLink(tx'[q])
  PROVE  TypeOK' /\ Links'
<1>1. /\ pipes' \in Seq(PipeRows) /\ Len(pipes) \in Nat /\ Len(pipes') \in Nat
      /\ DOMAIN pipes' = 1..Len(pipes') /\ Len(pipes) <= Len(pipes') /\ Len(pipes') <= MaxPipelines
      /\ \A n \in 1..Len(pipes) : pipes'[n] = pipes[n]
      /\ \A n \in 1..Len(pipes') : n \notin 1..Len(pipes) =>
            pipes'[n].status = "failed" /\ pipes'[n].release = NoRelease
      /\ pipes' = pipes \/ Len(pipes') > Len(pipes)
  <2>1. CASE pipes' = pipes
    BY <2>1, RowsHaveTypes DEF Links
  <2>2. CASE \E p \in Procs : StopPipeline(p)
    <3>1. PICK p \in Procs : StopPipeline(p)
      BY <2>2
    <3> DEFINE new == [status |-> "failed", release |-> NoRelease]
    <3>2. pipes' = Append(pipes, new) /\ new \in PipeRows
      BY <3>1 DEF StopPipeline, PipeRows, NoRelease
    <3>3. new.status = "failed" /\ new.release = NoRelease
      OBVIOUS
    <3>4. tx[p].pipe = Len(pipes) + 1 /\ tx[p].pipe <= MaxPipelines
      BY <3>1 DEF StopPipeline, MayGoOn, Numbered, Links, PipelineLink
    <3> HIDE DEF new
    <3>5. pipes \in Seq(PipeRows) /\ Len(pipes) \in Nat
      BY RowsHaveTypes
    <3>6. /\ pipes' \in Seq(PipeRows) /\ Len(pipes') = Len(pipes) + 1
          /\ \A n \in 1..Len(pipes) : pipes'[n] = pipes[n]
          /\ pipes'[Len(pipes) + 1] = new
      BY <3>2, <3>5, Appended
    <3> QED
      BY <3>3, <3>4, <3>5, <3>6
  <2> QED
    BY <2>1, <2>2
<1>2. Grows
  BY <1>1, RowsHaveTypes DEF Grows
<1>3. /\ releases' \in Seq(Outcomes) /\ deployments' \in Seq(Rowtypes)
      /\ DOMAIN releases' = 1..Len(releases') /\ DOMAIN deployments' = 1..Len(deployments')
      /\ Len(releases') \in Nat /\ Len(deployments') \in Nat
  BY RowsHaveTypes
<1>4. \A n \in 1..Len(pipes') : pipes'[n].release \in 0..Len(releases')
  <2> SUFFICES ASSUME NEW n \in 1..Len(pipes') PROVE pipes'[n].release \in 0..Len(releases')
    OBVIOUS
  <2>1. CASE n \in 1..Len(pipes)
    BY <1>1, <2>1, RowsHaveTypes
  <2>2. CASE n \notin 1..Len(pipes)
    BY <1>1, <1>3, <2>2 DEF NoRelease
  <2> QED
    BY <2>1, <2>2
<1>5. \A i \in 1..Len(deployments') : /\ deployments'[i].release \in 1..Len(releases')
                                      /\ deployments'[i].pipe \in 0..Len(pipes')
  <2>1. \A i \in 1..Len(deployments) : /\ deployments[i].release \in 1..Len(releases)
                                       /\ deployments[i].pipe \in 0..Len(pipes)
    BY RowsHaveTypes
  <2> QED
    BY <1>1, <2>1
<1>6. /\ pipes' \in Seq([status : {"failed", "awaiting_production", "passed"},
                         release : {NoRelease} \union DOMAIN releases'])
      /\ releases' \in Seq({"candidate", "released"})
      /\ deployments' \in Seq([env : Envs, release : DOMAIN releases',
                               pipe : {NoPipe} \union DOMAIN pipes', founder : BOOLEAN,
                               status : {"deployed", "failed", "rolled_back"}, stamp : Nat])
  BY ONLY <1>1, <1>3, <1>4, <1>5, HaveRowTypes
<1>7. TypeOK'
  BY <1>6 DEF TypeOK
<1>8. \A u \in Transactions :
        PipelineLink(u) /\ ProductionLink(u) /\ RollbackLink(u) =>
          PipelineLink(u)' /\ ProductionLink(u)' /\ RollbackLink(u)'
  <2>1. Len(pipes') > Len(pipes) \/ Len(releases') = Len(releases)
    BY <1>1
  <2> QED
    BY ONLY <1>1, <1>2, <1>3, <2>1, LinksKept, TypeOK, Links
<1>9. \A q \in Procs : PipelineLink(tx[q])' /\ ProductionLink(tx[q])' /\ RollbackLink(tx[q])'
  <2> SUFFICES ASSUME NEW q \in Procs
               PROVE  PipelineLink(tx[q])' /\ ProductionLink(tx[q])' /\ RollbackLink(tx[q])'
    OBVIOUS
  <2>1. tx[q] \in Transactions /\ PipelineLink(tx[q]) /\ ProductionLink(tx[q]) /\ RollbackLink(tx[q])
    BY DEF TypeOK, Links
  <2>2. CASE tx'[q] = Idle
    BY <2>2 DEF PipelineLink, ProductionLink, RollbackLink, Idle
  <2>3. CASE tx'[q] = tx[q]
    BY <1>8, <2>1, <2>3 DEF PipelineLink, ProductionLink, RollbackLink, TookPlace, Staged
  <2>4. CASE \E x \in BOOLEAN : tx'[q] = [tx[q] EXCEPT !.extracting = x] /\ tx[q] # Idle
    <3>1. PICK x \in BOOLEAN : tx'[q] = [tx[q] EXCEPT !.extracting = x] /\ tx[q] # Idle
      BY <2>4
    <3>2. tx[q] \in [op : {"pipeline", "production", "rollback"}, pipe : Nat, release : Versions,
                     env : Envs, current : Nat, stamp : Nat, extracting : BOOLEAN]
      BY <2>1, <3>1 DEF Transactions
    <3>3. tx'[q] \in Transactions
      BY DEF TypeOK
    <3>4. /\ tx'[q].op = tx[q].op /\ tx'[q].env = tx[q].env /\ tx'[q].pipe = tx[q].pipe
          /\ tx'[q].release = tx[q].release /\ tx'[q].current = tx[q].current
      BY <3>1, <3>2
    <3>5. PipelineLink(tx'[q]) /\ ProductionLink(tx'[q]) /\ RollbackLink(tx'[q])
      BY <2>1, <3>4 DEF PipelineLink, ProductionLink, RollbackLink
    <3> QED
      BY <1>8, <3>3, <3>5 DEF PipelineLink, ProductionLink, RollbackLink, TookPlace, Staged
  <2>5. CASE pipes' = pipes /\ PipelineLink(tx'[q]) /\ ProductionLink(tx'[q]) /\ RollbackLink(tx'[q])
    BY <2>5 DEF PipelineLink, ProductionLink, RollbackLink, TookPlace, Staged
  <2> QED
    BY <2>2, <2>3, <2>4, <2>5
<1>10. \A n \in DOMAIN pipes' : pipes'[n].status # "failed" => Staged(n)'
  <2> SUFFICES ASSUME NEW n \in DOMAIN pipes', pipes'[n].status # "failed" PROVE Staged(n)'
    OBVIOUS
  <2>1. n \in 1..Len(pipes) /\ pipes[n].status # "failed"
    BY <1>1
  <2>2. Staged(n)
    BY <2>1, RowsHaveTypes DEF Links
  <2> QED
    BY <1>2, <1>3, <2>1, <2>2, StagedKept
<1>11. Len(releases') <= Len(pipes') /\ Len(pipes') <= MaxPipelines
  BY <1>1, RowsHaveTypes DEF Links
<1> QED
  BY <1>7, <1>9, <1>10, <1>11 DEF Links

LEMMA BeginKeepsTypes ==
  ASSUME TypeOK, Links, NEW p \in Procs,
         NEW op \in {"pipeline", "production", "rollback"}, NEW pipe \in Nat,
         NEW release \in Versions, NEW env \in Envs, NEW current \in Nat,
         Begin(p, op, pipe, release, env, current),
         \A t \in Transactions :
           t.op = op /\ t.pipe = pipe /\ t.release = release /\ t.env = env /\ t.current = current
             => PipelineLink(t) /\ ProductionLink(t) /\ RollbackLink(t)
  PROVE  TypeOK' /\ Links'
<1> DEFINE t == [op |-> op, pipe |-> pipe, release |-> release, env |-> env,
                 current |-> current, stamp |-> begun, extracting |-> FALSE]
<1>1. /\ t \in Transactions /\ t.op = op /\ t.pipe = pipe /\ t.release = release
      /\ t.env = env /\ t.current = current
  BY DEF TypeOK, Transactions
<1>2. tx' = [tx EXCEPT ![p] = t]
  BY DEF Begin
<1>3. UNCHANGED <<pipes, releases, deployments, rollbacks, disk, failures, crashes, redeployed>>
      /\ begun' = begun + 1
  BY DEF Begin
<1>4. PipelineLink(t) /\ ProductionLink(t) /\ RollbackLink(t)
  BY <1>1
<1> HIDE DEF t
<1>5. tx' \in [Procs -> Transactions] /\ \A q \in Procs : tx'[q] = tx[q] \/ tx'[q] = t
  BY <1>1, <1>2 DEF TypeOK
<1>6. \A q \in Procs : \/ tx'[q] = tx[q]
                       \/ PipelineLink(tx'[q]) /\ ProductionLink(tx'[q]) /\ RollbackLink(tx'[q])
  BY <1>4, <1>5 DEF PipelineLink, ProductionLink, RollbackLink
<1>7. /\ disk' \in [Envs -> [Versions -> {"none", "partial", "whole"}]]
      /\ {begun', failures', crashes'} \subseteq Nat /\ redeployed' \subseteq Envs \X Versions
  BY <1>3 DEF TypeOK
<1> QED
  BY <1>3, <1>5, <1>6, <1>7, QuietKeepsTypes

LEMMA StartPipelineKeepsTypes ==
  ASSUME TypeOK, Links, NEW p \in Procs, StartPipeline(p)
  PROVE  TypeOK' /\ Links'
<1>1. Cardinality(InFlight("pipeline")) \in Nat
  BY ProcsAssumption, FS_Subset, FS_CardinalityType DEF InFlight
<1>2. Len(pipes) \in Nat /\ Len(releases) \in Nat /\ Len(releases) <= Len(pipes)
      /\ MaxPipelines \in Nat
  BY RowsHaveTypes, BoundsAssumption DEF Links
<1>3. Len(pipes) + Cardinality(InFlight("pipeline")) < MaxPipelines
      /\ Begin(p, "pipeline", Len(pipes) + 1, Len(releases) + 1, "staging", NoRow)
  BY DEF StartPipeline
<1>4. Len(pipes) + 1 <= MaxPipelines /\ Len(pipes) + 1 \in Nat /\ Len(releases) + 1 \in Versions
  BY <1>1, <1>2, <1>3 DEF Versions
<1>5. \A t \in Transactions :
        t.op = "pipeline" /\ t.pipe = Len(pipes) + 1 /\ t.release = Len(releases) + 1
          /\ t.env = "staging" /\ t.current = NoRow
            => PipelineLink(t) /\ ProductionLink(t) /\ RollbackLink(t)
  BY <1>2, <1>4 DEF PipelineLink, ProductionLink, RollbackLink
<1>6. "staging" \in Envs /\ NoRow \in Nat
  BY DEF Envs, NoRow
<1> QED
  BY <1>3, <1>4, <1>5, <1>6, BeginKeepsTypes

LEMMA StartProductionKeepsTypes ==
  ASSUME TypeOK, Links, NEW p \in Procs, StartProduction(p)
  PROVE  TypeOK' /\ Links'
<1>1. PICK i \in DOMAIN pipes :
        /\ AwaitsProduction(i)
        /\ Begin(p, "production", i, pipes[i].release, "production", NoRow)
  BY DEF StartProduction
<1>2. Staged(i)
  BY <1>1 DEF AwaitsProduction, Links
<1>3. i \in Nat /\ pipes[i].release \in Versions
  <2>1. pipes[i].release \in 1..Len(releases)
    BY <1>2, RowsHaveTypes DEF Staged
  <2>2. Len(releases) <= MaxPipelines /\ Len(releases) \in Nat /\ MaxPipelines \in Nat
    BY RowsHaveTypes, BoundsAssumption DEF Links
  <2>3. i \in Nat
    BY RowsHaveTypes
  <2> QED
    BY <2>1, <2>2, <2>3 DEF Versions
<1>4. \A t \in Transactions :
        t.op = "production" /\ t.pipe = i /\ t.release = pipes[i].release
          /\ t.env = "production" /\ t.current = NoRow
            => PipelineLink(t) /\ ProductionLink(t) /\ RollbackLink(t)
  BY <1>2 DEF PipelineLink, ProductionLink, RollbackLink
<1>5. "production" \in Envs /\ NoRow \in Nat
  BY DEF Envs, NoRow
<1> QED
  BY <1>1, <1>3, <1>4, <1>5, BeginKeepsTypes

LEMMA StartRollbackKeepsTypes ==
  ASSUME TypeOK, Links, NEW p \in Procs, StartRollback(p)
  PROVE  TypeOK' /\ Links'
<1>1. PICK e \in Envs, r \in DOMAIN releases :
        \E i \in Deployed(e) \union {NoRow} : Begin(p, "rollback", NoPipe, r, e, i)
  <2>1. PICK e \in Envs, r \in DOMAIN releases :
          \E i \in (IF Current(e) = {} THEN {NoRow} ELSE Current(e)) :
            Begin(p, "rollback", NoPipe, r, e, i)
    BY DEF StartRollback
  <2>2. (IF Current(e) = {} THEN {NoRow} ELSE Current(e)) \subseteq Deployed(e) \union {NoRow}
    BY DEF Current
  <2> QED
    BY <2>1, <2>2
<1>6. PICK i \in Deployed(e) \union {NoRow} : Begin(p, "rollback", NoPipe, r, e, i)
  BY <1>1
<1>2. r \in Versions
  <2>1. Len(releases) <= MaxPipelines /\ Len(releases) \in Nat /\ MaxPipelines \in Nat
    BY RowsHaveTypes, BoundsAssumption DEF Links
  <2> QED
    BY <2>1, RowsHaveTypes DEF Versions
<1>3. i # NoRow => /\ i \in DOMAIN deployments /\ deployments[i].env = e
                   /\ TookPlace(deployments[i])
  BY DEF Deployed, TookPlace
<1>4. i \in Nat /\ NoPipe \in Nat
  BY <1>3, RowsHaveTypes DEF NoRow, NoPipe
<1>5. \A t \in Transactions :
        t.op = "rollback" /\ t.pipe = NoPipe /\ t.release = r /\ t.env = e /\ t.current = i
          => PipelineLink(t) /\ ProductionLink(t) /\ RollbackLink(t)
  BY <1>3 DEF PipelineLink, ProductionLink, RollbackLink
<1>7. "rollback" \in {"pipeline", "production", "rollback"}
  OBVIOUS
<1> QED
  BY <1>2, <1>4, <1>5, <1>6, <1>7, BeginKeepsTypes

LEMMA ExtractKeepsTypes ==
  ASSUME TypeOK, Links, NEW p \in Procs, Extract(p)
  PROVE  TypeOK' /\ Links'
<1>1. /\ tx[p] # Idle /\ tx[p].env \in Envs /\ tx[p].release \in Versions
      /\ tx[p] \in [op : {"pipeline", "production", "rollback"}, pipe : Nat, release : Versions,
                    env : Envs, current : Nat, stamp : Nat, extracting : BOOLEAN]
  BY DEF TypeOK, Transactions, Extract, MayGoOn
<1>2. UNCHANGED <<pipes, releases, deployments, rollbacks, begun, failures, crashes>>
      /\ tx' = [tx EXCEPT ![p].extracting = TRUE]
      /\ disk' = [disk EXCEPT ![tx[p].env][tx[p].release] = "partial"]
  BY DEF Extract
<1>3. \/ redeployed' = redeployed
      \/ redeployed' = redeployed \union {<<tx[p].env, tx[p].release>>}
  BY DEF Extract
<1>4. disk' \in [Envs -> [Versions -> {"none", "partial", "whole"}]]
  BY <1>1, <1>2 DEF TypeOK
<1>5. redeployed' \subseteq Envs \X Versions /\ {begun', failures', crashes'} \subseteq Nat
  BY <1>1, <1>2, <1>3 DEF TypeOK
<1>6. [tx[p] EXCEPT !.extracting = TRUE] \in Transactions
  BY <1>1 DEF Transactions
<1>7. /\ tx' \in [Procs -> Transactions]
      /\ \A q \in Procs : \/ tx'[q] = tx[q]
                          \/ tx'[q] = [tx[q] EXCEPT !.extracting = TRUE] /\ tx[q] # Idle
  BY <1>1, <1>2, <1>6 DEF TypeOK
<1> QED
  BY <1>2, <1>4, <1>5, <1>7, QuietKeepsTypes

\* Whatever ends transactions and touches no row but that of a pipeline.
LEMMA EndKeepsTypes ==
  ASSUME TypeOK, Links, UNCHANGED <<releases, deployments, rollbacks, disk, redeployed>>,
         pipes' = pipes \/ \E p \in Procs : StopPipeline(p),
         {begun', failures', crashes'} \subseteq Nat, tx' \in [Procs -> Transactions],
         \A q \in Procs : tx'[q] = Idle \/ tx'[q] = tx[q]
  PROVE  TypeOK' /\ Links'
<1>1. /\ disk' \in [Envs -> [Versions -> {"none", "partial", "whole"}]]
      /\ redeployed' \subseteq Envs \X Versions
  BY DEF TypeOK
<1> QED
  BY <1>1, QuietKeepsTypes

LEMMA NextKeepsTypes == TypeOK /\ Links /\ [Next]_vars => TypeOK' /\ Links'
<1> SUFFICES ASSUME TypeOK, Links, [Next]_vars PROVE TypeOK' /\ Links'
  OBVIOUS
<1> USE DEF Procs
<1>1. ASSUME NEW p \in Builders, StartPipeline(p) PROVE TypeOK' /\ Links'
  BY <1>1, StartPipelineKeepsTypes
<1>2. ASSUME NEW p \in Builders, StopPipeline(p) PROVE TypeOK' /\ Links'
  <2>1. /\ UNCHANGED <<releases, deployments, rollbacks, disk, redeployed, begun, failures, crashes>>
        /\ tx' = [tx EXCEPT ![p] = Idle]
    BY <1>2 DEF StopPipeline
  <2>2. tx' \in [Procs -> Transactions] /\ \A q \in Procs : tx'[q] = Idle \/ tx'[q] = tx[q]
    BY <2>1 DEF TypeOK, Transactions
  <2>3. {begun', failures', crashes'} \subseteq Nat
    BY <2>1 DEF TypeOK
  <2> QED
    BY <1>2, <2>1, <2>2, <2>3, EndKeepsTypes
<1>3. ASSUME NEW p \in Builders, PipelineConflict(p) PROVE TypeOK' /\ Links'
  <2>1. /\ UNCHANGED <<pipes, releases, deployments, rollbacks, disk, redeployed, begun, failures, crashes>>
        /\ tx' = [tx EXCEPT ![p] = Idle]
    BY <1>3 DEF PipelineConflict
  <2>2. tx' \in [Procs -> Transactions] /\ \A q \in Procs : tx'[q] = Idle \/ tx'[q] = tx[q]
    BY <2>1 DEF TypeOK, Transactions
  <2>3. {begun', failures', crashes'} \subseteq Nat
    BY <2>1 DEF TypeOK
  <2> QED
    BY <2>1, <2>2, <2>3, EndKeepsTypes
<1>4. ASSUME NEW p \in Founders, StartProduction(p) PROVE TypeOK' /\ Links'
  BY <1>4, StartProductionKeepsTypes
<1>5. ASSUME NEW p \in Founders, StartRollback(p) PROVE TypeOK' /\ Links'
  BY <1>5, StartRollbackKeepsTypes
<1>6. ASSUME NEW p \in Procs, Extract(p) PROVE TypeOK' /\ Links'
  BY <1>6, ExtractKeepsTypes
<1>7. ASSUME NEW p \in Procs, NEW ok \in BOOLEAN, Finish(p, ok) PROVE TypeOK' /\ Links'
  BY <1>7, FinishKeepsTypes
<1>8. CASE Crash
  <2>1. /\ UNCHANGED <<pipes, releases, deployments, rollbacks, disk, redeployed, begun, failures>>
        /\ tx' = [p \in Procs |-> Idle] /\ crashes' = crashes + 1
    BY <1>8 DEF Crash
  <2>2. tx' \in [Procs -> Transactions] /\ \A q \in Procs : tx'[q] = Idle \/ tx'[q] = tx[q]
    BY <2>1 DEF Transactions
  <2>3. {begun', failures', crashes'} \subseteq Nat
    BY <2>1 DEF TypeOK
  <2> QED
    BY <2>1, <2>2, <2>3, EndKeepsTypes
<1>9. CASE UNCHANGED vars
  <2>1. UNCHANGED <<pipes, releases, deployments, rollbacks, disk, redeployed, begun, failures, crashes, tx>>
    BY <1>9 DEF vars
  <2>2. {begun', failures', crashes'} \subseteq Nat /\ tx' \in [Procs -> Transactions]
    BY <2>1 DEF TypeOK
  <2> QED
    BY <2>1, <2>2, EndKeepsTypes
<1> QED
  BY <1>1, <1>2, <1>3, <1>4, <1>5, <1>6, <1>7, <1>8, <1>9 DEF Next

-----------------------------------------------------------------------------
(* The safety invariants *)

Safe == ReleasedRanInProduction /\ PipelineTellsDeployments /\ EnvironmentStaysServed

\* A step that leaves the rows alone leaves alone what they say.
LEMMA QuietKeepsSafe ==
  ASSUME TypeOK, Safe, UNCHANGED <<releases, deployments, rollbacks>>,
         pipes' = pipes \/ \E p \in Procs : StopPipeline(p)
  PROVE  Safe'
<1>1. ReleasedRanInProduction'
  BY DEF Safe, ReleasedRanInProduction, TookPlace
<1>2. EnvironmentStaysServed'
  BY DEF Safe, EnvironmentStaysServed, TookPlace, Deployed
<1>3. ShippedWasStaged'
  BY DEF Safe, PipelineTellsDeployments, ShippedWasStaged, TookPlace
<1>4. PipelineTellsProduction'
  <2>1. CASE pipes' = pipes
    BY <2>1 DEF Safe, PipelineTellsDeployments, PipelineTellsProduction, TookPlace
  <2>2. CASE \E p \in Procs : StopPipeline(p)
    <3> DEFINE new == [status |-> "failed", release |-> NoRelease]
    <3>1. pipes' = Append(pipes, new)
      BY <2>2 DEF StopPipeline
    <3>2. new \in PipeRows /\ new.status = "failed"
      BY DEF PipeRows, NoRelease
    <3> HIDE DEF new
    <3>3. /\ DOMAIN pipes' = 1..(Len(pipes) + 1) /\ pipes'[Len(pipes) + 1] = new
          /\ \A n \in 1..Len(pipes) : pipes'[n] = pipes[n]
          /\ DOMAIN pipes = 1..Len(pipes) /\ Len(pipes) \in Nat
      <4>1. pipes \in Seq(PipeRows) /\ DOMAIN pipes = 1..Len(pipes) /\ Len(pipes) \in Nat
        BY RowsHaveTypes
      <4>2. /\ pipes' \in Seq(PipeRows) /\ Len(pipes') = Len(pipes) + 1
            /\ \A n \in 1..Len(pipes) : pipes'[n] = pipes[n]
            /\ pipes'[Len(pipes) + 1] = new
        <5>1. new \in PipeRows
          BY <3>2
        <5> HIDE DEF PipeRows
        <5> QED
          BY ONLY <3>1, <4>1, <5>1, Appended
      <4> QED
        BY <4>1, <4>2
    <3>4. \A n \in DOMAIN pipes' : (n \in DOMAIN pipes /\ pipes'[n] = pipes[n])
                                     \/ pipes'[n].status = "failed"
      BY <3>2, <3>3
    <3> QED
      BY <3>4 DEF Safe, PipelineTellsDeployments, PipelineTellsProduction, TookPlace
  <2> QED
    BY <2>1, <2>2
<1> QED
  BY <1>1, <1>2, <1>3, <1>4 DEF Safe, PipelineTellsDeployments

\* The row a deployment adds, and the rows that were there.
LEMMA FinishRows ==
  ASSUME TypeOK, Links, NEW p \in Procs, NEW ok \in BOOLEAN, Finish(p, ok)
  PROVE  LET t == tx[p]
             n == Len(deployments)
             row == deployments'[n + 1] IN
         /\ n \in Nat /\ DOMAIN deployments = 1..n /\ DOMAIN deployments' = 1..(n + 1)
         /\ row.env = t.env /\ row.pipe = t.pipe /\ row.release = t.release
         /\ row.status = Outcome(ok) /\ (TookPlace(row) <=> ok)
<1> DEFINE t == tx[p]
           n == Len(deployments)
           new == NewRow(t, ok)
<1>1. n \in Nat /\ DOMAIN deployments = 1..n
  BY RowsHaveTypes
<1>2. deployments' \in Seq(Rowtypes) /\ Len(deployments') = n + 1
  BY FinishShape
<1>3. DOMAIN deployments' = 1..(n + 1)
  BY <1>1, <1>2
<1>4. deployments'[n + 1] = new
  BY FinishShape
<1>5. /\ new.env = t.env /\ new.pipe = t.pipe /\ new.release = t.release
      /\ new.status = Outcome(ok)
  BY DEF NewRow
<1>6. TookPlace(new) <=> ok
  BY <1>5 DEF TookPlace, Outcome
<1> HIDE DEF new
<1> QED
  BY <1>1, <1>3, <1>4, <1>5, <1>6 DEF TookPlace

LEMMA FinishKeepsReleased ==
  ASSUME TypeOK, Links, ReleasedRanInProduction, NEW p \in Procs, NEW ok \in BOOLEAN, Finish(p, ok)
  PROVE  ReleasedRanInProduction'
<1> DEFINE t == tx[p]
           n == Len(deployments)
           m == Len(releases)
           Ran(r) == \E i \in 1..n : /\ deployments[i].env = "production"
                                     /\ deployments[i].release = r /\ TookPlace(deployments[i])
           RanNow(r) == \E i \in 1..(n + 1) :
                          /\ deployments'[i].env = "production"
                          /\ deployments'[i].release = r /\ TookPlace(deployments'[i])
<1>1. /\ n \in Nat /\ m \in Nat /\ DOMAIN releases = 1..m /\ DOMAIN deployments = 1..n
      /\ DOMAIN deployments' = 1..(n + 1)
  BY FinishRows, RowsHaveTypes
<1>2. DOMAIN releases' = 1..Len(releases')
  <2>1. releases' \in Seq(Outcomes)
    BY FinishPipes
  <2> QED
    BY <2>1
<1>3. \A r : RanNow(r) <=> Ran(r) \/ (ok /\ t.env = "production" /\ t.release = r)
  <2>1. \A r : Ran(r) <=> \E i \in 1..n : /\ deployments'[i].env = "production"
                                     /\ deployments'[i].release = r /\ TookPlace(deployments'[i])
    BY FinishGrows DEF Grows
  <2>2. LET row == deployments'[n + 1] IN
        row.env = t.env /\ row.release = t.release /\ (TookPlace(row) <=> ok)
    BY FinishRows
  <2>3. \A i \in 1..(n + 1) : i \in 1..n \/ i = n + 1
    BY <1>1
  <2>4. n + 1 \in 1..(n + 1) /\ \A i \in 1..n : i \in 1..(n + 1)
    BY <1>1
  <2> QED
    BY <2>1, <2>2, <2>3, <2>4
<1>4. \A r \in 1..m : releases[r] = "released" <=> Ran(r)
  BY <1>1 DEF ReleasedRanInProduction
<1>5. ReleasesAre(t, ok)
  BY FinishPipes
<1>6. \A r \in 1..m : releases'[r] = "released" <=> RanNow(r)
  <2> HIDE DEF Ran, RanNow
  <2> QED
    BY <1>3, <1>4, <1>5 DEF ReleasesAre
<1>7. \A r \in 1..Len(releases') : r \notin 1..m => releases'[r] # "released" /\ ~RanNow(r)
  <2> SUFFICES ASSUME NEW r \in 1..Len(releases'), r \notin 1..m
               PROVE  releases'[r] # "released" /\ ~RanNow(r)
    OBVIOUS
  <2>1. t.op = "pipeline" /\ r = m + 1 /\ t.env = "staging"
    BY FinishCounts
  <2>2. releases'[r] = "candidate"
    BY <2>1, FinishPipes
  <2>3. ~Ran(r)
    <3>1. \A i \in 1..n : deployments[i].release \in 1..m
      BY RowsHaveTypes
    <3> QED
      BY <3>1
  <2> HIDE DEF Ran, RanNow, t
  <2>4. ~RanNow(r)
    BY <1>3, <2>1, <2>3
  <2> QED
    BY <2>2, <2>4
<1>8. \A r \in 1..Len(releases') : releases'[r] = "released" <=> RanNow(r)
  <2> HIDE DEF RanNow
  <2> QED
    BY <1>6, <1>7
<1> QED
  BY <1>1, <1>2, <1>8 DEF ReleasedRanInProduction, TookPlace

LEMMA FinishKeepsStaged ==
  ASSUME TypeOK, Links, ShippedWasStaged, NEW p \in Procs, NEW ok \in BOOLEAN, Finish(p, ok)
  PROVE  ShippedWasStaged'
<1> DEFINE t == tx[p]
           n == Len(deployments)
           StagedAs(d, k) == /\ deployments[k].env = "staging" /\ TookPlace(deployments[k])
                             /\ deployments[k].pipe = d.pipe
                             /\ deployments[k].release = d.release
           StagedNow(d, k) == /\ deployments'[k].env = "staging" /\ TookPlace(deployments'[k])
                              /\ deployments'[k].pipe = d.pipe
                              /\ deployments'[k].release = d.release
<1>1. n \in Nat /\ DOMAIN deployments = 1..n /\ DOMAIN deployments' = 1..(n + 1)
  BY FinishRows
<1>2. \A d : \A k \in 1..n : StagedAs(d, k) => StagedNow(d, k)
  BY FinishGrows DEF Grows
<1> SUFFICES ASSUME NEW i \in 1..(n + 1), deployments'[i].env = "production",
                    deployments'[i].pipe # NoPipe
             PROVE  \E k \in 1..(i - 1) : StagedNow(deployments'[i], k)
  BY <1>1 DEF ShippedWasStaged, TookPlace
<1>3. CASE i \in 1..n
  <2>1. /\ deployments[i].env = "production" /\ deployments[i].pipe # NoPipe
        /\ deployments'[i].pipe = deployments[i].pipe
        /\ deployments'[i].release = deployments[i].release
    BY <1>3, FinishGrows DEF Grows
  <2>2. PICK k \in 1..(i - 1) : StagedAs(deployments[i], k)
    BY <1>1, <1>3, <2>1 DEF ShippedWasStaged
  <2>3. k \in 1..n
    BY <1>1, <1>3
  <2>4. StagedAs(deployments'[i], k)
    BY <2>1, <2>2
  <2> QED
    BY <1>2, <2>3, <2>4
<1>4. CASE i \notin 1..n
  <2>1. i = n + 1
    BY <1>1, <1>4
  <2>2. deployments'[i].env = t.env /\ deployments'[i].pipe = t.pipe
        /\ deployments'[i].release = t.release
    BY <2>1, FinishRows
  <2>3. t.op = "production"
    <3>1. t.op # "pipeline"
      BY <2>2, FinishCounts
    <3>2. t.op # "rollback"
      BY <2>2, FinishPipes DEF NoPipe
    <3> QED
      BY <3>1, <3>2, FinishCounts
  <2>4. Staged(t.pipe) /\ t.release = pipes[t.pipe].release
    BY <2>3, FinishPipes
  <2>5. PICK k \in 1..n : StagedAs(deployments'[i], k)
    BY <1>1, <2>2, <2>4 DEF Staged
  <2>6. k \in 1..(i - 1)
    BY <1>1, <2>1
  <2> QED
    BY <1>2, <2>5, <2>6
<1> QED
  BY <1>3, <1>4

LEMMA FinishKeepsTold ==
  ASSUME TypeOK, Links, PipelineTellsProduction, NEW p \in Procs, NEW ok \in BOOLEAN, Finish(p, ok)
  PROVE  PipelineTellsProduction'
<1> DEFINE t == tx[p]
           n == Len(deployments)
           Ran(k) == \E i \in 1..n : /\ deployments[i].env = "production"
                                     /\ deployments[i].pipe = k /\ TookPlace(deployments[i])
           RanNow(k) == \E i \in 1..(n + 1) :
                          /\ deployments'[i].env = "production"
                          /\ deployments'[i].pipe = k /\ TookPlace(deployments'[i])
<1>1. /\ n \in Nat /\ DOMAIN deployments = 1..n /\ DOMAIN deployments' = 1..(n + 1)
      /\ Len(pipes) \in Nat /\ DOMAIN pipes = 1..Len(pipes)
  BY FinishRows, RowsHaveTypes
<1>2. DOMAIN pipes' = 1..Len(pipes')
  <2>1. pipes' \in Seq(PipeRows)
    BY FinishPipes
  <2> QED
    BY <2>1
<1>3. \A k : RanNow(k) <=> Ran(k) \/ (ok /\ t.env = "production" /\ t.pipe = k)
  <2>1. \A k : Ran(k) <=> \E i \in 1..n : /\ deployments'[i].env = "production"
                                     /\ deployments'[i].pipe = k /\ TookPlace(deployments'[i])
    BY FinishGrows DEF Grows
  <2>2. LET row == deployments'[n + 1] IN
        row.env = t.env /\ row.pipe = t.pipe /\ (TookPlace(row) <=> ok)
    BY FinishRows
  <2>3. \A i \in 1..(n + 1) : i \in 1..n \/ i = n + 1
    BY <1>1
  <2>4. n + 1 \in 1..(n + 1) /\ \A i \in 1..n : i \in 1..(n + 1)
    BY <1>1
  <2> QED
    BY <2>1, <2>2, <2>3, <2>4
<1>4. \A k \in 1..Len(pipes) : /\ pipes[k].status = "passed" => Ran(k)
                               /\ pipes[k].status = "awaiting_production" => ~Ran(k)
  BY <1>1 DEF PipelineTellsProduction
<1>5. PipesAre(t, ok)
  BY FinishPipes
<1>6. t.op = "production" => t.env = "production"
  BY FinishPipes
<1>7. t.op = "rollback" => t.pipe = 0
  BY FinishPipes
<1>8. t.op = "pipeline" => t.env = "staging"
  BY FinishCounts
<1>9. t.op \in {"pipeline", "production", "rollback"}
  BY FinishCounts
<1> HIDE DEF Ran, RanNow, t
<1>10. \A k \in 1..Len(pipes) : /\ pipes'[k].status = "passed" => RanNow(k)
                                /\ pipes'[k].status = "awaiting_production" => ~RanNow(k)
  <2> SUFFICES ASSUME NEW k \in 1..Len(pipes)
               PROVE  /\ pipes'[k].status = "passed" => RanNow(k)
                      /\ pipes'[k].status = "awaiting_production" => ~RanNow(k)
    OBVIOUS
  <2>1. CASE t.op = "production" /\ k = t.pipe
    BY <1>3, <1>5, <1>6, <2>1 DEF PipesAre
  <2>2. CASE ~(t.op = "production" /\ k = t.pipe)
    <3>1. pipes'[k].status = pipes[k].status
      BY <1>5, <2>2 DEF PipesAre
    <3>2. RanNow(k) <=> Ran(k)
      <4>1. ~(t.env = "production" /\ t.pipe = k)
        BY <1>1, <1>7, <1>8, <1>9, <2>2
      <4> QED
        BY <1>3, <4>1
    <3> QED
      BY <1>4, <3>1, <3>2
  <2> QED
    BY <2>1, <2>2
<1>11. \A k \in 1..Len(pipes') : k \notin 1..Len(pipes) =>
         pipes'[k].status # "passed" /\ ~RanNow(k)
  <2> SUFFICES ASSUME NEW k \in 1..Len(pipes'), k \notin 1..Len(pipes)
               PROVE  pipes'[k].status # "passed" /\ ~RanNow(k)
    OBVIOUS
  <2>1. t.op = "pipeline" /\ k = Len(pipes) + 1
    BY FinishCounts DEF t
  <2>2. pipes'[k] = [status |-> IF ok THEN "awaiting_production" ELSE "failed",
                     release |-> t.release]
    BY <2>1, FinishPipes DEF t
  <2>3. ~Ran(k)
    <3>1. \A i \in 1..n : deployments[i].pipe \in 0..Len(pipes)
      BY RowsHaveTypes
    <3> QED
      BY <1>1, <3>1, <2>1 DEF Ran
  <2>4. ~RanNow(k)
    BY <1>3, <1>8, <2>1, <2>3
  <2> QED
    BY <2>2, <2>4
<1>12. \A k \in DOMAIN pipes' : /\ pipes'[k].status = "passed" => RanNow(k)
                                /\ pipes'[k].status = "awaiting_production" => ~RanNow(k)
  BY <1>2, <1>10, <1>11
<1> QED
  BY <1>1, <1>12 DEF PipelineTellsProduction, TookPlace, RanNow

LEMMA FinishKeepsServed ==
  ASSUME TypeOK, Links, EnvironmentStaysServed, NEW p \in Procs, NEW ok \in BOOLEAN, Finish(p, ok)
  PROVE  EnvironmentStaysServed'
<1> DEFINE t == tx[p]
           n == Len(deployments)
<1>1. n \in Nat /\ DOMAIN deployments = 1..n /\ DOMAIN deployments' = 1..(n + 1)
  BY FinishRows
<1>2. /\ deployments'[n + 1].env = t.env /\ deployments'[n + 1].status = Outcome(ok)
      /\ TookPlace(deployments'[n + 1]) <=> ok
  BY FinishRows
<1>3. \A i \in 1..n : /\ deployments'[i].env = deployments[i].env
                      /\ TookPlace(deployments'[i]) <=> TookPlace(deployments[i])
  BY FinishGrows DEF Grows
<1>4. \A i \in 1..n : deployments'[i].status = IF t.op = "rollback" /\ i = t.current
                                                 THEN "rolled_back" ELSE deployments[i].status
  BY FinishShape
<1>5. rollbacks \subseteq rollbacks'
  BY DEF Finish
<1> SUFFICES ASSUME NEW e \in Envs, NEW i \in DOMAIN deployments',
                    deployments'[i].env = e, TookPlace(deployments'[i])
             PROVE  \/ \E k \in DOMAIN deployments' : /\ deployments'[k].env = e
                                                      /\ deployments'[k].status = "deployed"
                    \/ \E h \in rollbacks' : h.env = e /\ ~h.completed
  BY DEF EnvironmentStaysServed, Deployed, TookPlace
<1>6. CASE ok /\ t.env = e
  BY <1>1, <1>2, <1>6 DEF Outcome
<1>7. CASE ~ok /\ t.env = e /\ t.op = "rollback"
  <2> DEFINE h == [env |-> t.env, from |-> t.current, to |-> t.release, completed |-> ok]
  <2>1. h \in rollbacks'
    BY <1>7 DEF Finish
  <2>2. h.env = e /\ ~h.completed
    BY <1>7
  <2> QED
    BY <2>1, <2>2
<1>8. CASE ~(ok /\ t.env = e) /\ ~(~ok /\ t.env = e /\ t.op = "rollback")
  <2>1. i \in 1..n /\ deployments[i].env = e /\ TookPlace(deployments[i])
    <3>1. i \in 1..n
      BY <1>1, <1>2, <1>8
    <3> QED
      BY <1>3, <3>1
  <2>2. Deployed(e) # {} \/ \E h \in rollbacks : h.env = e /\ ~h.completed
    BY <1>1, <2>1 DEF EnvironmentStaysServed
  <2>3. CASE \E h \in rollbacks : h.env = e /\ ~h.completed
    BY <1>5, <2>3
  <2>4. CASE Deployed(e) # {}
    <3>1. PICK k \in 1..n : deployments[k].env = e /\ deployments[k].status = "deployed"
      BY <1>1, <2>4 DEF Deployed
    <3>2. ~(t.op = "rollback" /\ k = t.current)
      <4>1. ASSUME t.op = "rollback", k = t.current PROVE t.env = e
        BY <1>1, <3>1, <4>1 DEF Links, RollbackLink, NoRow
      <4> QED
        BY <1>8, <4>1
    <3>3. deployments'[k].env = e /\ deployments'[k].status = "deployed"
      BY <1>3, <1>4, <3>1, <3>2
    <3> QED
      BY <1>1, <3>3
  <2> QED
    BY <2>2, <2>3, <2>4
<1> QED
  BY <1>6, <1>7, <1>8

LEMMA NextKeepsSafe == TypeOK /\ Links /\ Safe /\ [Next]_vars => Safe'
<1> SUFFICES ASSUME TypeOK, Links, Safe, [Next]_vars PROVE Safe'
  OBVIOUS
<1>1. ASSUME NEW p \in Procs, NEW ok \in BOOLEAN, Finish(p, ok) PROVE Safe'
  BY <1>1, FinishKeepsReleased, FinishKeepsStaged, FinishKeepsTold, FinishKeepsServed
     DEF Safe, PipelineTellsDeployments
<1>2. CASE ~ \E p \in Procs : \E ok \in BOOLEAN : Finish(p, ok)
  <2>1. UNCHANGED <<releases, deployments, rollbacks>>
        /\ (pipes' = pipes \/ \E p \in Procs : StopPipeline(p))
    BY <1>2 DEF Next, vars, StartPipeline, StopPipeline, PipelineConflict, StartProduction,
                StartRollback, Begin, Extract, Crash, Procs
  <2> QED
    BY <2>1, QuietKeepsSafe
<1> QED
  BY <1>1, <1>2

-----------------------------------------------------------------------------
(* The directories *)

LEMMA FinishKeepsDisk ==
  ASSUME TypeOK, Links, DiskInv, NEW p \in Procs, NEW ok \in BOOLEAN, Finish(p, ok)
  PROVE  DiskInv'
<1> DEFINE t == tx[p]
           n == Len(deployments)
           alone == \A q \in Extracting \ {p} : <<tx[q].env, tx[q].release>> # <<t.env, t.release>>
<1>1. n \in Nat /\ DOMAIN deployments = 1..n /\ DOMAIN deployments' = 1..(n + 1)
  BY FinishRows
<1>2. /\ deployments'[n + 1].env = t.env /\ deployments'[n + 1].release = t.release
      /\ deployments'[n + 1].status = Outcome(ok)
  BY FinishRows
<1>3. \A i \in 1..n : /\ deployments'[i].env = deployments[i].env
                      /\ deployments'[i].release = deployments[i].release
  BY FinishGrows DEF Grows
<1>4. \A i \in 1..n : deployments'[i].status = IF t.op = "rollback" /\ i = t.current
                                                 THEN "rolled_back" ELSE deployments[i].status
  BY FinishShape
<1>5. /\ disk' = IF ok /\ alone THEN [disk EXCEPT ![t.env][t.release] = "whole"] ELSE disk
      /\ redeployed' = redeployed /\ tx' = [tx EXCEPT ![p] = Idle]
      /\ t.extracting \/ ~ok
  BY DEF Finish
<1>6. t.env \in Envs /\ t.release \in Versions /\ t # Idle /\ t.op # "idle"
  BY Kinds DEF TypeOK, Finish, MayGoOn
<1>7. disk \in [Envs -> [Versions -> {"none", "partial", "whole"}]] /\ tx \in [Procs -> Transactions]
  BY DEF TypeOK
<1>8. \A e \in Envs, v \in Versions : disk[e][v] = "whole" => disk'[e][v] = "whole"
  BY <1>5, <1>6, <1>7
<1>9. \A q \in Extracting' : q \in Extracting \ {p} /\ tx'[q] = tx[q]
  BY <1>5, <1>7 DEF Extracting, Idle
<1>10. DeployedIsOnDisk'
  <2> SUFFICES ASSUME NEW e \in Envs, NEW i \in 1..(n + 1), deployments'[i].env = e,
                      deployments'[i].status = "deployed"
               PROVE  \/ disk'[e][deployments'[i].release] = "whole"
                      \/ <<e, deployments'[i].release>> \in redeployed'
    BY <1>1 DEF DeployedIsOnDisk, Deployed
  <2>1. CASE i \in 1..n
    <3>1. i \in Deployed(e) /\ deployments'[i].release = deployments[i].release
      BY <1>1, <1>3, <1>4, <2>1 DEF Deployed
    <3>2. \/ disk[e][deployments[i].release] = "whole"
          \/ <<e, deployments[i].release>> \in redeployed
      BY <3>1 DEF DiskInv, DeployedIsOnDisk
    <3>3. deployments[i].release \in Versions
      <4>1. deployments[i].release \in 1..Len(releases) /\ Len(releases) \in Nat
        BY <2>1, RowsHaveTypes
      <4>2. Len(releases) <= MaxPipelines /\ MaxPipelines \in Nat
        BY RowsHaveTypes, BoundsAssumption DEF Links
      <4> QED
        BY <4>1, <4>2 DEF Versions
    <3> QED
      BY <1>5, <1>8, <3>1, <3>2, <3>3
  <2>2. CASE i \notin 1..n
    <3>1. i = n + 1 /\ t.env = e /\ ok /\ deployments'[i].release = t.release
      BY <1>1, <1>2, <2>2 DEF Outcome
    <3>2. CASE alone
      BY <1>5, <1>6, <1>7, <3>1, <3>2
    <3>3. CASE ~alone
      <4>1. PICK q \in Extracting \ {p} : tx[q].env = t.env /\ tx[q].release = t.release
        BY <3>3
      <4>2. p \in Extracting
        BY <1>5, <1>6, <3>1 DEF Extracting
      <4>3. <<t.env, t.release>> \in redeployed
        BY <4>1, <4>2 DEF DiskInv
      <4> QED
        BY <1>5, <3>1, <4>3
    <3> QED
      BY <3>2, <3>3
  <2> QED
    BY <2>1, <2>2
<1>11. \A r, q \in Extracting' :
         r # q /\ tx'[r].env = tx'[q].env /\ tx'[r].release = tx'[q].release =>
           <<tx'[r].env, tx'[r].release>> \in redeployed'
  BY <1>5, <1>9 DEF DiskInv
<1> QED
  BY <1>10, <1>11 DEF DiskInv

LEMMA ExtractKeepsDisk ==
  ASSUME TypeOK, Links, DiskInv, NEW p \in Procs, Extract(p)
  PROVE  DiskInv'
<1> DEFINE t == tx[p]
           here == \/ \E i \in Deployed(t.env) : deployments[i].release = t.release
                   \/ \E q \in Extracting : tx[q].env = t.env /\ tx[q].release = t.release
<1>1. /\ t \in [op : {"pipeline", "production", "rollback"}, pipe : Nat, release : Versions,
                env : Envs, current : Nat, stamp : Nat, extracting : BOOLEAN]
      /\ t.env \in Envs /\ t.release \in Versions
  BY DEF TypeOK, Transactions, Extract, MayGoOn
<1>2. /\ UNCHANGED <<deployments>> /\ tx' = [tx EXCEPT ![p].extracting = TRUE]
      /\ disk' = [disk EXCEPT ![t.env][t.release] = "partial"]
      /\ redeployed' = IF here THEN redeployed \union {<<t.env, t.release>>} ELSE redeployed
  BY DEF Extract
<1>3. disk \in [Envs -> [Versions -> {"none", "partial", "whole"}]] /\ tx \in [Procs -> Transactions]
  BY DEF TypeOK
<1>4. /\ tx'[p].env = t.env /\ tx'[p].release = t.release
      /\ \A q \in Procs : q # p => tx'[q] = tx[q]
  BY <1>1, <1>2, <1>3
<1>5. \A q \in Extracting' : q \in Procs /\ (q # p => q \in Extracting)
  BY <1>4 DEF Extracting
<1>6. DeployedIsOnDisk'
  <2> SUFFICES ASSUME NEW e \in Envs, NEW i \in Deployed(e)
               PROVE  \/ disk'[e][deployments[i].release] = "whole"
                      \/ <<e, deployments[i].release>> \in redeployed'
    BY <1>2 DEF DeployedIsOnDisk, Deployed
  <2> DEFINE r == deployments[i].release
  <2>1. r \in Versions
    <3>1. r \in 1..Len(releases) /\ Len(releases) \in Nat
      BY RowsHaveTypes DEF Deployed
    <3>2. Len(releases) <= MaxPipelines /\ MaxPipelines \in Nat
      BY RowsHaveTypes, BoundsAssumption DEF Links
    <3> QED
      BY <3>1, <3>2 DEF Versions
  <2>2. disk[e][r] = "whole" \/ <<e, r>> \in redeployed
    BY DEF DiskInv, DeployedIsOnDisk
  <2>3. CASE e = t.env /\ r = t.release
    <3>1. here
      BY <2>3
    <3> QED
      BY <1>2, <2>3, <3>1
  <2>4. CASE ~(e = t.env /\ r = t.release)
    <3>1. disk'[e][r] = disk[e][r]
      BY <1>1, <1>2, <1>3, <2>1, <2>4
    <3>2. redeployed \subseteq redeployed'
      BY <1>2
    <3> QED
      BY <2>2, <3>1, <3>2
  <2> QED
    BY <2>3, <2>4
<1>7. \A a, b \in Extracting' :
         a # b /\ tx'[a].env = tx'[b].env /\ tx'[a].release = tx'[b].release =>
           <<tx'[a].env, tx'[a].release>> \in redeployed'
  <2> SUFFICES ASSUME NEW a \in Extracting', NEW b \in Extracting', a # b,
                      tx'[a].env = tx'[b].env, tx'[a].release = tx'[b].release
               PROVE  <<tx'[a].env, tx'[a].release>> \in redeployed'
    OBVIOUS
  <2>1. CASE a # p /\ b # p
    <3>1. a \in Extracting /\ b \in Extracting /\ tx'[a] = tx[a] /\ tx'[b] = tx[b]
      BY <1>4, <1>5, <2>1
    <3>2. <<tx[a].env, tx[a].release>> \in redeployed
      BY <3>1 DEF DiskInv
    <3> QED
      BY <1>2, <3>1, <3>2
  <2>2. CASE a = p \/ b = p
    <3>1. PICK q \in Extracting : tx[q].env = t.env /\ tx[q].release = t.release
      BY <1>4, <1>5, <2>2
    <3>2. here
      BY <3>1
    <3> QED
      BY <1>2, <1>4, <2>2, <3>2
  <2> QED
    BY <2>1, <2>2
<1> QED
  BY <1>6, <1>7 DEF DiskInv

LEMMA NextKeepsDisk == TypeOK /\ Links /\ DiskInv /\ [Next]_vars => DiskInv'
<1> SUFFICES ASSUME TypeOK, Links, DiskInv, [Next]_vars PROVE DiskInv'
  OBVIOUS
<1>1. ASSUME NEW p \in Procs, NEW ok \in BOOLEAN, Finish(p, ok) PROVE DiskInv'
  BY <1>1, FinishKeepsDisk
<1>2. ASSUME NEW p \in Procs, Extract(p) PROVE DiskInv'
  BY <1>2, ExtractKeepsDisk
<1>3. CASE ~ \E p \in Procs : Extract(p) \/ \E ok \in BOOLEAN : Finish(p, ok)
  <2>1. UNCHANGED <<deployments, disk, redeployed>>
    BY <1>3 DEF Next, vars, StartPipeline, StopPipeline, PipelineConflict, StartProduction,
                StartRollback, Begin, Crash
  <2>2. \A q \in Procs : tx'[q] = tx[q] \/ tx'[q] = Idle \/ tx'[q].extracting = FALSE
    BY <1>3 DEF Next, vars, StartPipeline, StopPipeline, PipelineConflict, StartProduction,
                StartRollback, Begin, Crash, TypeOK, Procs
  <2>3. \A q \in Extracting' : q \in Extracting /\ tx'[q] = tx[q]
    BY <2>2 DEF Extracting, Idle
  <2>4. DeployedIsOnDisk'
    BY <2>1 DEF DiskInv, DeployedIsOnDisk, Deployed
  <2>5. \A a, b \in Extracting' :
         a # b /\ tx'[a].env = tx'[b].env /\ tx'[a].release = tx'[b].release =>
           <<tx'[a].env, tx'[a].release>> \in redeployed'
    BY <2>1, <2>3 DEF DiskInv
  <2> QED
    BY <2>4, <2>5 DEF DiskInv
<1> QED
  BY <1>1, <1>2, <1>3

-----------------------------------------------------------------------------
(* The theorems *)

LEMMA InitSafe == Init => Safe /\ DiskInv
<1> SUFFICES ASSUME Init PROVE Safe /\ DiskInv
  OBVIOUS
<1>1. DOMAIN deployments = {} /\ DOMAIN pipes = {} /\ DOMAIN releases = {}
  BY DEF Init
<1>2. Safe
  BY <1>1 DEF Safe, ReleasedRanInProduction, PipelineTellsDeployments, ShippedWasStaged,
              PipelineTellsProduction, EnvironmentStaysServed
<1>3. Extracting = {} /\ \A e \in Envs : Deployed(e) = {}
  BY <1>1 DEF Init, Extracting, Deployed, Idle
<1>4. DiskInv
  BY <1>3 DEF DiskInv, DeployedIsOnDisk
<1> QED
  BY <1>2, <1>4

LEMMA Invariants == Spec => [](TypeOK /\ Links /\ Safe /\ DiskInv)
<1>1. Init => TypeOK /\ Links /\ Safe /\ DiskInv
  BY InitTypes, InitSafe
<1>2. TypeOK /\ Links /\ Safe /\ DiskInv /\ [Next]_vars => (TypeOK /\ Links /\ Safe /\ DiskInv)'
  BY NextKeepsTypes, NextKeepsSafe, NextKeepsDisk
<1> QED
  BY <1>1, <1>2, PTL DEF Spec

\* Every variable has its type, and rows refer to rows that are there.
THEOREM TypeCorrect == Spec => []TypeOK
<1> QED
  BY Invariants, PTL

\* A pipeline tells what it deployed, to staging first and to production
\* (PipelineService.run, deploy_production).
THEOREM PipelinesTell == Spec => []PipelineTellsDeployments
<1>1. Safe => PipelineTellsDeployments
  BY DEF Safe
<1> QED
  BY <1>1, Invariants, PTL

\* Released means that it has been in production (deploy).
THEOREM ReleasesRan == Spec => []ReleasedRanInProduction
<1>1. Safe => ReleasedRanInProduction
  BY DEF Safe
<1> QED
  BY <1>1, Invariants, PTL

\* No rollback that succeeds leaves an environment without a deployment (rollback).
THEOREM EnvironmentsAreServed == Spec => []EnvironmentStaysServed
<1>1. Safe => EnvironmentStaysServed
  BY DEF Safe
<1> QED
  BY <1>1, Invariants, PTL

\* What is called deployed is on disk (extract_artifact, verify_deployment).
THEOREM DeploymentsAreOnDisk == Spec => []DeployedIsOnDisk
<1>1. DiskInv => DeployedIsOnDisk
  BY DEF DiskInv
<1> QED
  BY <1>1, Invariants, PTL
=============================================================================
