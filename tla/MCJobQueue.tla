----------------------------- MODULE MCJobQueue -----------------------------
(* Instances of JobQueue for TLC. *)
EXTENDS JobQueue, TLC

\* Job 2 is created later than job 1 but goes first.
MCPriority == [j \in Jobs |-> IF j = 2 THEN 1 ELSE 0]

\* No keys, or the first two jobs competing for one.
MCNoKeys == [j \in Jobs |-> NoKey]
MCSharedKey == [j \in Jobs |-> IF j <= 2 THEN "dev-workflow" ELSE NoKey]

Actors == Permutations(Workers) \union Permutations(Clients)
=============================================================================
