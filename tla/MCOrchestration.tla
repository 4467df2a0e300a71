--------------------------- MODULE MCOrchestration ---------------------------
(* Instances of Orchestration for TLC. *)
EXTENDS Orchestration, TLC

TwoProviders == <<"paid", "mock">>
FreeOnes == {"mock"}
Limits == [k \in Kinds |-> IF k = "day" THEN 0 ELSE 1]
=============================================================================
