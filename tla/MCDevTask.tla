----------------------------- MODULE MCDevTask ------------------------------
(* Instances of DevTask for TLC. *)
EXTENDS DevTask, TLC

Symmetric == Permutations(Clients)
=============================================================================
