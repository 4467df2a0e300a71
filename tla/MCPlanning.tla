----------------------------- MODULE MCPlanning -----------------------------
(* Instances of Planning for TLC. *)
EXTENDS Planning, TLC

Symmetry == Permutations(Requests)
=============================================================================
