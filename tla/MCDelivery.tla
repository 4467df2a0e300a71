----------------------------- MODULE MCDelivery -----------------------------
(* Instances of Delivery for TLC. *)
EXTENDS Delivery, TLC

Actors == Permutations(Founders) \union Permutations(Builders)
=============================================================================
