---------------------------- MODULE MCKnowledge -----------------------------
(* Instances of Knowledge for TLC. *)
EXTENDS Knowledge

CONSTANT a   \* a text

\* A document of the seed that is approved and has been viewed; those that are
\* created begin as drafts.
MCSeeds == {[text |-> a, status |-> "approved", views |-> 3]}
=============================================================================
