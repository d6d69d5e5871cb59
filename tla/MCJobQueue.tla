------------------------------ MODULE MCJobQueue ------------------------------
(* JobQueue on small instances. *)
EXTENDS JobQueueInv, TLC

\* Pool threads run the same code on the same tables, and so do GET handlers.
Symmetry == Permutations(Workers) \cup Permutations(Readers)

=============================================================================
