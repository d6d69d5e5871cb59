------------------------------ MODULE MCJobFiles ------------------------------
(* JobFiles with interchangeable finalizers and requests. *)
EXTENDS JobFiles, TLC
CONSTANTS u1, u2, r1, r2, f1, f2
MCUploads == {u1, u2}
MCForms == {[a |-> Staged(u1), b |-> Staged(u2)], [a |-> Staged(u2), b |-> Staged(u2)], [a |-> Url, b |-> Staged(u1)]}
MCRequests == {r1, r2}
MCFinalizers == {f1, f2}
Symmetry == Permutations(MCRequests) \cup Permutations(MCFinalizers)
=============================================================================
