----------------------------- MODULE MCJobQueue -----------------------------
(* Up to two jobs and two calls of process(). *)
EXTENDS JobQueue

CONSTANTS j1, j2, w1, w2

Symmetry == Permutations(Jobs)
=============================================================================
