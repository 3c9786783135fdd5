---------------------------- MODULE MCCoherence ----------------------------
(* Instances of Coherence for TLC. *)
EXTENDS Coherence, TLC
CONSTANTS t1, t2, p1
Symmetry == Permutations({t1, t2})
=============================================================================
