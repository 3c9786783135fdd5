---------------------------- MODULE MCRepository ----------------------------
(* Two callers and two agents, a protected branch and an ephemeral one. *)
EXTENDS Repository, TLC

CONSTANTS p1, p2, main, dev, a1, a2

AllKinds == CommitKinds \cup Unlocked \cup {"file"}
Symmetry == Permutations({p1, p2}) \cup Permutations({a1, a2})
=============================================================================
