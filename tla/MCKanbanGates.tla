--------------------------- MODULE MCKanbanGates ---------------------------
(* Two workers whose scopes one environment links; the first changes code. *)
EXTENDS KanbanGates

MCBudgets ==
  {[tool |-> 2, road |-> 0, patch |-> 1, crash |-> 0],
   [tool |-> 1, road |-> 0, patch |-> 2, crash |-> 1],
   [tool |-> 0, road |-> 1, patch |-> 0, crash |-> 1]}
=============================================================================
