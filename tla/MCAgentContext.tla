--------------------------- MODULE MCAgentContext ---------------------------
(* One budget for the lifecycle, one for the scratchpad, the others for the *)
(* memory of two processes that share a workspace.                          *)
EXTENDS AgentContext

Of(up, spent) == [k \in Kinds \cup {"up"} |->
                    IF k = "up" THEN up ELSE IF k \in DOMAIN spent THEN spent[k] ELSE 0]

MCBudgets ==
  {Of(FALSE, [start |-> 2, stop |-> 2, fail |-> 1, crash |-> 1]),
   Of(TRUE, [scratch |-> 3, clear |-> 1, crash |-> 1]),
   Of(TRUE, [add |-> 2, gc |-> 1, expire |-> 1, read |-> 1]),
   Of(TRUE, [add |-> 2, gc |-> 1, delete |-> 1, crash |-> 1]),
   Of(TRUE, [add |-> 1, gc |-> 1, stop |-> 1, scratch |-> 1])}
=============================================================================
