---------------------------- MODULE WriteBehind ----------------------------
(***************************************************************************)
(* What a write-behind buffer promises.  Writes are handed over in units   *)
(* (one plain write, or all the writes of a transaction).  Units collect   *)
(* until a batch is sealed: the batch is everything handed over so far.    *)
(* There is one sealed batch at a time and it ends as a whole, durable or  *)
(* reported as failed, so batches end in the order of their writes.  The   *)
(* process may be lost with what is not durable yet; a closed buffer has   *)
(* nothing left.                                                           *)
(***************************************************************************)
EXTENDS FiniteSets

CONSTANT Ops

VARIABLES
    phase,      \* "open", "closed", or "lost" when the process has ended
    unsealed,   \* the units handed over since the last batch was sealed
    sealed,     \* the units of the batch on its way to the disk
    durable,    \* the writes on disk
    reported    \* the writes reported as failed

wbVars == <<phase, unsealed, sealed, durable, reported>>

Known == (UNION (unsealed \cup sealed)) \cup durable \cup reported

Init ==
    /\ phase = "open"
    /\ unsealed = {} /\ sealed = {}
    /\ durable = {} /\ reported = {}

Accept(unit) ==
    /\ phase = "open"
    /\ unit # {} /\ unit \cap Known = {}
    /\ unsealed' = unsealed \cup {unit}
    /\ UNCHANGED <<phase, sealed, durable, reported>>

Seal ==
    /\ sealed = {} /\ unsealed # {}
    /\ sealed' = unsealed /\ unsealed' = {}
    /\ UNCHANGED <<phase, durable, reported>>

Persist ==
    /\ sealed # {} /\ sealed' = {}
    /\ durable' = durable \cup UNION sealed
    /\ UNCHANGED <<phase, unsealed, reported>>

Report ==
    /\ sealed # {} /\ sealed' = {}
    /\ reported' = reported \cup UNION sealed
    /\ UNCHANGED <<phase, unsealed, durable>>

Close ==
    /\ phase = "open" /\ phase' = "closed"
    /\ unsealed = {} /\ sealed = {}
    /\ UNCHANGED <<unsealed, sealed, durable, reported>>

Lose ==
    /\ phase # "lost" /\ phase' = "lost"
    /\ unsealed' = {} /\ sealed' = {}
    /\ UNCHANGED <<durable, reported>>

Next ==
    \/ \E unit \in SUBSET Ops : Accept(unit)
    \/ Seal \/ Persist \/ Report \/ Close \/ Lose

Spec == Init /\ [][Next]_wbVars
=============================================================================
