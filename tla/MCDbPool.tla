------------------------------ MODULE MCDbPool ------------------------------
(* Instances of DbPool for TLC: one plain write, one transaction of two.    *)
EXTENDS DbPoolRefinement, TLC
CONSTANTS p1, t1, t2, a1, f1, f2, stop, r1, janitor

MCOps == {p1, t1, t2}
MCTxn == {t1, t2}
MCTxnOps == [a \in Agents |-> {t1, t2}]

NoEvents == [e \in EnvEvents |-> 0]
(* Failures that leave the pool's promises intact.                          *)
Calm == [NoEvents EXCEPT !["fatal"] = 1, !["kill"] = 1, !["readtimeout"] = 1]
(* BUSY, mutex timeouts, expired shadows and a start that fails as well.    *)
Stormy == [NoEvents EXCEPT !["busy"] = 1, !["fatal"] = 1, !["timeout"] = 1, !["expiry"] = 1,
                           !["call"] = 1, !["startfail"] = 1]
OneBusy == [NoEvents EXCEPT !["busy"] = 1]
=============================================================================
