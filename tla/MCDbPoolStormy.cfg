CONSTANTS
    p1 = p1
    t1 = t1
    t2 = t2
    a1 = a1
    f1 = f1
    f2 = f2
    stop = stop
    r1 = r1
    janitor = janitor
    Ops <- MCTxn
    Agents = {a1}
    TxnOps <- MCTxnOps
    Callers = {f1}
    Stopper = stop
    Readers = {}
    Janitor = janitor
    MaxRetries = 1
    SyncDriver = FALSE
    Budget <- Stormy
SPECIFICATION FairSpec
INVARIANTS TxnAtomic
PROPERTIES EventuallyFlushed StopEnds
