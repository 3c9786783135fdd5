CONSTANTS
    p1 = p1
    t1 = t1
    t2 = t2
    a1 = a1
    f1 = f1
    f2 = f2
    stop = stop
    r1 = r1
    janitor = janitor
    Ops <- MCOps
    Agents = {a1}
    TxnOps <- MCTxnOps
    Callers = {f1, f2}
    Stopper = stop
    Readers = {r1}
    Janitor = janitor
    MaxRetries = 1
    SyncDriver = FALSE
    Budget <- Calm
SPECIFICATION Spec
INVARIANTS TypeOK AtMostOneFlush NoSilentLoss ExactlyOnce StopDrains ReadYourWrites
PROPERTIES ImplementsWriteBehind
