CONSTANTS
    k1 = k1
    k2 = k2
    Keys = {k1, k2}
    Vals <- MCVals
    Writes <- MCWrites
    Orderly = TRUE
    MaxPushes = 4
    MaxBusy = 1
SPECIFICATION BatchSpec
INVARIANTS FlushKeepsOrder ReadById
CHECK_DEADLOCK FALSE
