CONSTANTS
    t1 = t1
    t2 = t2
    p1 = p1
    Anonymous = {}
    Tasks = {t1, t2}
    Paths = {p1}
    Overlap = FALSE
    MaxEdits = 3
    Exposed = {p1}
    MaxVerify = 1
    MaxFaults = 1
SPECIFICATION Spec
INVARIANTS AnchorsFresh NothingSince
SYMMETRY Symmetry
CHECK_DEADLOCK FALSE
