SPECIFICATION SpiderSpec
CONSTANTS
    a = a
    ai = ai
    b = b
    s = s
    x = x
    a1 = a1
    a2 = a2
    i1 = i1
    b1 = b1
    b2 = b2
    NoFile = NoFile
    Files <- MCFiles
    Symbols = {x}
    Specs = {s}
    Candidates <- MCCandidates
    Starts <- MCStarts
    TextsOf <- MCTextsOf
    Imports <- MCImports
    Exports <- MCExports
    Line <- MCLine
    Booters = {p}
    MaxEdits = 1
    MaxChanges = 2
    MaxRestarts = 1
INVARIANTS ReportExact NeighborsKnown GhostsExact
CHECK_DEADLOCK FALSE
