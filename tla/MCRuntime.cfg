SPECIFICATION Spec
CONSTANTS
    s1 = s1
    s2 = s2
    fa = fa
    fb = fb
    Sessions = {s1, s2}
    Files = {fa, fb}
    Plans = {"one", "two"}
    SessionOf <- MCSessionOf
    FilesOf <- MCFilesOf
    Priority <- MCPriority
    Risky = {"one"}
    Unwritable = {fb}
    Unsafe = {"one"}
    Policies = {"human_approval_required"}
    MaxFiles <- MCMaxFiles
    MaxVerifyFailures = 1
    MaxRollbacks = 1
    MaxExecutes = 3
    MaxCalls = 2
CHECK_DEADLOCK FALSE
INVARIANTS
    SerialMutations
    NoHalfEdits
    RolledBackIsGone
    CompletedStays
