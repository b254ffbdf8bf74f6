SPECIFICATION Spec
CONSTANTS
    Requests = {q1, q2}
    A = A
    B = B
    ka1 = ka1
    ka2 = ka2
    kb = kb
    e1 = e1
    Roots <- MCRoots
    Keys <- MCKeys
    RootOf <- MCRootOf
    EditRoot <- MCEditRoot
    Edits = {e1}
    Watches = {FALSE, TRUE}
    Loaded = {}
    Cap = 1
    MaxRuns = 2
INVARIANTS TypeOK SlotsHeld
PROPERTIES CapRespected EarlyWatchHonoured NoPassDuringChild RequestAnswered EditPasses
CHECK_DEADLOCK FALSE
