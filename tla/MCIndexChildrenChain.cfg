SPECIFICATION Spec
SYMMETRY MCRequestSymmetry
CONSTANTS
    Requests = {q1, q2, q3}
    A = A
    B = B
    ka1 = ka1
    ka2 = ka2
    kb = kb
    e1 = e1
    Roots <- MCRoots
    Keys <- MCKeys
    RootOf <- MCRootOf
    EditRoot <- MCNoEditRoot
    Edits = {}
    Watches = {FALSE}
    Loaded = {A}
    Cap = 2
    MaxRuns = 3
INVARIANTS OneWriterPerRoot AliveIsTracked StaleOnlyUntilAdopted
CHECK_DEADLOCK FALSE
