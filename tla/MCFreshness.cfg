\* Two calls over three commits; HEAD moves twice, to any commit.
CONSTANTS
    f1 = f1
    f2 = f2
    one = one
    two = two
    three = three
    Files = {f1, f2}
    Commits = {one, two, three}
    Contents = {1, 2, 3}
    Tree <- MCTree
    First = one
    Absent = Absent
    NoCommit = NoCommit
    Unread = Unread
    Calls = {c1, c2}
    MaxDiff = 1
    MaxMoves = 2
    MaxMishaps = 1

SPECIFICATION Spec
SYMMETRY MCCallSymmetry

INVARIANTS TypeOK FreshMeansIndexed
CHECK_DEADLOCK FALSE
