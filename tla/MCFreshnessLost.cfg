\* One call, one move of HEAD, a stored commit that is gone.
CONSTANTS
    f1 = f1
    f2 = f2
    one = one
    two = two
    three = three
    Files = {f1, f2}
    Commits = {one, two, three}
    Contents = {1, 2, 3}
    Tree <- MCTree
    First = one
    Absent = Absent
    NoCommit = NoCommit
    Unread = Unread
    Calls = {c1}
    MaxDiff = 1
    MaxMoves = 1
    MaxMishaps = 1

SPECIFICATION Spec

PROPERTY LostCommitIsReindexed
CHECK_DEADLOCK FALSE
