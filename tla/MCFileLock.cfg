SPECIFICATION Spec
CONSTANTS
    Procs = {p1, p2, p3}
    None = None
    Junk = Junk
    OldJunk = OldJunk
    Attempts = 2
    Clears = 2
    MaxMishaps = 1
    Admitted <- MCNothing
INVARIANTS OneOwner OwnerIsNamed OneTaker ReservedWhileUsed
PROPERTY LeftoversDoNotBlock
