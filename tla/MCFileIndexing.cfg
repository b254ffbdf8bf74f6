SPECIFICATION Spec
SYMMETRY MCCallSymmetry
CONSTANTS
    Calls = {c1, c2}
    MaxEdits = 4
    Absent = Absent
    Admitted <- MCNothing
INVARIANTS RowIsNotAhead MemVouchesForRow
PROPERTY AloneCallIndexes
