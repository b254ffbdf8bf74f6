SPECIFICATION Spec
CONSTANTS
  Ids = {i1, i2}
  Models = {m1, m2}
  Procs = {p1, p2}
  Residents = {}
  ResidentModel <- NoResident
  None = None
  MaxEdits = 2
  MaxMishaps = 2
PROPERTIES SavedIsFresh PaidOnce
SYMMETRY Symmetric
