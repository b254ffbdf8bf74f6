SPECIFICATION Spec
CONSTANTS
  Callers = {c1, c2}
  Runs = {r1, r2}
  Searches = {s1, s2}
  Audits = {a1}
  Index = Index
  None = None
  CacheMax = 1
  MemoMax = 1
  MaxVersion = 2
  MaxMishaps = 1
INVARIANTS TypeOK FreshAnswers
PROPERTIES NoJoinAfterTimeout
SYMMETRY Symmetric
