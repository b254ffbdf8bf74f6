SPECIFICATION Spec
CONSTANTS
  Callers = {c1, c2}
  Limit = 1
  Writers = {w1}
  MaxVersion = 3
INVARIANTS
  TypeOK
  CleanResidentIsCurrent
  StoredMatchesRows
  CleanAnswerReadsWrites
  SlotsAccounted
PROPERTIES
  ParkedIsServed
CHECK_DEADLOCK FALSE
