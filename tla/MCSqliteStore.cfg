SPECIFICATION FairSpec
CONSTANTS
  d1 = d1
  d2 = d2
  o1 = o1
  Daemon = Daemon
  Other = Other
  Files = {f1, f2}
  Tasks = {d1, d2, o1}
  Procs = {Daemon, Other}
  ProcOf <- MCProcOf
  Absent = Absent
  Keep = Keep
  Carried = Carried
  Legacy = Legacy
  None = None
  MaxCalls = 2
  MaxMishaps = 1
INVARIANTS LoadIsOneRevision
PROPERTIES WritesAreSerial EveryCallReturns
CHECK_DEADLOCK FALSE
