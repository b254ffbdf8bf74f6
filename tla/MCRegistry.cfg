SPECIFICATION FairSpec
CONSTANTS
  d1 = d1
  d2 = d2
  o1 = o1
  Daemon = Daemon
  Other = Other
  Names = {n1, n2}
  Tasks = {d1, d2, o1}
  Prunes = {o1}
  Procs = {Daemon, Other}
  ProcOf <- MCProcOf
  Gone = Gone
  None = None
  MaxCalls = 2
  MaxMishaps = 1
  Admitted <- MCNothing
INVARIANTS LockIsReturned
PROPERTIES UpdatesAreSerial EveryCallReturns
CHECK_DEADLOCK FALSE
