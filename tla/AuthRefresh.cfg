SPECIFICATION FairSpec
CONSTANTS
  proc1 = proc1
  proc2 = proc2
  task1 = task1
  task2 = task2
  Procs = {proc1, proc2}
  Tasks = {task1, task2}
  ProcOf <- MCProcOf
  Starters = {task1}
  Sleepers = {proc1}
  Nobody = Nobody
  MAX_CONSECUTIVE_TRANSIENT_FAILURES = 2
  MaxSends = 2
  MaxGen = 3
  Events = {"break", "crash", "sleep", "logout", "enrich", "request", "response", "client", "persist"}
  MaxEvents = 1
INVARIANTS
  TypeOK
  FamilySafe
  LockoutIsReal
  NoStraddle
  DiskUsable
PROPERTIES
  CallsReturn
CHECK_DEADLOCK FALSE
