SPECIFICATION Spec
CONSTANTS
  proc1 = proc1
  proc2 = proc2
  task1 = task1
  task2 = task2
  Procs = {proc1, proc2}
  Tasks = {task1, task2}
  ProcOf <- MCProcOf
  Starters = {task1}
  Sleepers = {proc1}
  Nobody = Nobody
  MAX_CONSECUTIVE_TRANSIENT_FAILURES = 2
  MaxSends = 2
  MaxGen = 3
  Events = {}
  MaxEvents = 0
INVARIANTS
  NoSelfWait
CHECK_DEADLOCK FALSE
