SPECIFICATION FairSpec
CONSTANTS
  proc1 = proc1
  proc2 = proc2
  task1 = task1
  task2 = task2
  Procs = {proc1, proc2}
  Tasks = {task1, task2}
  Triers = {task2}
  ProcOf <- MCProcOf
  Nobody = Nobody
  Thread = Thread
  MaxThreads = 1
  MaxIno = 2
  MaxFaults = 1
INVARIANTS
  TypeOK
PROPERTIES
  AttemptsEnd
  StuckHolderBroken
  Implements
