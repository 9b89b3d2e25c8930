SPECIFICATION Spec
CHECK_DEADLOCK FALSE
CONSTANTS
  MaxPrompts = 3
  Starters = {"mcp", "resume"}
  Owners = {"c1", "c2"}
  PromptKinds = {"user", "sched"}
  SendNow = {FALSE, TRUE}
  CancelModes = {}
  EditKinds = {"remove", "promote", "reorder", "clear", "edit"}
  Features = {"goal"}
  NotifCap = 2
  MaxSends = 2
  MaxCancels = 0
  MaxEdits = 2
  MaxInterjects = 0
  MaxNotifs = 0
  MaxGoals = 0
INVARIANTS
  NoDuplicates
  NeverStalled
  ClientsSeeQueue
PROPERTIES
  SpawnedOnce
  SendNowFifo
