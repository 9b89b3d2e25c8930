SPECIFICATION Spec
CHECK_DEADLOCK FALSE
CONSTANTS
  MaxPrompts = 3
  Starters = {}
  Owners = {"c1"}
  PromptKinds = {"user", "wake"}
  SendNow = {FALSE}
  CancelModes = {}
  EditKinds = {}
  Features = {}
  NotifCap = 2
  MaxSends = 3
  MaxCancels = 0
  MaxEdits = 0
  MaxInterjects = 0
  MaxNotifs = 0
  MaxGoals = 0
INVARIANTS
  DroppedWakeReportable
