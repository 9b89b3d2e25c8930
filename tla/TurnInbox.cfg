SPECIFICATION Spec
CHECK_DEADLOCK FALSE
CONSTANTS
  MaxPrompts = 5
  Starters = {}
  Owners = {"c1"}
  PromptKinds = {"user", "wake"}
  SendNow = {FALSE, TRUE}
  CancelModes = {"plain"}
  EditKinds = {}
  Features = {"goal", "wait"}
  NotifCap = 2
  MaxSends = 2
  MaxCancels = 1
  MaxEdits = 0
  MaxInterjects = 1
  MaxNotifs = 1
  MaxGoals = 1
INVARIANTS
  TypeOK
  InterjectionsKept
  StaleNeverFlushes
  QuietAfterCancel
  NotificationsDrained
  WaitIsReal
