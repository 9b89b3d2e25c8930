SPECIFICATION HFairSpec
CHECK_DEADLOCK FALSE
CONSTANTS
  MaxPrompts = 3
  Starters = {"mcp", "resume"}
  Owners = {"c1"}
  PromptKinds = {"user"}
  SendNow = {FALSE, TRUE}
  CancelModes = {"plain", "rewind", "teardown"}
  EditKinds = {}
  Features = {}
  NotifCap = 2
  MaxSends = 2
  MaxCancels = 2
  MaxEdits = 0
  MaxInterjects = 0
  MaxNotifs = 0
  MaxGoals = 0
INVARIANTS
  FrontIsRunning
  ClientsNotForgotten
  TerminalPerTurn
  LiveTurnOwned
  PinAgrees
  ToolsSeeTurn
PROPERTIES
  EveryPromptAnswered
