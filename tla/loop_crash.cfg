SPECIFICATION AgentSpec
CONSTANTS
  Calls = {"c1", "c2"}
  MaxTurns = 3
  MaxPauses = 2
  Backlog = 3
  Crashes = TRUE
INVARIANT SeqNeverRepeats
CHECK_DEADLOCK FALSE
