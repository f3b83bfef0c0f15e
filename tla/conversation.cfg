SPECIFICATION Spec
CONSTANTS
  Calls = {"c1", "c2"}
  MaxTurns = 3
  MaxPauses = 2
  Backlog = 2
  Crashes = TRUE
  Workers = {"w1", "w2"}
  First = "w1"
  MaxMessages = 2
  Helper = {"h1", "h2", "h3"}
  MaxActive = 2
INVARIANTS RequestsWellFormed ToolOnce PausedIsWhole ForkSafe AnsweredOnce  
 
CHECK_DEADLOCK FALSE
