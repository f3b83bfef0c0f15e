SPECIFICATION Spec
CONSTANTS
  Task = {1, 2, 3}
  Unborn = {3}
  Known <- OneDependency
  Calls = {"g1", "g2"}
  MaxEdits = 2
  Browser = {"b1"}
  Slots = {1, 2}
  Event = {"e1", "e2"}
  SendBuffer = 1
INVARIANTS NoDependencyCycle 
PROPERTIES RestartStartsDependents 
CHECK_DEADLOCK FALSE
