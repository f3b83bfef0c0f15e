SPECIFICATION BoardSpec
CONSTANTS
  Task = {1, 2}
  Unborn = {}
  Known = {}
  Calls = {"g1"}
  MaxEdits = 3
PROPERTY DependentsStart
CHECK_DEADLOCK FALSE
