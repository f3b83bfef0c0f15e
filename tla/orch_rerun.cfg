SPECIFICATION Spec
CONSTANTS
    Runs = {r1, r2}
    Slots = {s1}
    Callers = {c1, c2}
    ApiStatuses = {"in-progress", "blocked"}
    ConfigFails = FALSE
    Outsiders = {"process"}
    MaxEvents = 1
    None = None
SYMMETRY Symmetry
INVARIANT OneLoopPerTask
CHECK_DEADLOCK FALSE
