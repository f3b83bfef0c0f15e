SPECIFICATION FairSpec
CONSTANTS
    Runs = {r1, r2}
    Slots = {s1}
    Callers = {c1, c2}
    ApiStatuses = {"backlog", "refinement", "in-progress", "blocked"}
    ConfigFails = TRUE
    Outsiders = {"edit", "move", "comment", "crash"}
    MaxEvents = 1
    None = None
PROPERTY NoGhostRuns
