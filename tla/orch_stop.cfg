SPECIFICATION Spec
CONSTANTS
    Runs = {r1}
    Slots = {s1, s2}
    Callers = {c1}
    ApiStatuses = {"in-progress", "blocked"}
    ConfigFails = FALSE
    Outsiders = {"stop", "move", "drain", "process"}
    MaxEvents = 3
    None = None
SYMMETRY Symmetry
INVARIANTS TypeOK OneLoopPerRow NoSpuriousCancel
PROPERTY DrainKeepsRowsResumable
