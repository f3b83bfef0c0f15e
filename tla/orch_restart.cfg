SPECIFICATION FairSpec
CONSTANTS
    Runs = {r1}
    Slots = {s1}
    Callers = {c1}
    ApiStatuses = {"in-progress", "blocked"}
    ConfigFails = FALSE
    Outsiders = {"drain", "crash", "move", "ask", "comment"}
    MaxEvents = 3
    None = None
PROPERTIES NeverStranded DrainSettles RestartResumes AnswerUnblocks
