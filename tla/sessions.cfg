SPECIFICATION FairSpec
CONSTANTS
    Sess = {r1, r2}
    Asker = r1
    Slots = {s1, s2}
    Repliers = {h1}
    Outsiders = {"ask", "comment", "drain", "crash", "stop", "fault"}
    MaxEvents = 3
    None = None
INVARIANT OneWorker
PROPERTIES OwnershipHolds  UpdatePauseResumes
CHECK_DEADLOCK FALSE
