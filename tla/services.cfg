SPECIFICATION ServicesSpec
CONSTANTS
    Team = {"a", "b"}
    Shorts = {1}
    Files = {"f"}
    MaxWork = 5
    MaxImports = 2
    Requests = {r1, r2}
    Access = 1
    RefreshLife = 1
    Cap = 2
    MaxTime = 4
    MaxRequests = 4
    Members = {1, 2, 3}
    Free = {1, 2}
    Handlers = {r1, r2}
    MaxCooldown = 3
    MaxNow = 2
    MaxCalls = 2
    MaxEvents = 3
    Hooks = {r1, r2}
    HookTasks = {"t1", "t2"}
    MaxAttempts = 3
    Owners = {"u", "v"}
    States = {1, 2, 3}
    Callbacks = {r1, r2}
    MaxAccounts = 2
    Editors = {r1, r2}
    Dirs = {1, 2}
    MaxEdits = 3
    MaxSends = 5
    MaxRenewals = 1
SYMMETRY Interchangeable
INVARIANTS   NothingOutlivesLogin ExhaustedMeansNoneWorks PaidIsLastResort OneVoice DeliveredExactly LinkedIsVerified 
CHECK_DEADLOCK FALSE
