SPECIFICATION FairGatewaySpec
CONSTANTS
    Members = {1, 2}
    Free = {1}
    Handlers = {h1}
    MaxCooldown = 3
    MaxNow = 1
    MaxCalls = 1
    MaxEvents = 1
PROPERTY StalledStreamEnds
CHECK_DEADLOCK FALSE
