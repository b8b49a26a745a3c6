SPECIFICATION FairRunSpec
CONSTANTS
    NearResetWindow = 2
    Account = {1}
    Client = {c1}
    Worker = {}
    Viewer = {}
    NoClient = noClient
    Token <- Versions
    NoToken = noToken
    Workspace = {main}
    DefaultWorkspace = main
    Answers <- HealthyOnly
    Reports <- LowUndated
    InitialQuota <- HealthyForLong
    AdminStatus = {"ready"}
    AdminOwner = {"client"}
    MayDelete = FALSE
    TTL = {3}
    MinTTL = 1
    DefaultTTL = 2
    MaxTTL = 3
    ProbeMax = 1
    MaxLeases = 2
    MaxGeneration = 3
    HeartbeatInterval = 1
    MaxVersion = 2
    MaxLate = 0
PROPERTIES RunEnds SwapMovesOn
CHECK_DEADLOCK FALSE
