SPECIFICATION RunSpec
CONSTANTS
    NearResetWindow = 2
    Account = {1, 2}
    Client = {c1}
    Worker = {}
    Viewer = {}
    NoClient = noClient
    Token <- Versions
    NoToken = noToken
    Workspace = {main}
    DefaultWorkspace = main
    Answers <- HealthyOnly
    Reports <- LowUndated
    InitialQuota <- HealthyForLong
    AdminStatus = {"ready"}
    AdminOwner = {}
    MayDelete = FALSE
    TTL = {3}
    MinTTL = 1
    DefaultTTL = 2
    MaxTTL = 3
    ProbeMax = 1
    MaxLeases = 2
    MaxGeneration = 2
    HeartbeatInterval = 1
    MaxVersion = 1
    MaxLate = 1
INVARIANTS RunTypeOK StaysLeased AuthBelongs
CHECK_DEADLOCK FALSE
