SPECIFICATION BusySpec
CONSTANTS
    NearResetWindow = 2
    Account = {1}
    Client = {c1}
    Worker = {worker}
    Viewer = {}
    NoClient = noClient
    Token = {t1}
    NoToken = noToken
    Workspace = {main}
    DefaultWorkspace = main
    Answers <- HealthyOnly
    Reports = {}
    InitialQuota <- HealthyForLong
    AdminStatus = {}
    AdminOwner = {}
    MayDelete = FALSE
    TTL = {0}
    MinTTL = 1
    DefaultTTL = 2
    MaxTTL = 3
    ProbeMax = 1
    MaxLeases = 3
    MaxGeneration = 1
PROPERTIES RecoveryDecided
CHECK_DEADLOCK FALSE
