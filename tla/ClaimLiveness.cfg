SPECIFICATION FairSpec
CONSTANTS
    NearResetWindow = 2
    Account = {1}
    Client = {c1, c2}
    Worker = {}
    Viewer = {viewer}
    NoClient = noClient
    Token = {t1}
    NoToken = noToken
    Workspace = {main}
    DefaultWorkspace = main
    Answers <- HealthyOnly
    Reports = {}
    InitialQuota <- HealthyForLong
    AdminStatus = {}
    AdminOwner = {}
    MayDelete = FALSE
    TTL = {0}
    MinTTL = 1
    DefaultTTL = 1
    MaxTTL = 1
    ProbeMax = 1
    MaxLeases = 2
    MaxGeneration = 1
PROPERTIES ClaimAnswered
CHECK_DEADLOCK FALSE
