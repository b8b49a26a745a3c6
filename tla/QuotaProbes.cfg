SPECIFICATION Spec
CONSTANTS
    NearResetWindow = 2
    Account = {1}
    Client = {c1}
    Worker = {worker}
    Viewer = {}
    NoClient = noClient
    Token = {t1, t2}
    NoToken = noToken
    Workspace = {main}
    DefaultWorkspace = main
    Answers <- HealthyOnly
    Reports <- HealthyShort
    InitialQuota <- HealthyForLong
    AdminStatus = {"ready"}
    AdminOwner = {"client"}
    MayDelete = TRUE
    TTL = {0}
    MinTTL = 1
    DefaultTTL = 2
    MaxTTL = 3
    ProbeMax = 1
    MaxLeases = 2
    MaxGeneration = 4
INVARIANTS ProbesPredateLeases Quarantine
PROPERTIES VerifiedAfterExpiry
CHECK_DEADLOCK FALSE
