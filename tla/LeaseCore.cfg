SPECIFICATION Spec
CONSTANTS
    NearResetWindow = 2
    Account = {1, 2}
    Client = {c1, c2}
    Worker = {}
    Viewer = {}
    NoClient = noClient
    Token = {t1}
    NoToken = noToken
    Workspace = {main}
    DefaultWorkspace = main
    Answers <- HealthyOnly
    Reports = {}
    InitialQuota <- HealthyForLong
    AdminStatus = {}
    AdminOwner = {"client"}
    MayDelete = TRUE
    TTL = {0, 1}
    MinTTL = 1
    DefaultTTL = 2
    MaxTTL = 3
    ProbeMax = 1
    MaxLeases = 2
    MaxGeneration = 2
INVARIANTS TypeOK LedgerMatchesLeases Quarantine
PROPERTIES KeepsThePromise ServesBest TakesTurns
CHECK_DEADLOCK FALSE
SYMMETRY ClientSymmetry
