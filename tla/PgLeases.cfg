\* Two servers on one database: leases, quota results and operators interleave.
SPECIFICATION Spec
CONSTANTS
    Server = {s1, s2}
    NoServer = NoServer
    Account = {a1}
    NoAccount = NoAccount
    Prober = {s1}
    Operations = {"claim", "touch", "upload", "release", "recover", "setStatus", "setOwner", "add", "import", "list", "other"}
    AdminStatus = {"drain"}
    Reporting = TRUE
    MayDelete = TRUE
    MaxStamp = 3
    MaxLeases = 2
    MaxGeneration = 2
    MaxVersion = 1
CONSTRAINT SomeUnraced
INVARIANTS PgTypeOK HoldersRecorded
PROPERTIES NothingRevived
CHECK_DEADLOCK FALSE
