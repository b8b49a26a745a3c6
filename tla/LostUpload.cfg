\* A GET in the middle of an upload: the auth of before is stored.
SPECIFICATION Spec
CONSTANTS
    Server = {s1, s2}
    NoServer = NoServer
    Account = {a1}
    NoAccount = NoAccount
    Prober = {}
    Operations = {"claim", "upload", "release"}
    AdminStatus = {}
    Reporting = FALSE
    MayDelete = FALSE
    MaxStamp = 3
    MaxLeases = 1
    MaxGeneration = 2
    MaxVersion = 2
INVARIANTS LastUploadStored
CHECK_DEADLOCK FALSE
