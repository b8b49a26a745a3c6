\* Uploads, pushes and probes while the provider rotates the auth and accounts
\* are deleted and pushed again.
SPECIFICATION Spec
CONSTANTS
    Server = {s1, s2}
    NoServer = NoServer
    Account = {a1}
    NoAccount = NoAccount
    Prober = {s1}
    Operations = {"claim", "upload", "push"}
    AdminStatus = {}
    Reporting = FALSE
    MayDelete = TRUE
    MaxStamp = 5
    MaxLeases = 2
    MaxGeneration = 2
    MaxVersion = 2
CONSTRAINT SomeUnraced
INVARIANTS UploadsInTurn
CHECK_DEADLOCK FALSE
