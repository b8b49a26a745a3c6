\* A quota result in the middle of a claim: two sessions on one account.
SPECIFICATION Spec
CONSTANTS
    Server = {s1, s2}
    NoServer = NoServer
    Account = {a1}
    NoAccount = NoAccount
    Prober = {s1}
    Operations = {"claim", "release"}
    AdminStatus = {}
    Reporting = FALSE
    MayDelete = FALSE
    MaxStamp = 3
    MaxLeases = 2
    MaxGeneration = 2
    MaxVersion = 1
INVARIANTS OneHolder
CHECK_DEADLOCK FALSE
