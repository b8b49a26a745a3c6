\* A request of a client in the middle of the removal of a member.
SPECIFICATION Spec
CONSTANTS
    u1 = u1
    Server = {s1, s2}
    Primary = s1
    Stores = {"postgres"}
    User = {u1}
    NoUser = NoUser
    Client = {c1, c2, d1}
    NoClient = NoClient
    Device = {d1}
    SyntheticUser <- OneSynthetic
    Workspace = {default, w1}
    DefaultWorkspace = default
    Legacy = {c1}
    Joining = {u1, c2}
    Operations = {"client", "touch", "import", "join", "leave"}
    MaxOperations = 4
    MaxLogins = 2
INVARIANTS RemovedStaysRemoved
CHECK_DEADLOCK FALSE
