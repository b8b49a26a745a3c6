\* Users, clients and workspaces, with files and with Postgres.
SPECIFICATION Spec
CONSTANTS
    u1 = u1
    Server = {s1, s2}
    Primary = s1
    Stores = {"file", "postgres"}
    User = {u1}
    NoUser = NoUser
    Client = {c1, c2, d1}
    NoClient = NoClient
    Device = {d1}
    SyntheticUser <- OneSynthetic
    Workspace = {default, w1}
    DefaultWorkspace = default
    Legacy = {c1}
    Joining = {u1, c2}
    Operations = {"register", "password", "disable", "enable", "session", "logout", "device", "client", "revokeDevice", "revokeClient", "touch", "workspace", "join", "leave", "import"}
    MaxOperations = 4
    MaxLogins = 2
INVARIANTS AccessTypeOK RevokedForGood NeverRetrofitted EnrolledOnce GoneForGood
CHECK_DEADLOCK FALSE
