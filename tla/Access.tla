------------------------------- MODULE Access -------------------------------
(***************************************************************************)
(* Who may use a cube server: users and their browser sessions (users.go,  *)
(* sessions.go), clients and devices, which are the same rows (clients.go, *)
(* devices.go), workspaces and memberships (workspace.go), and the one     *)
(* time migrations of older states (manager.go).                           *)
(*                                                                         *)
(* Every operation loads the state, migrated where it must be, changes its *)
(* copy and saves all of it.  With files there is one server and its       *)
(* stateMu keeps the operations apart.  With Postgres there are several    *)
(* servers: a Save merges every row into the database, row by row and by   *)
(* rules of their own, it deletes nothing, and what is to be deleted is    *)
(* deleted by a statement before it.                                       *)
(*                                                                         *)
(* Roles, names, times, token texts and passwords are left out: a role, an *)
(* expiry or a label changes nothing of what is stated here.               *)
(***************************************************************************)
EXTENDS Naturals, FiniteSets

CONSTANTS
    Server, Primary,      \* with files there is one server, the primary
    Stores,               \* the stores to look at: files, Postgres or both
    User, NoUser,
    Client, NoClient,     \* clients and devices
    Device,               \* the ids that devices get
    SyntheticUser,        \* the user that the migration makes up for a client
    Workspace, DefaultWorkspace,
    Legacy,               \* clients that an older state may already have
    Joining,              \* the principals that are given memberships
    Operations,           \* what is done: a subset of Operation
    MaxOperations, MaxLogins   \* bounds of the model

Operation == {"register", "password", "disable", "enable", "session", "logout",
              "device", "client", "revokeDevice", "revokeClient", "touch",
              "workspace", "join", "leave", "import"}

ASSUME ServerAssumption == Primary \in Server
ASSUME StoreAssumption == Stores \subseteq {"file", "postgres"}
ASSUME PartyAssumption ==
    /\ NoUser \notin User /\ NoClient \notin Client
    /\ User \cap Client = {} /\ NoUser \notin Client
    /\ Device \subseteq Client /\ Legacy \subseteq Client \ Device
    /\ SyntheticUser \in [Client -> User]
    /\ Joining \subseteq User \cup Client
    /\ DefaultWorkspace \in Workspace
ASSUME ScopeAssumption == Operations \subseteq Operation
ASSUME BoundAssumption == MaxOperations \in Nat /\ MaxLogins \in Nat

VARIABLES
    store,     \* "file" or "postgres"
    db,        \* state.json, or the tables
    tx,        \* per server: the operation that holds its stateMu
    login,     \* per server: a user whose password was checked, not yet given a session
    issued,    \* session tokens given out so far: 1..issued
    begun,     \* operations begun so far
    ended,     \* history: session tokens whose end was answered
    removed,   \* history: memberships whose removal was answered
    revoked,   \* history: clients whose revocation was answered
    made,      \* history: clients created by this version of the program
    late,      \* history: those created when the default workspace was migrated
    granted,   \* history: memberships that an administrator has given
    exposed    \* history: sessions and memberships that another server still
               \* had loaded, and had yet to save, when their row was deleted, and
               \* memberships that were answered as removed but not deleted

vars == <<store, db, tx, login, issued, begun, ended, removed, revoked, made,
          late, granted, exposed>>
history == <<ended, removed, revoked, made, late, granted>>

-----------------------------------------------------------------------------
(* The state                                                               *)

Principal == User \cup Client

\* password: whether one is set; without it nobody logs in.
UserRow == [present : BOOLEAN, password : BOOLEAN, disabled : BOOLEAN]
NoUserRow == [present |-> FALSE, password |-> FALSE, disabled |-> FALSE]

ClientRow == [present : BOOLEAN, user : User \cup {NoUser}, revoked : BOOLEAN]
NoClientRow == [present |-> FALSE, user |-> NoUser, revoked |-> FALSE]

\* The id of a session is the lowest number free; its token is new.
Slot == 1..MaxLogins
SessionRow == [token : Nat, user : User \cup {NoUser}]
NoSession == [token |-> 0, user |-> NoUser]

\* The key is the principal that the membership was made for; a membership of
\* a client gets its user from the migration.
Key == Workspace \X Principal
MemberRow == [present : BOOLEAN, user : User \cup {NoUser}]
NoMember == [present |-> FALSE, user |-> NoUser]

\* accounts: whether there is any account, which then is in the default pool.
State == [users : [User -> UserRow], clients : [Client -> ClientRow],
          sessions : [Slot -> SessionRow], workspaces : SUBSET Workspace,
          members : [Key -> MemberRow], accounts : BOOLEAN,
          workspaceMigrated : BOOLEAN, userDeviceMigrated : BOOLEAN]

EmptyState ==
    [users |-> [u \in User |-> NoUserRow],
     clients |-> [c \in Client |-> NoClientRow],
     sessions |-> [i \in Slot |-> NoSession], workspaces |-> {},
     members |-> [k \in Key |-> NoMember], accounts |-> FALSE,
     workspaceMigrated |-> FALSE, userDeviceMigrated |-> FALSE]

\* A state of a version before workspaces and users.
LegacyState(clients, accounts) ==
    [EmptyState EXCEPT !.accounts = accounts,
        !.clients = [c \in Client |-> [NoClientRow EXCEPT !.present = c \in clients]]]

\* What an operation deletes by a statement of its own.
Drop == [slots : SUBSET Slot, user : User \cup {NoUser}, keys : SUBSET Key,
         client : Client \cup {NoClient}]
NoDrop == [slots |-> {}, user |-> NoUser, keys |-> {}, client |-> NoClient]

\* doc is the changed copy.  The sets and signs: what is true once it is
\* answered: the sessions it ends, memberships it takes and gives, clients it
\* revokes and makes, and the user it registers.
TxState == [pc : {"idle", "drop", "save"}, doc : State, drop : Drop,
            ends : SUBSET Nat, leaves : SUBSET Key, joins : SUBSET Key,
            revokes : SUBSET Client, makes : SUBSET Client, signs : User \cup {NoUser}]
NoTx == [pc |-> "idle", doc |-> EmptyState, drop |-> NoDrop, ends |-> {},
         leaves |-> {}, joins |-> {}, revokes |-> {}, makes |-> {}, signs |-> NoUser]

-----------------------------------------------------------------------------
(* normalizeState: the migrations                                          *)

\* Defect: nobody makes the workspace that the accounts are in.
PoolWorkspaces_Missing(doc) == doc.workspaces

PoolWorkspaces(doc) ==
    doc.workspaces \cup (IF doc.accounts THEN {DefaultWorkspace} ELSE {})

\* migrateDefaultWorkspace, which enrols the clients of a flat pool.
Enrolled(doc, flatPool) ==
    [doc EXCEPT
        !.workspaces = PoolWorkspaces(doc),
        !.members = [k \in Key |->
            IF /\ flatPool /\ ~ @[k].present
               /\ k[1] = DefaultWorkspace
               /\ k[2] \in Client /\ doc.clients[k[2]].present
            THEN [present |-> TRUE, user |-> NoUser] ELSE @[k]],
        !.workspaceMigrated = @ \/ flatPool]

\* Defect: the clients are enrolled whenever there are accounts.
LegacyFlatPool_Ungated(doc) == doc.accounts

LegacyFlatPool(doc) == ~ doc.workspaceMigrated /\ doc.workspaces = {} /\ doc.accounts

\* Defect: the marker is only set where there was something to migrate.
Unmigrated_Late(doc) == \A u \in User : ~ doc.users[u].present

\* Whether migrateUsersAndDevices makes up users.
Unmigrated(doc) == ~ doc.userDeviceMigrated /\ \A u \in User : ~ doc.users[u].present

\* migrateUsersAndDevices.
UsersMigrated(doc) ==
    LET adopted == {c \in Client : /\ Unmigrated(doc) /\ doc.clients[c].present
                                   /\ doc.clients[c].user = NoUser}
    IN  [doc EXCEPT
            !.users = [u \in User |->
                IF \E c \in adopted : SyntheticUser[c] = u
                THEN [NoUserRow EXCEPT !.present = TRUE] ELSE @[u]],
            !.clients = [c \in Client |->
                IF c \in adopted THEN [@[c] EXCEPT !.user = SyntheticUser[c]] ELSE @[c]],
            !.members = [k \in Key |->
                IF k[2] \in adopted /\ @[k].present /\ @[k].user = NoUser
                THEN [@[k] EXCEPT !.user = SyntheticUser[k[2]]] ELSE @[k]],
            !.userDeviceMigrated = TRUE]

normalizeState(doc) == UsersMigrated(Enrolled(doc, LegacyFlatPool(doc)))

\* Load, with either store.
Loaded == normalizeState(db)

Init ==
    /\ store \in Stores
    /\ db \in {LegacyState(cs, accounts) : cs \in SUBSET Legacy, accounts \in BOOLEAN}
    /\ tx = [s \in Server |-> NoTx]
    /\ login = [s \in Server |-> NoUser]
    /\ issued = 0 /\ begun = 0
    /\ ended = {} /\ removed = {} /\ revoked = {}
    /\ made = {} /\ late = {} /\ granted = {}
    /\ exposed = [tokens |-> {}, keys |-> {}]

-----------------------------------------------------------------------------
(* The operations: stateMu, Load, and the changes to the copy              *)

\* Where there is something to delete, Postgres has a statement for it that
\* goes before the Save.
Begin(s, op, change) ==
    /\ op \in Operations /\ begun < MaxOperations
    /\ tx[s].pc = "idle"
    /\ store = "file" => s = Primary
    /\ tx' = [tx EXCEPT ![s] = [change EXCEPT
                 !.pc = IF store = "postgres" /\ change.drop # NoDrop
                        THEN "drop" ELSE "save"]]
    /\ begun' = begun + 1
    /\ UNCHANGED <<store, db, exposed, history>>

Changed(doc) == [NoTx EXCEPT !.doc = doc]

Tokens(doc, u) == {doc.sessions[i].token : i \in {j \in Slot : doc.sessions[j].user = u}}

\* Defect: the sessions of a user stay.
dropUserSessions_Kept(doc, u) == doc.sessions

dropUserSessions(doc, u) ==
    [i \in Slot |-> IF doc.sessions[i].user = u THEN NoSession ELSE doc.sessions[i]]

\* handleAuthRegister: CreateUser; the session is the next operation.
CreateUser(s, u) ==
    /\ ~ Loaded.users[u].present /\ login[s] = NoUser
    /\ Begin(s, "register", [Changed([Loaded EXCEPT
             !.users[u] = [NoUserRow EXCEPT !.present = TRUE, !.password = TRUE]])
             EXCEPT !.signs = u])
    /\ UNCHANGED <<login, issued>>

\* persistAfterSessionDelete.
EndSessions(s, op, doc, u) ==
    /\ Begin(s, op, [Changed([doc EXCEPT !.sessions = dropUserSessions(doc, u)])
                     EXCEPT !.drop.user = u, !.ends = Tokens(doc, u)])
    /\ UNCHANGED <<login, issued>>

\* No handler calls it yet.
SetUserPassword(s, u) ==
    /\ Loaded.users[u].present
    /\ EndSessions(s, "password", [Loaded EXCEPT !.users[u].password = TRUE], u)

SetUserDisabled(s, u) ==
    /\ Loaded.users[u].present
    /\ \/ EndSessions(s, "disable", [Loaded EXCEPT !.users[u].disabled = TRUE], u)
       \/ /\ Begin(s, "enable", Changed([Loaded EXCEPT !.users[u].disabled = FALSE]))
          /\ UNCHANGED <<login, issued>>

\* handleAuthLogin, first AuthenticateUser, which holds nothing ...
AuthenticateUser(s, u) ==
    LET row == Loaded.users[u]
    IN  /\ store = "file" => s = Primary
        /\ "session" \in Operations
        /\ login[s] = NoUser /\ tx[s].signs = NoUser
        /\ row.present /\ row.password /\ ~ row.disabled
        /\ login' = [login EXCEPT ![s] = u]
        /\ UNCHANGED <<store, db, tx, issued, begun, exposed, history>>

\* ... then CreateSession, which does not look at the user again.
CreateSession(s) ==
    LET free == {i \in Slot : Loaded.sessions[i] = NoSession}
        slot == CHOOSE i \in free : \A j \in free : i <= j
    IN  /\ login[s] # NoUser /\ issued < MaxLogins /\ free # {}
        /\ Begin(s, "session", Changed([Loaded EXCEPT
               !.sessions[slot] = [token |-> issued + 1, user |-> login[s]]]))
        /\ login' = [login EXCEPT ![s] = NoUser]
        /\ issued' = issued + 1

\* Logout, of a session that may be gone by now.
DeleteSession(s, i) ==
    /\ i <= issued
    /\ Begin(s, "logout", [Changed([Loaded EXCEPT !.sessions[i] = NoSession]) EXCEPT
             !.drop.slots = {i}, !.ends = {Loaded.sessions[i].token} \ {0}])
    /\ UNCHANGED <<login, issued>>

\* CreateDevice: for a user who is logged in.
CreateDevice(s, u, c) ==
    /\ Loaded.users[u].present
    /\ c \in Device /\ ~ Loaded.clients[c].present
    /\ Begin(s, "device", Changed([Loaded EXCEPT
             !.clients[c] = [NoClientRow EXCEPT !.present = TRUE, !.user = u]]))
    /\ UNCHANGED <<login, issued>>

CreateClient(s, c) ==
    /\ c \notin Device /\ ~ Loaded.clients[c].present
    /\ Begin(s, "client", [Changed([Loaded EXCEPT
             !.clients[c] = [NoClientRow EXCEPT !.present = TRUE]])
             EXCEPT !.makes = {c}])
    /\ UNCHANGED <<login, issued>>

\* RevokeClient and RevokeDevice, which has a statement of its own.
Revoke(s, c) ==
    LET change == [Changed([Loaded EXCEPT !.clients[c].revoked = TRUE])
                   EXCEPT !.revokes = {c}]
    IN  /\ Loaded.clients[c].present
        /\ \/ Begin(s, "revokeClient", change)
           \/ Begin(s, "revokeDevice", [change EXCEPT !.drop.client = c])
        /\ UNCHANGED <<login, issued>>

\* TouchClient, with every request of a client: what it changes is left out.
TouchClient(s) ==
    /\ \E c \in Client : Loaded.clients[c].present
    /\ Begin(s, "touch", Changed(Loaded))
    /\ UNCHANGED <<login, issued>>

\* ImportAccount and the like, into the default workspace.
ImportAccount(s) ==
    /\ Begin(s, "import", Changed([Loaded EXCEPT !.accounts = TRUE]))
    /\ UNCHANGED <<login, issued>>

CreateWorkspace(s, w) ==
    /\ w # DefaultWorkspace /\ w \notin Loaded.workspaces
    /\ Begin(s, "workspace", Changed([Loaded EXCEPT !.workspaces = @ \cup {w}]))
    /\ UNCHANGED <<login, issued>>

\* membershipMatches: by its user or by its client.
Memberships(doc, w, p) ==
    {k \in Key : /\ k[1] = w /\ doc.members[k].present
                 /\ k[2] = p \/ doc.members[k].user = p}

SetMembership(s, w, p) ==
    LET found == Memberships(Loaded, w, p)
        row == [present |-> TRUE, user |-> IF p \in User THEN p ELSE NoUser]
    IN  /\ w \in Loaded.workspaces
        /\ IF p \in User THEN Loaded.users[p].present ELSE Loaded.clients[p].present
        /\ \/ /\ found = {}
              /\ Begin(s, "join", [Changed([Loaded EXCEPT !.members[<<w, p>>] = row])
                                   EXCEPT !.joins = {<<w, p>>}])
           \/ /\ found # {}
              /\ Begin(s, "join", [Changed(Loaded) EXCEPT !.joins = found])
        /\ UNCHANGED <<login, issued>>

\* The statement deletes one row, the last that matched.
RemoveMembership(s, w, p) ==
    LET found == Memberships(Loaded, w, p)
    IN  /\ \E k \in found :
              Begin(s, "leave", [Changed([Loaded EXCEPT !.members =
                        [j \in Key |-> IF j \in found THEN NoMember ELSE @[j]]])
                    EXCEPT !.drop.keys = {k}, !.leaves = found])
        /\ UNCHANGED <<login, issued>>

-----------------------------------------------------------------------------
(* The statements, the Save and the answer                                 *)

Answer(s) ==
    LET t == tx[s]
    IN  /\ ended' = ended \cup t.ends
        /\ removed' = (removed \cup t.leaves) \ t.joins
        /\ granted' = granted \cup t.joins
        /\ revoked' = revoked \cup t.revokes
        /\ made' = made \cup t.makes
        /\ late' = IF t.doc.workspaceMigrated THEN late \cup t.makes ELSE late
        /\ tx' = [tx EXCEPT ![s] = NoTx]
        /\ login' = IF t.signs # NoUser THEN [login EXCEPT ![s] = t.signs] ELSE login

\* What the other servers have yet to save.
Pending(s) ==
    {normalizeState(tx[r].doc) : r \in {q \in Server \ {s} : tx[q].pc # "idle"}}

\* deletePostgresMembership, ...Session, ...UserSessions and ...Device.  A
\* membership that only the migration had made is not in the table yet: it is
\* there again with the next Load, and of two rows that matched one stays.
\* RemoveMembership ends here, without a Save.
DeleteRows(s) ==
    LET d == tx[s].drop
        slots == {i \in Slot : /\ db.sessions[i] # NoSession
                               /\ i \in d.slots \/ db.sessions[i].user = d.user}
        tokens == {db.sessions[i].token : i \in slots}
    IN  /\ tx[s].pc = "drop"
        /\ db' = [db EXCEPT
              !.sessions = [i \in Slot |-> IF i \in slots THEN NoSession ELSE @[i]],
              !.members = [k \in Key |-> IF k \in d.keys THEN NoMember ELSE @[k]],
              !.clients = [c \in Client |-> IF c = d.client
                             THEN [@[c] EXCEPT !.revoked = TRUE] ELSE @[c]]]
        /\ exposed' =
              [tokens |-> exposed.tokens \cup
                   {t \in tokens : \E doc \in Pending(s), i \in Slot :
                                      doc.sessions[i].token = t},
               keys |-> exposed.keys \cup
                   (tx[s].leaves \ d.keys) \cup
                   {k \in d.keys : \/ ~ db.members[k].present
                                   \/ \E doc \in Pending(s) : doc.members[k].present}]
        /\ IF d.keys # {} THEN Answer(s)
           ELSE /\ tx' = [tx EXCEPT ![s].pc = "save"]
                /\ UNCHANGED <<login, history>>
        /\ UNCHANGED <<store, issued, begun>>

\* Defect: a client row is replaced as a whole.
ClientMerged_Replaced(old, new) == new

\* The upsert of a client: what is empty in the new row keeps its old value.
ClientMerged(old, new) ==
    [present |-> TRUE, user |-> IF new.user # NoUser THEN new.user ELSE old.user,
     revoked |-> new.revoked \/ old.revoked]

\* savePostgresState: it deletes nothing; a session row stays as it was.
Merged(doc) ==
    [users |-> [u \in User |->
         IF doc.users[u].present
         THEN [doc.users[u] EXCEPT !.password = @ \/ db.users[u].password]
         ELSE db.users[u]],
     clients |-> [c \in Client |->
         IF doc.clients[c].present THEN ClientMerged(db.clients[c], doc.clients[c])
         ELSE db.clients[c]],
     sessions |-> [i \in Slot |->
         IF db.sessions[i] = NoSession THEN doc.sessions[i] ELSE db.sessions[i]],
     workspaces |-> db.workspaces \cup doc.workspaces,
     members |-> [k \in Key |->
         IF doc.members[k].present
         THEN [doc.members[k] EXCEPT !.user = IF @ # NoUser THEN @ ELSE db.members[k].user]
         ELSE db.members[k]],
     accounts |-> db.accounts \/ doc.accounts,
     workspaceMigrated |-> db.workspaceMigrated \/ doc.workspaceMigrated,
     userDeviceMigrated |-> db.userDeviceMigrated \/ doc.userDeviceMigrated]

\* The whole file, or a merge after one more normalizeState.
Save(s) ==
    /\ tx[s].pc = "save"
    /\ db' = IF store = "file" THEN tx[s].doc ELSE Merged(normalizeState(tx[s].doc))
    /\ Answer(s)
    /\ UNCHANGED <<store, issued, begun, exposed>>

UserStep(s) ==
    \E u \in User :
       \/ CreateUser(s, u) \/ SetUserPassword(s, u) \/ SetUserDisabled(s, u)
       \/ AuthenticateUser(s, u)
       \/ \E c \in Client : CreateDevice(s, u, c)

ClientStep(s) ==
    \/ TouchClient(s)
    \/ \E c \in Client : CreateClient(s, c) \/ Revoke(s, c)

WorkspaceStep(s) ==
    \E w \in Workspace :
       \/ CreateWorkspace(s, w)
       \/ \E p \in Joining : SetMembership(s, w, p) \/ RemoveMembership(s, w, p)

Next ==
    \E s \in Server :
       \/ UserStep(s) \/ ClientStep(s) \/ WorkspaceStep(s)
       \/ CreateSession(s) \/ ImportAccount(s)
       \/ \E i \in Slot : DeleteSession(s, i)
       \/ DeleteRows(s) \/ Save(s)

Spec == Init /\ [][Next]_vars

-----------------------------------------------------------------------------
(* Properties                                                              *)

\* Every variable keeps to its type, and a row refers only to rows that are
\* there: the tables have no foreign keys, and each Save brings its own rows.
AccessTypeOK ==
    /\ store \in Stores
    /\ db \in State
    /\ tx \in [Server -> TxState]
    /\ login \in [Server -> User \cup {NoUser}]
    /\ issued \in 0..MaxLogins /\ begun \in 0..MaxOperations
    /\ ended \subseteq 1..issued
    /\ removed \subseteq Key /\ granted \subseteq Key
    /\ revoked \subseteq Client /\ made \subseteq Client /\ late \subseteq made
    /\ exposed \in [tokens : SUBSET (1..issued), keys : SUBSET Key]
    /\ \A c \in Client : db.clients[c].user # NoUser => db.users[db.clients[c].user].present
    /\ \A i \in Slot : db.sessions[i] # NoSession => db.users[db.sessions[i].user].present
    /\ \A k \in Key : db.members[k].present =>
          /\ k[1] \in db.workspaces
          /\ IF k[2] \in User THEN db.users[k[2]].present ELSE db.clients[k[2]].present

\* clients.go, devices.go: a client whose revocation was answered never gets
\* its token accepted again, whatever rows from before it another server or a
\* later operation saves.
RevokedForGood == \A c \in revoked : db.clients[c].present /\ db.clients[c].revoked

\* manager.go:557: a client created after the upgrade is never retro-fitted
\* with a synthetic user, on whichever server the first state is migrated.
NeverRetrofitted == \A c \in made : db.clients[c].user = NoUser

\* manager.go:496: once the flat pool is migrated, a client created later is a
\* member of the default workspace only if an administrator has made it one.
EnrolledOnce ==
    \A c \in late : LET k == <<DefaultWorkspace, c>>
                    IN  db.members[k].present => k \in granted

\* workspace.go:178, users.go:116: a session that was ended and a membership
\* that was taken away do not come back, unless another server had the rows
\* loaded at that moment, or the membership had not been stored at all, or was
\* the second of two rows that matched the same person.
GoneForGood ==
    /\ \A i \in Slot : db.sessions[i].token \notin ended \ exposed.tokens
    /\ \A k \in removed \ exposed.keys : ~ db.members[k].present

\* store_postgres.go:668: a concurrent remove cannot be resurrected by a racing
\* save.  A server that has loaded the membership before the delete inserts its
\* row again with the next save of whatever it was doing.
RemovedStaysRemoved == \A k \in removed : ~ db.members[k].present
=============================================================================
