----------------------------- MODULE AccessProofs -----------------------------
(***************************************************************************)
(* A revocation lasts (RevokedForGood), for any number of servers, users,  *)
(* clients, devices and workspaces, with files and with Postgres.          *)
(***************************************************************************)
EXTENDS Access, TLAPS

\* What the proofs need of the types: Postgres or files, well formed rows and
\* copies, and a login that names a user.
AccessTyped ==
    /\ store \in {"file", "postgres"}
    /\ db \in State
    /\ tx \in [Server -> TxState]
    /\ login \in [Server -> User \cup {NoUser}]
    /\ issued \in Nat

\* Client c is refused for good by a server that reads doc.
Dead(doc, c) == doc.clients[c].present /\ doc.clients[c].revoked

\* With files one server acts, and the copy it is to save has every revocation
\* that was answered; with any store a copy has those it will answer.
CopiesRevoked ==
    /\ store = "file" => \A s \in Server \ {Primary} : tx[s].pc = "idle"
    /\ store = "file" /\ tx[Primary].pc # "idle" =>
          \A c \in revoked : Dead(tx[Primary].doc, c)
    /\ \A s \in Server : tx[s].pc # "idle" =>
          \A c \in tx[s].revokes : Dead(tx[s].doc, c)
    /\ \A s \in Server : tx[s].drop.keys # {} => tx[s].revokes = {}

\* The inductive invariant.
Revocations ==
    /\ AccessTyped
    /\ revoked \subseteq Client
    /\ RevokedForGood
    /\ CopiesRevoked

-----------------------------------------------------------------------------
(* The migrations                                                          *)

\* The migrations keep the type of a state, and who is there and revoked.
LEMMA normalizeStateKeeps ==
    ASSUME NEW doc \in State
    PROVE  /\ normalizeState(doc) \in State
           /\ \A c \in Client : /\ normalizeState(doc).clients[c].present = doc.clients[c].present
                                /\ normalizeState(doc).clients[c].revoked = doc.clients[c].revoked
<1>1. ASSUME NEW flat \in BOOLEAN
      PROVE  /\ Enrolled(doc, flat) \in State
             /\ Enrolled(doc, flat).clients = doc.clients
    <2>1. PoolWorkspaces(doc) \in SUBSET Workspace
        BY PartyAssumption DEF PoolWorkspaces, State
    <2>2. [k \in Key |->
              IF /\ flat /\ ~ doc.members[k].present
                 /\ k[1] = DefaultWorkspace
                 /\ k[2] \in Client /\ doc.clients[k[2]].present
              THEN [present |-> TRUE, user |-> NoUser] ELSE doc.members[k]]
            \in [Key -> MemberRow]
        BY DEF State, MemberRow
    <2>3. doc.workspaceMigrated \/ flat \in BOOLEAN
        BY DEF State
    <2>4. QED
        BY <2>1, <2>2, <2>3 DEF Enrolled, State
<1>2. ASSUME NEW d \in State
      PROVE  /\ UsersMigrated(d) \in State
             /\ \A c \in Client : /\ UsersMigrated(d).clients[c].present = d.clients[c].present
                                  /\ UsersMigrated(d).clients[c].revoked = d.clients[c].revoked
    <2> DEFINE adopted == {c \in Client : /\ Unmigrated(d) /\ d.clients[c].present
                                          /\ d.clients[c].user = NoUser}
               users == [u \in User |->
                            IF \E c \in adopted : SyntheticUser[c] = u
                            THEN [NoUserRow EXCEPT !.present = TRUE] ELSE d.users[u]]
               clients == [c \in Client |->
                              IF c \in adopted
                              THEN [d.clients[c] EXCEPT !.user = SyntheticUser[c]]
                              ELSE d.clients[c]]
               members == [k \in Key |->
                              IF k[2] \in adopted /\ d.members[k].present
                                 /\ d.members[k].user = NoUser
                              THEN [d.members[k] EXCEPT !.user = SyntheticUser[k[2]]]
                              ELSE d.members[k]]
    <2>1. users \in [User -> UserRow]
        BY DEF State, UserRow, NoUserRow
    <2>2. /\ clients \in [Client -> ClientRow]
          /\ \A c \in Client : /\ clients[c].present = d.clients[c].present
                               /\ clients[c].revoked = d.clients[c].revoked
        BY PartyAssumption DEF State, ClientRow
    <2>3. members \in [Key -> MemberRow]
        BY PartyAssumption DEF State, MemberRow
    <2>4. UsersMigrated(d) = [d EXCEPT !.users = users, !.clients = clients,
                                       !.members = members, !.userDeviceMigrated = TRUE]
        BY DEF UsersMigrated
    <2> HIDE DEF adopted, users, clients, members
    <2>5. QED
        BY <2>1, <2>2, <2>3, <2>4 DEF State
<1>3. LegacyFlatPool(doc) \in BOOLEAN
    BY DEF LegacyFlatPool
<1>4. QED
    BY <1>1, <1>2, <1>3 DEF normalizeState, State

\* What an operation finds: a well formed state in which the revoked are revoked.
LEMMA LoadedKeeps ==
    ASSUME AccessTyped
    PROVE  /\ Loaded \in State
           /\ \A c \in Client : Dead(db, c) <=> Dead(Loaded, c)
           /\ \A c \in Client : Loaded.clients[c].present = db.clients[c].present
    BY normalizeStateKeeps DEF AccessTyped, Loaded, Dead

-----------------------------------------------------------------------------
(* The operations                                                          *)

\* An operation that undoes no revocation in its copy may begin.
LEMMA BeginKeeps ==
    ASSUME Revocations, NEW s \in Server, NEW op, NEW change \in TxState,
           Begin(s, op, change),
           \A c \in Client : Dead(Loaded, c) => Dead(change.doc, c),
           \A c \in change.revokes : Dead(change.doc, c),
           change.drop.keys # {} => change.revokes = {},
           login' \in [Server -> User \cup {NoUser}], issued' \in Nat
    PROVE  Revocations'
<1> DEFINE pc == IF store = "postgres" /\ change.drop # NoDrop THEN "drop" ELSE "save"
           begun1 == [change EXCEPT !.pc = pc]
<1>1. /\ begun1 \in TxState /\ begun1.pc # "idle"
      /\ begun1.doc = change.doc /\ begun1.revokes = change.revokes
      /\ begun1.drop = change.drop
    BY DEF TxState
<1>2. tx' = [tx EXCEPT ![s] = begun1]
    BY DEF Begin
<1> HIDE DEF pc, begun1
<1>3. /\ tx'[s] = begun1
      /\ \A r \in Server \ {s} : tx'[r] = tx[r]
    BY <1>1, <1>2 DEF Revocations, AccessTyped
<1>4. AccessTyped'
    BY <1>1, <1>2 DEF Revocations, AccessTyped, Begin
<1>5. /\ (revoked \subseteq Client)' /\ RevokedForGood'
    BY DEF Revocations, RevokedForGood, Begin, history
<1>6. \A c \in revoked : Dead(change.doc, c)
    BY LoadedKeeps DEF Revocations, RevokedForGood, Dead
<1>7. CopiesRevoked'
    <2>1. store' = "file" => /\ s = Primary
                             /\ \A r \in Server \ {Primary} : tx'[r].pc = "idle"
        BY <1>3 DEF Revocations, CopiesRevoked, Begin
    <2>2. store' = "file" => \A c \in revoked' : Dead(tx'[Primary].doc, c)
        BY <1>1, <1>3, <1>6, <2>1 DEF Begin, history
    <2>3. \A r \in Server : tx'[r].pc # "idle" =>
             \A c \in tx'[r].revokes : Dead(tx'[r].doc, c)
        BY <1>1, <1>3 DEF Revocations, CopiesRevoked
    <2>4. \A r \in Server : tx'[r].drop.keys # {} => tx'[r].revokes = {}
        BY <1>1, <1>3 DEF Revocations, CopiesRevoked
    <2>5. QED
        BY <2>1, <2>2, <2>3, <2>4 DEF CopiesRevoked, Dead
<1>8. QED
    BY <1>4, <1>5, <1>7 DEF Revocations

\* A copy in which nothing is to be deleted, ended or given is well formed.
LEMMA ChangedTyped ==
    ASSUME NEW doc \in State
    PROVE  /\ Changed(doc) \in TxState
           /\ Changed(doc).doc = doc /\ Changed(doc).revokes = {}
           /\ Changed(doc).drop = NoDrop /\ NoDrop \in Drop /\ NoDrop.keys = {}
<1>1. NoDrop \in Drop /\ NoDrop.keys = {}
    BY DEF NoDrop, Drop
<1>2. EmptyState \in State
    BY DEF EmptyState, State, NoUserRow, UserRow, NoClientRow, ClientRow,
           NoSession, SessionRow, NoMember, MemberRow
<1>3. NoTx \in TxState /\ NoTx.revokes = {} /\ NoTx.drop = NoDrop
    BY <1>1, <1>2 DEF NoTx, TxState
<1>4. QED
    BY <1>1, <1>3 DEF Changed, TxState

\* An operation that only changes its copy, and undoes no revocation there.
LEMMA ChangedKeeps ==
    ASSUME Revocations, NEW s \in Server, NEW op, NEW doc \in State,
           Begin(s, op, Changed(doc)),
           \A c \in Client : Dead(Loaded, c) => Dead(doc, c),
           login' \in [Server -> User \cup {NoUser}], issued' \in Nat
    PROVE  Revocations'
    BY ChangedTyped, BeginKeeps

\* What a login, a registration or a device leaves of the others' logins.
LEMMA LoginTyped ==
    ASSUME Revocations, NEW s \in Server
    PROVE  /\ login \in [Server -> User \cup {NoUser}] /\ issued \in Nat
           /\ login[s] \in User \cup {NoUser}
           /\ \A u \in User \cup {NoUser} :
                 [login EXCEPT ![s] = u] \in [Server -> User \cup {NoUser}]
    BY DEF Revocations, AccessTyped

\* Ending a user's sessions ends no revocation.
LEMMA EndSessionsKeeps ==
    ASSUME Revocations, NEW s \in Server, NEW op, NEW u \in User, NEW doc \in State,
           doc.clients = Loaded.clients, EndSessions(s, op, doc, u)
    PROVE  Revocations'
<1> DEFINE swept == [doc EXCEPT !.sessions = dropUserSessions(doc, u)]
           drop == [Changed(swept).drop EXCEPT !.user = u]
           dropping == [Changed(swept) EXCEPT !.drop = drop]
           change == [dropping EXCEPT !.ends = Tokens(doc, u)]
<1>1. swept \in State /\ swept.clients = doc.clients
    BY DEF State, dropUserSessions, NoSession, SessionRow
<1>2. Tokens(doc, u) \in SUBSET Nat
    BY DEF Tokens, State, SessionRow
<1>3. Begin(s, op, change) /\ UNCHANGED <<login, issued>>
    BY DEF EndSessions
<1> HIDE DEF swept
<1>4. drop \in Drop
    BY <1>1, ChangedTyped DEF Drop
<1> HIDE DEF drop
<1>5. dropping \in TxState /\ dropping.doc = swept /\ dropping.revokes = {}
    BY <1>1, <1>4, ChangedTyped DEF TxState
<1> HIDE DEF dropping
<1>6. change \in TxState /\ change.doc = swept /\ change.revokes = {}
    BY <1>2, <1>5 DEF TxState
<1> HIDE DEF change
<1>7. QED
    BY <1>1, <1>3, <1>6, BeginKeeps, LoginTyped DEF Dead

\* Registration, passwords, disabling and enabling change no client.
LEMMA UsersKeep ==
    ASSUME Revocations, NEW s \in Server, NEW u \in User,
           \/ CreateUser(s, u) \/ SetUserPassword(s, u) \/ SetUserDisabled(s, u)
    PROVE  Revocations'
<1>1. Loaded \in State
    BY LoadedKeeps DEF Revocations
<1>2. CASE CreateUser(s, u)
    <2> DEFINE doc == [Loaded EXCEPT !.users[u] =
                          [NoUserRow EXCEPT !.present = TRUE, !.password = TRUE]]
               change == [Changed(doc) EXCEPT !.signs = u]
    <2>1. doc \in State /\ doc.clients = Loaded.clients
        BY <1>1 DEF State, NoUserRow, UserRow
    <2>2. Begin(s, "register", change) /\ UNCHANGED <<login, issued>>
        BY <1>2 DEF CreateUser
    <2> HIDE DEF doc
    <2>3. /\ change \in TxState /\ change.doc = doc /\ change.revokes = {}
        BY <2>1, ChangedTyped DEF TxState
    <2> HIDE DEF change
    <2>4. QED
        BY <2>1, <2>2, <2>3, BeginKeeps, LoginTyped DEF Dead
<1>3. CASE SetUserPassword(s, u)
    <2>1. /\ [Loaded EXCEPT !.users[u].password = TRUE] \in State
          /\ [Loaded EXCEPT !.users[u].password = TRUE].clients = Loaded.clients
        BY <1>1 DEF State, UserRow
    <2>2. QED
        BY <1>3, <2>1, EndSessionsKeeps DEF SetUserPassword
<1>4. CASE SetUserDisabled(s, u)
    <2>1. ASSUME NEW b \in BOOLEAN
          PROVE  /\ [Loaded EXCEPT !.users[u].disabled = b] \in State
                 /\ [Loaded EXCEPT !.users[u].disabled = b].clients = Loaded.clients
        BY <1>1 DEF State, UserRow
    <2>2. CASE EndSessions(s, "disable", [Loaded EXCEPT !.users[u].disabled = TRUE], u)
        BY <2>1, <2>2, EndSessionsKeeps
    <2>3. CASE /\ Begin(s, "enable", Changed([Loaded EXCEPT !.users[u].disabled = FALSE]))
               /\ UNCHANGED <<login, issued>>
        BY <2>1, <2>3, ChangedKeeps, LoginTyped DEF Dead
    <2>4. QED
        BY <1>4, <2>2, <2>3 DEF SetUserDisabled
<1>5. QED
    BY <1>2, <1>3, <1>4

\* Checking a password touches nothing that is stored.
LEMMA AuthenticateUserKeeps ==
    ASSUME Revocations, NEW s \in Server, NEW u \in User, AuthenticateUser(s, u)
    PROVE  Revocations'
    BY LoginTyped DEF AuthenticateUser, Revocations, AccessTyped, RevokedForGood,
                      CopiesRevoked, Dead, history

\* Sessions that come and go change no client.
LEMMA SessionsKeep ==
    ASSUME Revocations, NEW s \in Server,
           \/ CreateSession(s)
           \/ \E i \in Slot : DeleteSession(s, i)
    PROVE  Revocations'
<1>1. Loaded \in State
    BY LoadedKeeps DEF Revocations
<1>2. CASE CreateSession(s)
    <2> DEFINE doc(slot) == [Loaded EXCEPT !.sessions[slot] =
                                [token |-> issued + 1, user |-> login[s]]]
    <2>1. ASSUME NEW slot
          PROVE  doc(slot) \in State /\ doc(slot).clients = Loaded.clients
        <3> DEFINE row == [token |-> issued + 1, user |-> login[s]]
                   sessions == [Loaded.sessions EXCEPT ![slot] = row]
        <3>1. row \in SessionRow
            BY LoginTyped DEF SessionRow
        <3> HIDE DEF row
        <3>2. sessions \in [Slot -> SessionRow]
            BY <1>1, <3>1 DEF State
        <3>3. doc(slot) = [Loaded EXCEPT !.sessions = sessions]
            BY <1>1 DEF State, row
        <3> HIDE DEF doc, sessions
        <3>4. QED
            BY <1>1, <3>2, <3>3 DEF State
    <2>2. \E slot : Begin(s, "session", Changed(doc(slot)))
        BY <1>2 DEF CreateSession
    <2>3. login' \in [Server -> User \cup {NoUser}] /\ issued' \in Nat
        BY <1>2, LoginTyped DEF CreateSession
    <2> HIDE DEF doc
    <2>4. QED
        BY <2>1, <2>2, <2>3, ChangedKeeps DEF Dead
<1>3. ASSUME NEW i \in Slot, DeleteSession(s, i)
      PROVE  Revocations'
    <2> DEFINE doc == [Loaded EXCEPT !.sessions[i] = NoSession]
               drop == [Changed(doc).drop EXCEPT !.slots = {i}]
               dropping == [Changed(doc) EXCEPT !.drop = drop]
               change == [dropping EXCEPT !.ends = {Loaded.sessions[i].token} \ {0}]
    <2>1. doc \in State /\ doc.clients = Loaded.clients
        BY <1>1 DEF State, NoSession, SessionRow
    <2>2. {Loaded.sessions[i].token} \ {0} \in SUBSET Nat
        BY <1>1 DEF State, SessionRow
    <2>3. Begin(s, "logout", change) /\ UNCHANGED <<login, issued>>
        BY <1>3 DEF DeleteSession
    <2> HIDE DEF doc
    <2>4. drop \in Drop
        BY <2>1, ChangedTyped DEF Drop
    <2> HIDE DEF drop
    <2>5. dropping \in TxState /\ dropping.doc = doc /\ dropping.revokes = {}
        BY <2>1, <2>4, ChangedTyped DEF TxState
    <2> HIDE DEF dropping
    <2>6. change \in TxState /\ change.doc = doc /\ change.revokes = {}
        BY <2>2, <2>5 DEF TxState
    <2> HIDE DEF change
    <2>7. QED
        BY <2>1, <2>3, <2>6, BeginKeeps, LoginTyped DEF Dead
<1>4. QED
    BY <1>2, <1>3

\* A row of a client that is replaced leaves the others as they are.
LEMMA ClientReplaced ==
    ASSUME NEW doc \in State, NEW c \in Client, NEW row \in ClientRow, NEW new,
           new = [doc EXCEPT !.clients[c] = row]
    PROVE  /\ new \in State /\ new.clients[c] = row
           /\ \A d \in Client \ {c} : new.clients[d] = doc.clients[d]
<1> DEFINE clients == [doc.clients EXCEPT ![c] = row]
<1>1. /\ clients \in [Client -> ClientRow] /\ clients[c] = row
      /\ \A d \in Client \ {c} : clients[d] = doc.clients[d]
    BY DEF State
<1>2. new = [doc EXCEPT !.clients = clients]
    OBVIOUS
<1> HIDE DEF clients
<1>3. new \in State /\ new.clients = clients
    BY <1>1, <1>2 DEF State
<1>4. QED
    BY <1>1, <1>3

\* A revocation adds to those that are in the copy.
LEMMA RevokeKeeps ==
    ASSUME Revocations, NEW s \in Server, NEW c \in Client, Revoke(s, c)
    PROVE  Revocations'
<1> DEFINE row == [Loaded.clients[c] EXCEPT !.revoked = TRUE]
           clients == [Loaded.clients EXCEPT ![c] = row]
           doc == [Loaded EXCEPT !.clients = clients]
           change == [Changed(doc) EXCEPT !.revokes = {c}]
           drop == [change.drop EXCEPT !.client = c]
           dropping == [change EXCEPT !.drop = drop]
<1>1. Loaded \in State
    BY LoadedKeeps DEF Revocations
<1>2. Loaded.clients[c].present
    BY Zenon DEF Revoke
<1>3. UNCHANGED <<login, issued>>
    BY Zenon DEF Revoke
<1>4. Begin(s, "revokeClient", change) \/ Begin(s, "revokeDevice", dropping)
    BY Zenon DEF Revoke
<1>5. row \in ClientRow
    BY <1>1 DEF State, ClientRow
<1>6. row.present /\ row.revoked
    BY <1>1, <1>2 DEF State, ClientRow
<1> HIDE DEF row
<1>7. /\ doc \in State /\ doc.clients[c] = row
      /\ \A d \in Client \ {c} : doc.clients[d] = Loaded.clients[d]
    <2>1. /\ clients \in [Client -> ClientRow] /\ clients[c] = row
          /\ \A d \in Client \ {c} : clients[d] = Loaded.clients[d]
        BY <1>1, <1>5 DEF State
    <2> HIDE DEF clients
    <2>2. doc \in State /\ doc.clients = clients
        BY <1>1, <2>1 DEF State
    <2>3. QED
        BY <2>1, <2>2
<1> HIDE DEF doc
<1>8. Dead(doc, c) /\ \A d \in Client : Dead(Loaded, d) => Dead(doc, d)
    BY <1>6, <1>7 DEF Dead
<1>9. /\ change \in TxState /\ change.doc = doc /\ change.revokes = {c}
      /\ change.drop = NoDrop
    <2>1. {c} \in SUBSET Client
        OBVIOUS
    <2>2. /\ Changed(doc) \in TxState /\ Changed(doc).doc = doc
          /\ Changed(doc).drop = NoDrop
        BY <1>7, ChangedTyped
    <2> DEFINE revokes == {c}
    <2> HIDE DEF revokes
    <2>3. /\ [Changed(doc) EXCEPT !.revokes = revokes] \in TxState
          /\ [Changed(doc) EXCEPT !.revokes = revokes].doc = doc
          /\ [Changed(doc) EXCEPT !.revokes = revokes].revokes = revokes
          /\ [Changed(doc) EXCEPT !.revokes = revokes].drop = NoDrop
        BY <2>1, <2>2 DEF TxState, revokes
    <2>4. QED
        BY <2>3 DEF revokes
<1> HIDE DEF change
<1>10. drop \in Drop /\ drop.keys = {}
    BY <1>7, <1>9, ChangedTyped DEF Drop
<1> HIDE DEF drop
<1>11. /\ dropping \in TxState /\ dropping.doc = doc /\ dropping.revokes = {c}
       /\ dropping.drop = drop
    BY <1>9, <1>10 DEF TxState
<1> HIDE DEF dropping
<1>12. CASE Begin(s, "revokeClient", change)
    BY <1>3, <1>7, <1>8, <1>9, <1>12, BeginKeeps, ChangedTyped, LoginTyped
<1>13. CASE Begin(s, "revokeDevice", dropping)
    BY <1>3, <1>7, <1>8, <1>10, <1>11, <1>13, BeginKeeps, LoginTyped
<1>14. QED
    BY <1>4, <1>12, <1>13

\* A client or device is made only where there is none.
LEMMA ClientsKeep ==
    ASSUME Revocations, NEW s \in Server,
           \/ TouchClient(s)
           \/ \E c \in Client : \/ CreateClient(s, c) \/ Revoke(s, c)
                               \/ \E u \in User : CreateDevice(s, u, c)
    PROVE  Revocations'
<1>1. Loaded \in State
    BY LoadedKeeps DEF Revocations
<1>2. CASE TouchClient(s)
    BY <1>1, <1>2, ChangedKeeps, LoginTyped DEF TouchClient
<1>3. ASSUME NEW c \in Client, NEW row \in ClientRow, ~ Loaded.clients[c].present,
             NEW doc, doc = [Loaded EXCEPT !.clients[c] = row]
      PROVE  /\ doc \in State
             /\ \A d \in Client : Dead(Loaded, d) => Dead(doc, d)
    BY <1>1, <1>3, ClientReplaced DEF Dead
<1>4. ASSUME NEW c \in Client, CreateClient(s, c)
      PROVE  Revocations'
    <2> DEFINE row == [NoClientRow EXCEPT !.present = TRUE]
               doc == [Loaded EXCEPT !.clients[c] = row]
               change == [Changed(doc) EXCEPT !.makes = {c}]
    <2>1. row \in ClientRow
        BY DEF NoClientRow, ClientRow
    <2>2. ~ Loaded.clients[c].present /\ Begin(s, "client", change) /\ UNCHANGED <<login, issued>>
        BY <1>4 DEF CreateClient
    <2> HIDE DEF row
    <2>3. doc \in State /\ \A d \in Client : Dead(Loaded, d) => Dead(doc, d)
        BY <1>3, <2>1, <2>2
    <2> HIDE DEF doc
    <2>4. change \in TxState /\ change.doc = doc /\ change.revokes = {}
        BY <2>3, ChangedTyped DEF TxState
    <2> HIDE DEF change
    <2>5. QED
        BY <2>2, <2>3, <2>4, BeginKeeps, LoginTyped
<1>5. ASSUME NEW c \in Client, NEW u \in User, CreateDevice(s, u, c)
      PROVE  Revocations'
    <2> DEFINE row == [NoClientRow EXCEPT !.present = TRUE, !.user = u]
               doc == [Loaded EXCEPT !.clients[c] = row]
    <2>1. row \in ClientRow
        BY DEF NoClientRow, ClientRow
    <2>2. ~ Loaded.clients[c].present /\ Begin(s, "device", Changed(doc)) /\ UNCHANGED <<login, issued>>
        BY <1>5 DEF CreateDevice
    <2> HIDE DEF row
    <2>3. doc \in State /\ \A d \in Client : Dead(Loaded, d) => Dead(doc, d)
        BY <1>3, <2>1, <2>2
    <2> HIDE DEF doc
    <2>4. QED
        BY <2>2, <2>3, ChangedKeeps, LoginTyped
<1>6. QED
    BY <1>2, <1>4, <1>5, RevokeKeeps

\* Accounts, workspaces and memberships have nothing to do with revocations.
LEMMA PoolsKeep ==
    ASSUME Revocations, NEW s \in Server,
           \/ ImportAccount(s)
           \/ \E w \in Workspace :
                 \/ CreateWorkspace(s, w)
                 \/ \E p \in Joining : SetMembership(s, w, p) \/ RemoveMembership(s, w, p)
    PROVE  Revocations'
<1>1. Loaded \in State
    BY LoadedKeeps DEF Revocations
<1>2. CASE ImportAccount(s)
    <2>1. /\ [Loaded EXCEPT !.accounts = TRUE] \in State
          /\ [Loaded EXCEPT !.accounts = TRUE].clients = Loaded.clients
        BY <1>1 DEF State
    <2>2. QED
        BY <1>2, <2>1, ChangedKeeps, LoginTyped DEF ImportAccount, Dead
<1>3. ASSUME NEW w \in Workspace, CreateWorkspace(s, w)
      PROVE  Revocations'
    <2> DEFINE doc == [Loaded EXCEPT !.workspaces = Loaded.workspaces \cup {w}]
    <2>1. doc \in State /\ doc.clients = Loaded.clients
        BY <1>1 DEF State
    <2>2. Begin(s, "workspace", Changed(doc)) /\ UNCHANGED <<login, issued>>
        BY <1>3 DEF CreateWorkspace
    <2> HIDE DEF doc
    <2>3. QED
        BY <2>1, <2>2, ChangedKeeps, LoginTyped DEF Dead
<1>4. ASSUME NEW doc \in State, doc.clients = Loaded.clients, NEW joins \in SUBSET Key,
             Begin(s, "join", [Changed(doc) EXCEPT !.joins = joins]),
             UNCHANGED <<login, issued>>
      PROVE  Revocations'
    <2> DEFINE change == [Changed(doc) EXCEPT !.joins = joins]
    <2>1. change \in TxState /\ change.doc = doc /\ change.revokes = {}
        BY ChangedTyped DEF TxState
    <2>2. Begin(s, "join", change)
        BY <1>4
    <2> HIDE DEF change
    <2>3. QED
        BY <1>4, <2>1, <2>2, BeginKeeps, LoginTyped DEF Dead
<1>5. ASSUME NEW w \in Workspace, NEW p \in Joining, SetMembership(s, w, p)
      PROVE  Revocations'
    <2> DEFINE found == Memberships(Loaded, w, p)
               row == [present |-> TRUE, user |-> IF p \in User THEN p ELSE NoUser]
               doc == [Loaded EXCEPT !.members[<<w, p>>] = row]
    <2>1. found \in SUBSET Key
        BY DEF Memberships
    <2>2. <<w, p>> \in Key
        BY PartyAssumption DEF Key, Principal
    <2>3. row \in MemberRow
        BY DEF MemberRow
    <2> HIDE DEF row
    <2>4. doc \in State /\ doc.clients = Loaded.clients
        BY <1>1, <2>2, <2>3 DEF State
    <2>5. \/ Begin(s, "join", [Changed(doc) EXCEPT !.joins = {<<w, p>>}])
          \/ Begin(s, "join", [Changed(Loaded) EXCEPT !.joins = found])
        BY <1>5 DEF SetMembership, row
    <2>6. UNCHANGED <<login, issued>>
        BY <1>5 DEF SetMembership
    <2> HIDE DEF doc, found
    <2>7. QED
        BY <1>1, <1>4, <2>1, <2>2, <2>4, <2>5, <2>6
<1>6. ASSUME NEW w \in Workspace, NEW p \in Joining, RemoveMembership(s, w, p)
      PROVE  Revocations'
    <2> DEFINE found == Memberships(Loaded, w, p)
               members == [j \in Key |-> IF j \in found THEN NoMember ELSE Loaded.members[j]]
               doc == [Loaded EXCEPT !.members = members]
               drop(k) == [Changed(doc).drop EXCEPT !.keys = {k}]
               dropping(k) == [Changed(doc) EXCEPT !.drop = drop(k)]
               change(k) == [dropping(k) EXCEPT !.leaves = found]
    <2>1. found \in SUBSET Key
        BY DEF Memberships
    <2>2. \E k \in found : Begin(s, "leave", change(k))
        BY <1>6 DEF RemoveMembership
    <2>3. UNCHANGED <<login, issued>>
        BY <1>6 DEF RemoveMembership
    <2>4. members \in [Key -> MemberRow]
        BY <1>1 DEF State, NoMember, MemberRow
    <2> HIDE DEF found, members
    <2>5. doc \in State /\ doc.clients = Loaded.clients
        BY <1>1, <2>4 DEF State
    <2> HIDE DEF doc
    <2>6. ASSUME NEW k \in found
          PROVE  drop(k) \in Drop
        BY <2>1, <2>5, ChangedTyped DEF Drop
    <2> HIDE DEF drop
    <2>7. ASSUME NEW k \in found
          PROVE  dropping(k) \in TxState /\ dropping(k).doc = doc /\ dropping(k).revokes = {}
        BY <2>5, <2>6, ChangedTyped DEF TxState
    <2> HIDE DEF dropping
    <2>8. ASSUME NEW k \in found
          PROVE  change(k) \in TxState /\ change(k).doc = doc /\ change(k).revokes = {}
        BY <2>1, <2>7 DEF TxState
    <2> HIDE DEF change
    <2>9. QED
        BY <2>2, <2>3, <2>5, <2>8, BeginKeeps, LoginTyped DEF Dead
<1>7. QED
    BY <1>2, <1>3, <1>5, <1>6

-----------------------------------------------------------------------------
(* The statements, the Save and the answer                                 *)

\* An answer adds the revocations that what is stored by then has.
LEMMA AnswerKeeps ==
    ASSUME Revocations, NEW s \in Server, Answer(s), tx[s].pc # "idle",
           UNCHANGED <<store, issued>>, db' \in State,
           \A c \in revoked \cup tx[s].revokes : Dead(db, c)'
    PROVE  Revocations'
<1>1. EmptyState \in State /\ NoTx \in TxState /\ NoTx.pc = "idle"
      /\ NoTx.revokes = {} /\ NoTx.drop.keys = {}
    <2>1. EmptyState \in State
        BY DEF EmptyState, State, NoUserRow, UserRow, NoClientRow, ClientRow,
               NoSession, SessionRow, NoMember, MemberRow
    <2>2. NoDrop \in Drop /\ NoDrop.keys = {}
        BY DEF NoDrop, Drop
    <2>3. QED
        BY <2>1, <2>2 DEF NoTx, TxState
<1>2. tx' = [tx EXCEPT ![s] = NoTx]
    BY DEF Answer
<1>3. /\ tx' \in [Server -> TxState] /\ tx'[s] = NoTx
      /\ \A r \in Server \ {s} : tx'[r] = tx[r]
    BY <1>1, <1>2 DEF Revocations, AccessTyped
<1>4. login' \in [Server -> User \cup {NoUser}]
    <2>1. tx[s].signs \in User \cup {NoUser}
        BY DEF Revocations, AccessTyped, TxState
    <2>2. QED
        BY <2>1, LoginTyped DEF Answer
<1>5. AccessTyped'
    BY <1>3, <1>4 DEF Revocations, AccessTyped
<1>6. revoked' = revoked \cup tx[s].revokes /\ tx[s].revokes \subseteq Client
    BY DEF Answer, Revocations, AccessTyped, TxState
<1>7. (revoked \subseteq Client)' /\ RevokedForGood'
    BY <1>6 DEF Revocations, RevokedForGood, Dead
<1>8. CopiesRevoked'
    <2>1. store' = "file" => \A r \in Server : tx'[r].pc = "idle"
        BY <1>1, <1>3 DEF Revocations, CopiesRevoked
    <2>2. \A r \in Server : tx'[r].pc # "idle" =>
             \A c \in tx'[r].revokes : Dead(tx'[r].doc, c)
        BY <1>1, <1>3 DEF Revocations, CopiesRevoked
    <2>3. \A r \in Server : tx'[r].drop.keys # {} => tx'[r].revokes = {}
        BY <1>1, <1>3 DEF Revocations, CopiesRevoked
    <2>4. QED
        BY <2>1, <2>2, <2>3, ServerAssumption DEF CopiesRevoked, Dead
<1>9. QED
    BY <1>5, <1>7, <1>8 DEF Revocations

\* The statements delete no client, and take back no revocation.
LEMMA DeleteRowsKeeps ==
    ASSUME Revocations, NEW s \in Server, DeleteRows(s)
    PROVE  Revocations'
<1> DEFINE d == tx[s].drop
           gone == {i \in Slot : /\ db.sessions[i] # NoSession
                                 /\ i \in d.slots \/ db.sessions[i].user = d.user}
           sessions == [i \in Slot |-> IF i \in gone THEN NoSession ELSE db.sessions[i]]
           members == [k \in Key |-> IF k \in d.keys THEN NoMember ELSE db.members[k]]
           clients == [c \in Client |-> IF c = d.client
                          THEN [db.clients[c] EXCEPT !.revoked = TRUE] ELSE db.clients[c]]
<1>1. db' = [db EXCEPT !.sessions = sessions, !.members = members, !.clients = clients]
    BY Zenon DEF DeleteRows
<1>2. db \in State
    BY DEF Revocations, AccessTyped
<1>3. sessions \in [Slot -> SessionRow]
    BY <1>2 DEF State, NoSession, SessionRow
<1>4. members \in [Key -> MemberRow]
    BY <1>2 DEF State, NoMember, MemberRow
<1>5. /\ clients \in [Client -> ClientRow]
      /\ \A c \in Client : /\ clients[c].present = db.clients[c].present
                           /\ db.clients[c].revoked => clients[c].revoked
    BY <1>2 DEF State, ClientRow
<1>6. tx[s].pc = "drop" /\ UNCHANGED <<store, issued>>
    BY DEF DeleteRows
<1>7. \/ tx[s].drop.keys # {} /\ Answer(s)
      \/ /\ tx' = [tx EXCEPT ![s].pc = "save"]
         /\ UNCHANGED <<login, revoked>>
    BY DEF DeleteRows, history
<1> HIDE DEF sessions, members, clients
<1>8. db' \in State /\ db'.clients = clients
    BY <1>1, <1>2, <1>3, <1>4, <1>5 DEF State
<1>9. \A c \in revoked : Dead(db, c)'
    BY <1>5, <1>8 DEF Revocations, RevokedForGood, Dead
<1>10. CASE tx[s].drop.keys # {} /\ Answer(s)
    <2>1. tx[s].revokes = {}
        BY <1>10 DEF Revocations, CopiesRevoked
    <2>2. QED
        BY <1>6, <1>8, <1>9, <1>10, <2>1, AnswerKeeps
<1>11. CASE /\ tx' = [tx EXCEPT ![s].pc = "save"]
            /\ UNCHANGED <<login, revoked>>
    <2> DEFINE t == [tx[s] EXCEPT !.pc = "save"]
    <2>1. /\ t \in TxState /\ t.doc = tx[s].doc /\ t.revokes = tx[s].revokes
          /\ t.drop = tx[s].drop
        BY DEF Revocations, AccessTyped, TxState
    <2>2. tx' = [tx EXCEPT ![s] = t]
        BY <1>11
    <2> HIDE DEF t
    <2>3. /\ tx' \in [Server -> TxState] /\ tx'[s] = t
          /\ \A r \in Server \ {s} : tx'[r] = tx[r]
        BY <2>1, <2>2 DEF Revocations, AccessTyped
    <2>4. AccessTyped'
        BY <1>6, <1>8, <1>11, <2>3 DEF Revocations, AccessTyped
    <2>5. (revoked \subseteq Client)' /\ RevokedForGood'
        BY <1>9, <1>11 DEF Revocations, RevokedForGood, Dead
    <2>6. store' = "file" => \A r \in Server \ {Primary} : tx'[r].pc = "idle"
        BY <1>6, <2>3 DEF Revocations, CopiesRevoked
    <2>7. store' = "file" => \A c \in revoked' : Dead(tx'[Primary].doc, c)
                             \/ tx'[Primary].pc = "idle"
        BY <1>6, <1>11, <2>1, <2>3, ServerAssumption DEF Revocations, CopiesRevoked
    <2>8. \A r \in Server : tx'[r].pc # "idle" =>
             \A c \in tx'[r].revokes : Dead(tx'[r].doc, c)
        BY <1>6, <2>1, <2>3 DEF Revocations, CopiesRevoked
    <2>9. \A r \in Server : tx'[r].drop.keys # {} => tx'[r].revokes = {}
        BY <2>1, <2>3 DEF Revocations, CopiesRevoked
    <2>10. CopiesRevoked'
        BY <2>6, <2>7, <2>8, <2>9 DEF CopiesRevoked, Dead
    <2>11. QED
        BY <2>4, <2>5, <2>10 DEF Revocations
<1>12. QED
    BY <1>7, <1>10, <1>11

\* A merge keeps the revocations of the database and adds those of the copy.
LEMMA MergedKeeps ==
    ASSUME NEW doc \in State, db \in State
    PROVE  /\ Merged(doc) \in State
           /\ \A c \in Client : Dead(db, c) \/ Dead(doc, c) => Dead(Merged(doc), c)
<1> DEFINE users == [u \in User |->
                        IF doc.users[u].present
                        THEN [doc.users[u] EXCEPT
                                 !.password = doc.users[u].password \/ db.users[u].password]
                        ELSE db.users[u]]
           clients == [c \in Client |->
                          IF doc.clients[c].present
                          THEN ClientMerged(db.clients[c], doc.clients[c])
                          ELSE db.clients[c]]
           sessions == [i \in Slot |->
                           IF db.sessions[i] = NoSession THEN doc.sessions[i]
                           ELSE db.sessions[i]]
           members == [k \in Key |->
                          IF doc.members[k].present
                          THEN [doc.members[k] EXCEPT
                                   !.user = IF doc.members[k].user # NoUser
                                            THEN doc.members[k].user
                                            ELSE db.members[k].user]
                          ELSE db.members[k]]
<1>1. Merged(doc) = [users |-> users, clients |-> clients, sessions |-> sessions,
                     workspaces |-> db.workspaces \cup doc.workspaces,
                     members |-> members, accounts |-> db.accounts \/ doc.accounts,
                     workspaceMigrated |-> db.workspaceMigrated \/ doc.workspaceMigrated,
                     userDeviceMigrated |-> db.userDeviceMigrated \/ doc.userDeviceMigrated]
    BY Zenon DEF Merged
<1>2. users \in [User -> UserRow]
    BY DEF State, UserRow
<1>3. /\ clients \in [Client -> ClientRow]
      /\ \A c \in Client : Dead(db, c) \/ Dead(doc, c) =>
            clients[c].present /\ clients[c].revoked
    BY DEF State, ClientRow, ClientMerged, Dead
<1>4. sessions \in [Slot -> SessionRow]
    BY DEF State
<1>5. members \in [Key -> MemberRow]
    BY DEF State, MemberRow
<1> HIDE DEF users, clients, sessions, members
<1>6. Merged(doc) \in State /\ Merged(doc).clients = clients
    BY <1>1, <1>2, <1>3, <1>4, <1>5 DEF State
<1>7. QED
    BY <1>3, <1>6 DEF Dead

\* A file is replaced by a copy that has every revocation; a merge keeps them.
LEMMA SaveKeeps ==
    ASSUME Revocations, NEW s \in Server, Save(s)
    PROVE  Revocations'
<1> DEFINE doc == tx[s].doc
<1>1. tx[s].pc = "save" /\ Answer(s) /\ UNCHANGED <<store, issued>>
    BY DEF Save
<1>2. doc \in State /\ db \in State /\ tx[s].revokes \subseteq Client
    BY DEF Revocations, AccessTyped, TxState
<1>3. \A c \in tx[s].revokes : Dead(doc, c)
    BY <1>1 DEF Revocations, CopiesRevoked
<1>4. CASE store = "file"
    <2>1. db' = doc
        BY <1>4 DEF Save
    <2>2. \A c \in revoked : Dead(doc, c)
        BY <1>1, <1>4 DEF Revocations, CopiesRevoked
    <2>3. \A c \in revoked \cup tx[s].revokes : Dead(db, c)'
        BY <1>3, <2>1, <2>2 DEF Dead
    <2>4. QED
        BY <1>1, <1>2, <2>1, <2>3, AnswerKeeps
<1>5. CASE store # "file"
    <2> DEFINE norm == normalizeState(doc)
    <2>1. db' = Merged(norm)
        BY <1>5 DEF Save
    <2>2. norm \in State /\ \A c \in Client : Dead(doc, c) => Dead(norm, c)
        BY <1>2, normalizeStateKeeps DEF Dead
    <2> HIDE DEF norm
    <2>3. /\ Merged(norm) \in State
          /\ \A c \in Client : Dead(db, c) \/ Dead(norm, c) => Dead(Merged(norm), c)
        BY <1>2, <2>2, MergedKeeps
    <2>4. \A c \in revoked : Dead(db, c)
        BY DEF Revocations, RevokedForGood, Dead
    <2>5. \A c \in revoked \cup tx[s].revokes : Dead(Merged(norm), c)
        BY <1>2, <1>3, <2>2, <2>3, <2>4 DEF Revocations
    <2>6. \A c \in revoked \cup tx[s].revokes : Dead(db, c)'
        BY <2>1, <2>5 DEF Dead
    <2>7. QED
        BY <1>1, <2>1, <2>3, <2>6, AnswerKeeps
<1>6. QED
    BY <1>4, <1>5

-----------------------------------------------------------------------------
(* The theorem                                                             *)

\* At the start nothing is revoked and nothing is under way.
LEMMA InitRevocations == Init => Revocations
<1> SUFFICES ASSUME Init PROVE Revocations
    OBVIOUS
<1>1. NoTx \in TxState /\ NoTx.pc = "idle" /\ NoTx.drop.keys = {} /\ EmptyState \in State
    <2>1. EmptyState \in State
        BY DEF EmptyState, State, NoUserRow, UserRow, NoClientRow, ClientRow,
               NoSession, SessionRow, NoMember, MemberRow
    <2>2. NoDrop \in Drop /\ NoDrop.keys = {}
        BY DEF NoDrop, Drop
    <2>3. QED
        BY <2>1, <2>2 DEF NoTx, TxState
<1>2. ASSUME NEW cs \in SUBSET Legacy, NEW accounts \in BOOLEAN
      PROVE  LegacyState(cs, accounts) \in State
    <2> DEFINE clients == [c \in Client |-> [NoClientRow EXCEPT !.present = c \in cs]]
    <2>1. clients \in [Client -> ClientRow]
        <3>1. \A b \in BOOLEAN : [NoClientRow EXCEPT !.present = b] \in ClientRow
            BY DEF NoClientRow, ClientRow
        <3>2. \A c \in Client : (c \in cs) \in BOOLEAN
            OBVIOUS
        <3>3. QED
            BY <3>1, <3>2, Zenon
    <2>2. LegacyState(cs, accounts) =
             [EmptyState EXCEPT !.accounts = accounts, !.clients = clients]
        BY DEF LegacyState
    <2> HIDE DEF clients
    <2>3. QED
        BY <1>1, <2>1, <2>2 DEF State
<1>3. db \in State
    BY <1>2 DEF Init
<1>4. AccessTyped
    BY <1>1, <1>3, StoreAssumption DEF Init, AccessTyped
<1>5. revoked = {}
    BY DEF Init
<1>6. CopiesRevoked
    BY <1>1, ServerAssumption DEF Init, CopiesRevoked
<1>7. QED
    BY <1>4, <1>5, <1>6 DEF Revocations, RevokedForGood

\* Every step keeps the invariant.
LEMMA NextRevocations == Revocations /\ [Next]_vars => Revocations'
<1> SUFFICES ASSUME Revocations, [Next]_vars PROVE Revocations'
    OBVIOUS
<1>1. ASSUME NEW s \in Server, UserStep(s)
      PROVE  Revocations'
    BY <1>1, UsersKeep, AuthenticateUserKeeps, ClientsKeep DEF UserStep
<1>2. ASSUME NEW s \in Server, ClientStep(s)
      PROVE  Revocations'
    BY <1>2, ClientsKeep DEF ClientStep
<1>3. ASSUME NEW s \in Server, WorkspaceStep(s)
      PROVE  Revocations'
    BY <1>3, PoolsKeep DEF WorkspaceStep
<1>4. CASE Next
    BY <1>1, <1>2, <1>3, <1>4, SessionsKeep, PoolsKeep, DeleteRowsKeeps, SaveKeeps DEF Next
<1>5. CASE UNCHANGED vars
    BY <1>5 DEF vars, history, Revocations, AccessTyped, RevokedForGood, CopiesRevoked, Dead
<1>6. QED
    BY <1>4, <1>5

\* clients.go, devices.go: a client whose revocation was answered stays revoked
\* in what every server reads, whatever copies from before it are saved later.
THEOREM RevocationsLast == Spec => []RevokedForGood
<1>1. Revocations => RevokedForGood
    BY DEF Revocations
<1>2. QED
    BY <1>1, InitRevocations, NextRevocations, PTL DEF Spec
=============================================================================
