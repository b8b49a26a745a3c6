------------------------- MODULE AccessHistoryProofs -------------------------
(***************************************************************************)
(* What the state of Access remembers: rows refer to rows that are there   *)
(* (AccessTypeOK), a client made after the upgrade is not taken for an     *)
(* older one (NeverRetrofitted, EnrolledOnce), and what was ended or taken *)
(* away stays away (GoneForGood).  For any number of servers, users,       *)
(* clients and workspaces, with files and with Postgres.                   *)
(*                                                                         *)
(* The difficulty is in the copies that servers hold while others save:    *)
(* each part of the invariant says something of the stored state and of    *)
(* every copy that may be merged into it later.                            *)
(***************************************************************************)
EXTENDS AccessProofs

Busy(s) == tx[s].pc # "idle"
Copy(s) == tx[s].doc

-----------------------------------------------------------------------------
(* The invariant                                                           *)

\* The histories are about sessions, rows and clients that there can be.
Scoped ==
    /\ issued \in 0..MaxLogins /\ begun \in 0..MaxOperations
    /\ ended \subseteq 1..issued
    /\ removed \subseteq Key /\ granted \subseteq Key
    /\ made \subseteq Client \ Device /\ late \subseteq made
    /\ exposed \in [tokens : SUBSET (1..issued), keys : SUBSET Key]

\* The rows of doc refer to rows of doc.
BondedClients(doc) ==
    \A c \in Client : doc.clients[c].user # NoUser =>
        doc.clients[c].present /\ doc.users[doc.clients[c].user].present
BondedSessions(doc) ==
    \A i \in Slot : doc.sessions[i] # NoSession =>
        /\ doc.sessions[i].token # 0 /\ doc.sessions[i].user \in User
        /\ doc.users[doc.sessions[i].user].present
BondedMembers(doc) ==
    \A k \in Key : doc.members[k].present =>
        /\ k[1] \in doc.workspaces
        /\ IF k[2] \in User THEN doc.users[k[2]].present ELSE doc.clients[k[2]].present
Bonded(doc) == BondedClients(doc) /\ BondedSessions(doc) /\ BondedMembers(doc)

AllBonded == Bonded(db) /\ \A s \in Server : Bonded(Copy(s))

\* A user who has logged in is stored, and a server at rest remembers nothing.
LoginsKnown == \A s \in Server : login[s] # NoUser => db.users[login[s]].present
IdleBlank == \A s \in Server : ~ Busy(s) => tx[s] = NoTx

\* Nobody and nothing of old is missing in new: only sessions and memberships
\* are ever taken away.
Grown(old, new) ==
    /\ \A u \in User : old.users[u].present => new.users[u].present
    /\ \A c \in Client : old.clients[c].present => new.clients[c].present
    /\ old.workspaces \subseteq new.workspaces
    /\ old.accounts => new.accounts
    /\ old.workspaceMigrated => new.workspaceMigrated

\* With files a copy replaces the state, so it has all of it (stateMu).
FileCopies == store = "file" => \A s \in Server : Busy(s) => Grown(db, Copy(s))

\* What is known of an operation under way, whatever others do meanwhile: what
\* it ends and takes is not in its copy, and a removal does nothing else.
Sound(t) ==
    /\ t.ends \subseteq 1..issued
    /\ \A i \in Slot : t.doc.sessions[i].token \notin t.ends
    /\ t.makes \subseteq Client \ Device
    /\ \A k \in t.leaves : ~ t.doc.members[k].present
    /\ t.leaves # {} => t.drop.keys # {} /\ t.doc.workspaces # {}
    /\ t.drop.keys \subseteq t.leaves
    /\ t.drop.keys # {} => t.makes = {} /\ t.joins = {} /\ t.ends = {} /\ t.signs = NoUser
    /\ t.makes # {} => ~ LegacyFlatPool(t.doc)
    /\ t.signs # NoUser => t.doc.users[t.signs].present
    /\ t.pc # "idle" => t.doc.userDeviceMigrated
    /\ store = "postgres" /\ t.pc = "save" => t.drop.keys = {}
    /\ t.pc = "drop" =>
          /\ store = "postgres"
          /\ \A i \in Slot : t.doc.sessions[i] # NoSession =>
                i \notin t.drop.slots /\ t.doc.sessions[i].user # t.drop.user

AllSound == \A s \in Server : Sound(tx[s])

\* A client, no device, that a copy has and the stored state has not is being
\* made by that operation.
Foreseen ==
    \A s \in Server, c \in Client \ Device :
        Copy(s).clients[c].present => db.clients[c].present \/ c \in tx[s].makes

\* A client that this version has made, or is about to make, has no user in the
\* stored state nor in any copy, and once it is stored users are not made up.
Making(c) == c \in made \/ \E s \in Server : c \in tx[s].makes

Unfitted ==
    \A c \in Client : Making(c) =>
        /\ db.clients[c].user = NoUser
        /\ db.clients[c].present => db.userDeviceMigrated
        /\ \A s \in Server : Copy(s).clients[c].user = NoUser

\* A copy has memberships only of clients that are stored.
MembersKnown ==
    \A s \in Server, k \in Key :
        Copy(s).members[k].present /\ k[2] \in Client => db.clients[k[2]].present

\* While the flat pool is stored every copy has it migrated, and no client that
\* is being made is stored; otherwise a copy is as far as the stored state.
PoolMigrated ==
    \A s \in Server : Busy(s) =>
        /\ Copy(s).workspaceMigrated => db.workspaceMigrated \/ LegacyFlatPool(db)
        /\ LegacyFlatPool(db) =>
              Copy(s).workspaceMigrated /\ \A c \in tx[s].makes : ~ db.clients[c].present

\* A client made when the pool was migrated is in the default workspace, stored
\* or in a copy, only by an administrator, and no copy will enrol it.
Settled(c) ==
    \/ c \in late
    \/ \E s \in Server : c \in tx[s].makes /\ Copy(s).workspaceMigrated

Enrolments ==
    \A c \in Client : Settled(c) =>
        /\ c \in late => db.workspaceMigrated
        /\ db.members[<<DefaultWorkspace, c>>].present => <<DefaultWorkspace, c>> \in granted
        /\ \A s \in Server :
              /\ Copy(s).members[<<DefaultWorkspace, c>>].present =>
                    <<DefaultWorkspace, c>> \in granted \cup tx[s].joins
              /\ Copy(s).clients[c].present /\ ~ Copy(s).workspaceMigrated =>
                    c \in tx[s].makes

\* The rows seen in slot i, stored or in a copy: a token is in one slot only,
\* and its row is the same wherever it is.
Seen(i) == {db.sessions[i]} \cup {Copy(s).sessions[i] : s \in Server}

Numbered == \A i \in Slot : \A x \in Seen(i) : x.token <= issued

Agreed ==
    \A i, j \in Slot : \A x \in Seen(i), y \in Seen(j) :
        x.token = y.token /\ x.token # 0 => i = j /\ x = y

\* Token t is that of a session in doc.
Has(doc, t) == \E i \in Slot : doc.sessions[i].token = t

\* A session that a copy has and the stored state has not is new, and nobody
\* has ended it or is about to, unless its deletion was seen to come too early.
Unended ==
    \A s \in Server : \A t \in (1..issued) \ exposed.tokens :
        Has(Copy(s), t) /\ ~ Has(db, t) =>
            t \notin ended /\ \A r \in Server : t \notin tx[r].ends

\* The statement of an operation deletes all the sessions that it will have
\* ended, and then they are gone.
Covered ==
    \A s \in Server : \A t \in tx[s].ends \ exposed.tokens :
        /\ tx[s].pc = "drop" => \A i \in Slot : db.sessions[i].token = t =>
              i \in tx[s].drop.slots \/ db.sessions[i].user = tx[s].drop.user
        /\ store = "postgres" /\ tx[s].pc = "save" => ~ Has(db, t)

EndedGone == \A t \in ended \ exposed.tokens : ~ Has(db, t)

\* What was taken away is not stored, is not enrolled again, and is in no copy
\* but one that gives it anew.
RemovedGone ==
    \A k \in removed \ exposed.keys :
        /\ ~ db.members[k].present /\ db.workspaces # {}
        /\ \A s \in Server : Busy(s) /\ normalizeState(Copy(s)).members[k].present =>
              k \in tx[s].joins

\* The inductive invariant.
Remembering ==
    /\ Revocations /\ store \in Stores
    /\ Scoped /\ AllBonded /\ LoginsKnown /\ IdleBlank /\ FileCopies /\ AllSound
    /\ Foreseen /\ Unfitted
    /\ MembersKnown /\ PoolMigrated /\ Enrolments
    /\ Numbered /\ Agreed /\ Unended /\ Covered /\ EndedGone
    /\ RemovedGone

-----------------------------------------------------------------------------
(* The migrations and the merge                                            *)

\* What migrateDefaultWorkspace does: it adds the default workspace, enrols the
\* clients of a flat pool in it, and touches nothing else.
LEMMA EnrolledFacts ==
    ASSUME NEW doc \in State, NEW flat \in BOOLEAN, NEW e, e = Enrolled(doc, flat)
    PROVE  /\ e \in State
           /\ e.users = doc.users /\ e.clients = doc.clients /\ e.sessions = doc.sessions
           /\ e.accounts = doc.accounts /\ e.workspaces = PoolWorkspaces(doc)
           /\ e.workspaceMigrated = (doc.workspaceMigrated \/ flat)
           /\ e.userDeviceMigrated = doc.userDeviceMigrated
           /\ \A k \in Key : e.members[k].present <=>
                 \/ doc.members[k].present
                 \/ /\ flat /\ k[1] = DefaultWorkspace
                    /\ k[2] \in Client /\ doc.clients[k[2]].present
<1> DEFINE members ==
               [k \in Key |->
                   IF /\ flat /\ ~ doc.members[k].present
                      /\ k[1] = DefaultWorkspace
                      /\ k[2] \in Client /\ doc.clients[k[2]].present
                   THEN [present |-> TRUE, user |-> NoUser] ELSE doc.members[k]]
           migrated == doc.workspaceMigrated \/ flat
<1>1. e = [doc EXCEPT !.workspaces = PoolWorkspaces(doc), !.members = members,
                      !.workspaceMigrated = migrated]
    BY DEF Enrolled
<1>2. PoolWorkspaces(doc) \in SUBSET Workspace
    BY PartyAssumption DEF PoolWorkspaces, State
<1>3. members \in [Key -> MemberRow]
    BY DEF State, MemberRow
<1>4. \A k \in Key : members[k].present <=>
         \/ doc.members[k].present
         \/ /\ flat /\ k[1] = DefaultWorkspace
            /\ k[2] \in Client /\ doc.clients[k[2]].present
    BY DEF State, MemberRow
<1>5. migrated \in BOOLEAN
    BY DEF State
<1> HIDE DEF members
<1>6. QED
    BY <1>1, <1>2, <1>3, <1>4, <1>5 DEF State

\* What migrateUsersAndDevices does: it makes up users without a password for
\* the clients without one, unless it has run before, and tells memberships.
LEMMA UsersMigratedFacts ==
    ASSUME NEW doc \in State, NEW m, m = UsersMigrated(doc)
    PROVE  /\ m \in State
           /\ m.sessions = doc.sessions /\ m.workspaces = doc.workspaces
           /\ m.accounts = doc.accounts /\ m.workspaceMigrated = doc.workspaceMigrated
           /\ m.userDeviceMigrated
           /\ \A u \in User : /\ doc.users[u].present => m.users[u].present
                              /\ m.users[u].password => m.users[u] = doc.users[u]
           /\ \A c \in Client :
                 /\ m.clients[c].present = doc.clients[c].present
                 /\ \/ m.clients[c].user = doc.clients[c].user
                    \/ /\ ~ doc.userDeviceMigrated /\ doc.clients[c].present
                       /\ m.clients[c].user \in User
                       /\ m.users[m.clients[c].user].present
           /\ \A k \in Key : m.members[k].present = doc.members[k].present
<1> DEFINE adopted == {c \in Client : /\ Unmigrated(doc) /\ doc.clients[c].present
                                      /\ doc.clients[c].user = NoUser}
           users == [u \in User |->
                        IF \E c \in adopted : SyntheticUser[c] = u
                        THEN [NoUserRow EXCEPT !.present = TRUE] ELSE doc.users[u]]
           clients == [c \in Client |->
                          IF c \in adopted
                          THEN [doc.clients[c] EXCEPT !.user = SyntheticUser[c]]
                          ELSE doc.clients[c]]
           members == [k \in Key |->
                          IF k[2] \in adopted /\ doc.members[k].present
                             /\ doc.members[k].user = NoUser
                          THEN [doc.members[k] EXCEPT !.user = SyntheticUser[k[2]]]
                          ELSE doc.members[k]]
<1>1. /\ users \in [User -> UserRow]
      /\ \A u \in User : /\ doc.users[u].present => users[u].present
                         /\ users[u].password => users[u] = doc.users[u]
                         /\ (\E c \in adopted : SyntheticUser[c] = u) => users[u].present
    BY DEF State, UserRow, NoUserRow
<1>2. \A c \in adopted : /\ c \in Client /\ SyntheticUser[c] \in User
                         /\ ~ doc.userDeviceMigrated /\ doc.clients[c].present
    BY PartyAssumption DEF Unmigrated
<1>3. clients \in [Client -> ClientRow]
    BY <1>2 DEF State, ClientRow
<1>4. \A c \in Client : /\ clients[c].present = doc.clients[c].present
                        /\ \/ clients[c].user = doc.clients[c].user
                           \/ c \in adopted /\ clients[c].user = SyntheticUser[c]
    BY <1>2 DEF State, ClientRow
<1>5. \A c \in Client : \/ clients[c].user = doc.clients[c].user
                        \/ /\ ~ doc.userDeviceMigrated /\ doc.clients[c].present
                           /\ clients[c].user \in User
                           /\ users[clients[c].user].present
    BY <1>1, <1>2, <1>4
<1>6. members \in [Key -> MemberRow] /\ \A k \in Key : members[k].present = doc.members[k].present
    BY <1>2 DEF State, MemberRow
<1>7. m = [doc EXCEPT !.users = users, !.clients = clients,
                      !.members = members, !.userDeviceMigrated = TRUE]
    BY DEF UsersMigrated
<1> HIDE DEF adopted, users, clients, members
<1>8. /\ m.users = users /\ m.clients = clients /\ m.members = members
      /\ m.userDeviceMigrated = TRUE
      /\ m.sessions = doc.sessions /\ m.workspaces = doc.workspaces
      /\ m.accounts = doc.accounts /\ m.workspaceMigrated = doc.workspaceMigrated
    BY <1>7 DEF State
<1>9. m \in State
    BY <1>1, <1>3, <1>6, <1>7 DEF State
<1> HIDE DEF State
<1>10. QED
    BY <1>1, <1>4, <1>5, <1>6, <1>8, <1>9

\* Both migrations: what a Load makes of the stored state, and a Save in
\* Postgres of the copy.
LEMMA Normalized ==
    ASSUME NEW doc \in State, NEW n, n = normalizeState(doc)
    PROVE  /\ n \in State /\ Grown(doc, n)
           /\ n.sessions = doc.sessions /\ n.accounts = doc.accounts
           /\ n.workspaces = PoolWorkspaces(doc)
           /\ n.workspaceMigrated = (doc.workspaceMigrated \/ LegacyFlatPool(doc))
           /\ n.userDeviceMigrated
           /\ \A u \in User : n.users[u].password => n.users[u] = doc.users[u]
           /\ \A c \in Client :
                 /\ n.clients[c].present = doc.clients[c].present
                 /\ \/ n.clients[c].user = doc.clients[c].user
                    \/ /\ ~ doc.userDeviceMigrated /\ doc.clients[c].present
                       /\ n.clients[c].user \in User
                       /\ n.users[n.clients[c].user].present
           /\ \A k \in Key : n.members[k].present <=>
                 \/ doc.members[k].present
                 \/ /\ LegacyFlatPool(doc) /\ k[1] = DefaultWorkspace
                    /\ k[2] \in Client /\ doc.clients[k[2]].present
           /\ ~ LegacyFlatPool(n)
<1>1. LegacyFlatPool(doc) \in BOOLEAN
    BY DEF LegacyFlatPool
<1>2. PICK e : e = Enrolled(doc, LegacyFlatPool(doc))
    OBVIOUS
<1>3. n = UsersMigrated(e)
    BY <1>2 DEF normalizeState
<1>4. /\ e \in State
      /\ e.users = doc.users /\ e.clients = doc.clients /\ e.sessions = doc.sessions
      /\ e.accounts = doc.accounts /\ e.workspaces = PoolWorkspaces(doc)
      /\ e.workspaceMigrated = (doc.workspaceMigrated \/ LegacyFlatPool(doc))
      /\ e.userDeviceMigrated = doc.userDeviceMigrated
      /\ \A k \in Key : e.members[k].present <=>
            \/ doc.members[k].present
            \/ /\ LegacyFlatPool(doc) /\ k[1] = DefaultWorkspace
               /\ k[2] \in Client /\ doc.clients[k[2]].present
    BY <1>1, <1>2, EnrolledFacts
<1>5. /\ n \in State
      /\ n.sessions = e.sessions /\ n.workspaces = e.workspaces
      /\ n.accounts = e.accounts /\ n.workspaceMigrated = e.workspaceMigrated
      /\ n.userDeviceMigrated
      /\ \A u \in User : /\ e.users[u].present => n.users[u].present
                         /\ n.users[u].password => n.users[u] = e.users[u]
      /\ \A c \in Client :
            /\ n.clients[c].present = e.clients[c].present
            /\ \/ n.clients[c].user = e.clients[c].user
               \/ /\ ~ e.userDeviceMigrated /\ e.clients[c].present
                  /\ n.clients[c].user \in User
                  /\ n.users[n.clients[c].user].present
      /\ \A k \in Key : n.members[k].present = e.members[k].present
    BY <1>3, <1>4, UsersMigratedFacts
<1>6. doc.workspaces \subseteq n.workspaces
    BY <1>4, <1>5 DEF PoolWorkspaces
<1>7. Grown(doc, n)
  <2>1. \A u \in User : doc.users[u].present => n.users[u].present
      BY <1>4, <1>5
  <2>2. \A c \in Client : doc.clients[c].present => n.clients[c].present
      BY <1>4, <1>5
  <2>3. /\ doc.accounts => n.accounts
        /\ doc.workspaceMigrated => n.workspaceMigrated
      BY <1>4, <1>5
  <2>4. QED
      BY <1>6, <2>1, <2>2, <2>3 DEF Grown
<1>8. ~ LegacyFlatPool(n)
    BY <1>4, <1>5, <1>6 DEF LegacyFlatPool
<1>9. /\ n.sessions = doc.sessions /\ n.accounts = doc.accounts
      /\ n.workspaces = PoolWorkspaces(doc)
      /\ n.workspaceMigrated = (doc.workspaceMigrated \/ LegacyFlatPool(doc))
    BY <1>4, <1>5
<1>10. /\ \A u \in User : n.users[u].password => n.users[u] = doc.users[u]
       /\ \A c \in Client :
             /\ n.clients[c].present = doc.clients[c].present
             /\ \/ n.clients[c].user = doc.clients[c].user
                \/ /\ ~ doc.userDeviceMigrated /\ doc.clients[c].present
                   /\ n.clients[c].user \in User
                   /\ n.users[n.clients[c].user].present
    BY <1>4, <1>5
<1>11. \A k \in Key : n.members[k].present <=>
            \/ doc.members[k].present
            \/ /\ LegacyFlatPool(doc) /\ k[1] = DefaultWorkspace
               /\ k[2] \in Client /\ doc.clients[k[2]].present
    BY <1>4, <1>5
<1>12. QED
    BY <1>5, <1>7, <1>8, <1>9, <1>10, <1>11

\* The migrations leave no reference open.
LEMMA NormalizedBonded ==
    ASSUME NEW doc \in State, Bonded(doc), NEW n, n = normalizeState(doc)
    PROVE  Bonded(n)
<1>1. /\ n \in State /\ Grown(doc, n)
      /\ n.sessions = doc.sessions /\ n.workspaces = PoolWorkspaces(doc)
      /\ \A c \in Client :
            /\ n.clients[c].present = doc.clients[c].present
            /\ \/ n.clients[c].user = doc.clients[c].user
               \/ /\ doc.clients[c].present /\ n.clients[c].user \in User
                  /\ n.users[n.clients[c].user].present
      /\ \A k \in Key : n.members[k].present <=>
            \/ doc.members[k].present
            \/ /\ LegacyFlatPool(doc) /\ k[1] = DefaultWorkspace
               /\ k[2] \in Client /\ doc.clients[k[2]].present
    BY Normalized
<1>2. \A c \in Client : doc.clients[c].user \in User \cup {NoUser}
    BY DEF State, ClientRow
<1>3. BondedClients(n)
    BY <1>1, <1>2 DEF Bonded, BondedClients, Grown
<1>4. BondedSessions(n)
    BY <1>1 DEF Bonded, BondedSessions, Grown
<1>5. ASSUME NEW k \in Key, n.members[k].present
      PROVE  /\ k[1] \in n.workspaces
             /\ IF k[2] \in User THEN n.users[k[2]].present ELSE n.clients[k[2]].present
    <2>1. k[2] \in User \/ k[2] \in Client
        BY DEF Key, Principal
    <2>2. CASE doc.members[k].present
        BY <1>1, <2>1, <2>2 DEF Bonded, BondedMembers, Grown
    <2>3. CASE /\ LegacyFlatPool(doc) /\ k[1] = DefaultWorkspace
               /\ k[2] \in Client /\ doc.clients[k[2]].present
        <3>1. k[1] \in n.workspaces
            BY <1>1, <2>3 DEF PoolWorkspaces, LegacyFlatPool
        <3>2. k[2] \notin User /\ n.clients[k[2]].present
            BY <1>1, <2>3, PartyAssumption
        <3>3. QED
            BY <3>1, <3>2
    <2>4. QED
        BY <1>1, <1>5, <2>2, <2>3
<1>6. QED
    BY <1>3, <1>4, <1>5 DEF Bonded, BondedMembers

\* What savePostgresState stores: the rows of both, those of sessions as they
\* were, of clients and memberships with what is not empty.
LEMMA MergedFacts ==
    ASSUME db \in State, NEW doc \in State, NEW m, m = Merged(doc)
    PROVE  /\ m \in State /\ Grown(db, m) /\ Grown(doc, m)
           /\ m.workspaces = db.workspaces \cup doc.workspaces
           /\ m.accounts = (db.accounts \/ doc.accounts)
           /\ m.workspaceMigrated = (db.workspaceMigrated \/ doc.workspaceMigrated)
           /\ m.userDeviceMigrated = (db.userDeviceMigrated \/ doc.userDeviceMigrated)
           /\ \A c \in Client :
                 /\ m.clients[c].present = (db.clients[c].present \/ doc.clients[c].present)
                 /\ m.clients[c].user \in {db.clients[c].user, doc.clients[c].user}
           /\ \A i \in Slot : m.sessions[i] = IF db.sessions[i] = NoSession
                                              THEN doc.sessions[i] ELSE db.sessions[i]
           /\ \A k \in Key :
                 m.members[k].present = (db.members[k].present \/ doc.members[k].present)
<1> DEFINE users == [u \in User |->
                        IF doc.users[u].present
                        THEN [doc.users[u] EXCEPT
                                 !.password = doc.users[u].password \/ db.users[u].password]
                        ELSE db.users[u]]
           clients == [c \in Client |->
                          IF doc.clients[c].present
                          THEN ClientMerged(db.clients[c], doc.clients[c])
                          ELSE db.clients[c]]
           sessions == [i \in Slot |->
                           IF db.sessions[i] = NoSession THEN doc.sessions[i]
                           ELSE db.sessions[i]]
           members == [k \in Key |->
                          IF doc.members[k].present
                          THEN [doc.members[k] EXCEPT
                                   !.user = IF doc.members[k].user # NoUser
                                            THEN doc.members[k].user
                                            ELSE db.members[k].user]
                          ELSE db.members[k]]
<1>1. m = [users |-> users, clients |-> clients, sessions |-> sessions,
           workspaces |-> db.workspaces \cup doc.workspaces,
           members |-> members, accounts |-> db.accounts \/ doc.accounts,
           workspaceMigrated |-> db.workspaceMigrated \/ doc.workspaceMigrated,
           userDeviceMigrated |-> db.userDeviceMigrated \/ doc.userDeviceMigrated]
    BY Zenon DEF Merged
<1>2. m \in State
    BY MergedKeeps
<1>3. \A u \in User : users[u].present = (db.users[u].present \/ doc.users[u].present)
    BY DEF State, UserRow
<1>4. \A c \in Client :
         /\ clients[c].present = (db.clients[c].present \/ doc.clients[c].present)
         /\ clients[c].user \in {db.clients[c].user, doc.clients[c].user}
    BY DEF State, ClientRow, ClientMerged
<1>5. \A k \in Key : members[k].present = (db.members[k].present \/ doc.members[k].present)
    BY DEF State, MemberRow
<1>6. \A i \in Slot : sessions[i] = IF db.sessions[i] = NoSession
                                    THEN doc.sessions[i] ELSE db.sessions[i]
    OBVIOUS
<1> HIDE DEF users, clients, sessions, members
<1>7. /\ m.users = users /\ m.clients = clients /\ m.sessions = sessions
      /\ m.workspaces = db.workspaces \cup doc.workspaces
      /\ m.members = members /\ m.accounts = (db.accounts \/ doc.accounts)
      /\ m.workspaceMigrated = (db.workspaceMigrated \/ doc.workspaceMigrated)
      /\ m.userDeviceMigrated = (db.userDeviceMigrated \/ doc.userDeviceMigrated)
    BY <1>1
<1>8. Grown(db, m) /\ Grown(doc, m)
    BY <1>3, <1>4, <1>7 DEF Grown, State
<1>9. QED
    BY <1>2, <1>4, <1>5, <1>6, <1>7, <1>8

\* A merge leaves no reference open, for each side brings its own rows.
LEMMA MergedBonded ==
    ASSUME db \in State, Bonded(db), NEW doc \in State, Bonded(doc), NEW m, m = Merged(doc)
    PROVE  Bonded(m)
<1>1. /\ Grown(db, m) /\ Grown(doc, m)
      /\ \A c \in Client : m.clients[c].user \in {db.clients[c].user, doc.clients[c].user}
      /\ \A i \in Slot : m.sessions[i] = IF db.sessions[i] = NoSession
                                         THEN doc.sessions[i] ELSE db.sessions[i]
      /\ \A k \in Key :
            m.members[k].present = (db.members[k].present \/ doc.members[k].present)
    BY MergedFacts
<1>2. \A c \in Client : /\ db.clients[c].user \in User \cup {NoUser}
                        /\ doc.clients[c].user \in User \cup {NoUser}
    BY DEF State, ClientRow
<1>3. BondedClients(m)
    BY <1>1, <1>2 DEF Bonded, BondedClients, Grown
<1>4. BondedSessions(m)
    BY <1>1 DEF Bonded, BondedSessions, Grown
<1>5. \A k \in Key : k[2] \in User \/ k[2] \in Client
    BY DEF Key, Principal
<1>6. BondedMembers(m)
    BY <1>1, <1>5 DEF Bonded, BondedMembers, Grown
<1>7. QED
    BY <1>3, <1>4, <1>6 DEF Bonded

-----------------------------------------------------------------------------
(* How an operation begins                                                 *)

\* The clients of a copy are those that were loaded and those it makes; a user
\* is given only to a device.
ClientsFrom(doc, makes) ==
    \A c \in Client :
        /\ doc.clients[c].present => Loaded.clients[c].present \/ c \in makes \cup Device
        /\ \/ doc.clients[c].user \in {Loaded.clients[c].user, NoUser}
           \/ /\ c \in Device /\ doc.clients[c].present
              /\ doc.clients[c].user \in User /\ Loaded.users[doc.clients[c].user].present

\* The sessions of a copy are those that were loaded, and at most one is new.
SessionsFrom(s, doc, next) ==
    \A i \in Slot : doc.sessions[i] \notin {Loaded.sessions[i], NoSession} =>
        /\ doc.sessions[i] = [token |-> issued + 1, user |-> login[s]]
        /\ next = issued + 1 /\ login[s] # NoUser
        /\ \A j \in Slot : doc.sessions[j] \notin {Loaded.sessions[j], NoSession} => i = j

\* The members of a copy are those that were loaded and those it gives.
MembersFrom(doc, joins) ==
    \A k \in Key : doc.members[k].present =>
        \/ Loaded.members[k].present
        \/ /\ k \in joins /\ k[1] \in Loaded.workspaces
           /\ IF k[2] \in User THEN Loaded.users[k[2]].present
                               ELSE Loaded.clients[k[2]].present

Copied(s, t, next) ==
    /\ Grown(Loaded, t.doc)
    /\ t.doc.workspaceMigrated = Loaded.workspaceMigrated /\ t.doc.userDeviceMigrated
    /\ ClientsFrom(t.doc, t.makes)
    /\ SessionsFrom(s, t.doc, next)
    /\ MembersFrom(t.doc, t.joins)

\* What an operation ends it has deleted, in its copy and by its statement.
SessionsEnd(t) ==
    /\ \A x \in t.ends : x # 0 /\ \E i \in Slot :
          /\ Loaded.sessions[i].token = x /\ t.doc.sessions[i] = NoSession
          /\ i \in t.drop.slots \/ Loaded.sessions[i].user = t.drop.user
    /\ t.ends # {} => t.drop # NoDrop
    /\ \A i \in Slot : t.doc.sessions[i] # NoSession =>
          /\ i \notin t.drop.slots
          /\ t.drop.user # NoUser => t.doc.sessions[i].user # t.drop.user

\* A client that is made is new, and has no user.
ClientsMade(t) ==
    /\ \A c \in t.makes : /\ c \in Client \ Device
                          /\ ~ Loaded.clients[c].present /\ t.doc.clients[c].user = NoUser
    /\ t.makes # {} => /\ t.joins = {} /\ t.doc.accounts = Loaded.accounts
                       /\ t.doc.workspaces = Loaded.workspaces

\* A removal is nothing but a removal.
MembersLeave(t) ==
    /\ \A k \in t.leaves : ~ t.doc.members[k].present /\ Loaded.members[k].present
    /\ t.leaves # {} => t.drop.keys # {}
    /\ t.drop.keys \subseteq t.leaves
    /\ t.drop.keys # {} => t.makes = {} /\ t.joins = {} /\ t.ends = {} /\ t.signs = NoUser

Tallied(t) ==
    /\ SessionsEnd(t) /\ ClientsMade(t) /\ MembersLeave(t)
    /\ t.signs # NoUser => t.doc.users[t.signs].present

\* Any operation begins on server s.
Opens(s) ==
    /\ ~ Busy(s)
    /\ store = "file" => s = Primary
    /\ tx'[s].pc = IF store = "postgres" /\ tx'[s].drop # NoDrop THEN "drop" ELSE "save"
    /\ \A r \in Server \ {s} : tx'[r] = tx[r]
    /\ UNCHANGED <<store, db, exposed, history>>
    /\ begun < MaxOperations /\ begun' = begun + 1
    /\ \/ issued' = issued
       \/ issued < MaxLogins /\ issued' = issued + 1
    /\ \A r \in Server : login'[r] \in {login[r], NoUser}
    /\ Copied(s, tx'[s], issued') /\ Tallied(tx'[s])

\* What a server loads.
LEMMA LoadedFacts ==
    ASSUME AccessTyped
    PROVE  /\ Loaded \in State /\ Grown(db, Loaded)
           /\ Loaded.sessions = db.sessions /\ Loaded.accounts = db.accounts
           /\ Loaded.workspaces = PoolWorkspaces(db)
           /\ Loaded.workspaceMigrated = (db.workspaceMigrated \/ LegacyFlatPool(db))
           /\ Loaded.userDeviceMigrated
           /\ \A u \in User : Loaded.users[u].password => Loaded.users[u] = db.users[u]
           /\ \A c \in Client :
                 /\ Loaded.clients[c].present = db.clients[c].present
                 /\ \/ Loaded.clients[c].user = db.clients[c].user
                    \/ /\ ~ db.userDeviceMigrated /\ db.clients[c].present
                       /\ Loaded.clients[c].user \in User
                       /\ Loaded.users[Loaded.clients[c].user].present
           /\ \A k \in Key : Loaded.members[k].present <=>
                 \/ db.members[k].present
                 \/ /\ LegacyFlatPool(db) /\ k[1] = DefaultWorkspace
                    /\ k[2] \in Client /\ db.clients[k[2]].present
           /\ ~ LegacyFlatPool(Loaded)
<1>1. db \in State
    BY DEF AccessTyped
<1>2. Loaded = normalizeState(db)
    BY DEF Loaded
<1>3. QED
    BY <1>1, <1>2, Normalized

\* What has to be seen to of an operation.
LEMMA BeginOpens ==
    ASSUME AccessTyped, NEW s \in Server, NEW op, NEW change \in TxState,
           Begin(s, op, change), Copied(s, change, issued'), Tallied(change),
           \/ issued' = issued
           \/ issued < MaxLogins /\ issued' = issued + 1,
           \A r \in Server : login'[r] \in {login[r], NoUser}
    PROVE  Opens(s)
<1> DEFINE pc == IF store = "postgres" /\ change.drop # NoDrop THEN "drop" ELSE "save"
           t == [change EXCEPT !.pc = pc]
<1>1. /\ t.pc = pc /\ t.doc = change.doc /\ t.drop = change.drop /\ t.ends = change.ends
      /\ t.leaves = change.leaves /\ t.joins = change.joins /\ t.makes = change.makes
      /\ t.signs = change.signs
    BY DEF TxState
<1>2. tx' = [tx EXCEPT ![s] = t]
    BY DEF Begin
<1> HIDE DEF t
<1>3. tx'[s] = t /\ \A r \in Server \ {s} : tx'[r] = tx[r]
    BY <1>2 DEF AccessTyped
<1>4. Copied(s, t, issued') /\ Tallied(t)
    BY <1>1 DEF Copied, Tallied, SessionsEnd, ClientsMade, MembersLeave
<1>5. /\ begun < MaxOperations /\ begun' = begun + 1
      /\ ~ Busy(s) /\ (store = "file" => s = Primary)
      /\ UNCHANGED <<store, db, exposed, history>>
    BY Zenon DEF Begin, Busy
<1>6. QED
    BY <1>1, <1>3, <1>4, <1>5 DEF Opens

\* The fields of a change that is only a new copy.
LEMMA ChangedFields ==
    ASSUME NEW doc \in State, NEW t, t = Changed(doc)
    PROVE  /\ t \in TxState /\ t.doc = doc /\ t.drop = NoDrop
           /\ t.ends = {} /\ t.leaves = {} /\ t.joins = {} /\ t.makes = {} /\ t.signs = NoUser
           /\ NoDrop \in Drop /\ NoDrop.slots = {} /\ NoDrop.user = NoUser
           /\ NoDrop.keys = {} /\ NoDrop.client = NoClient
<1>1. t \in TxState
    BY ChangedTyped
<1>2. /\ t.doc = doc /\ t.drop = NoDrop
      /\ t.ends = {} /\ t.leaves = {} /\ t.joins = {} /\ t.makes = {} /\ t.signs = NoUser
    BY DEF Changed, NoTx
<1>3. /\ NoDrop \in Drop /\ NoDrop.slots = {} /\ NoDrop.user = NoUser
      /\ NoDrop.keys = {} /\ NoDrop.client = NoClient
    BY DEF NoDrop, Drop
<1>4. QED
    BY <1>1, <1>2, <1>3

\* An operation that ends and takes nothing, and only changes its copy.
LEMMA ChangedOpens ==
    ASSUME AccessTyped, NEW s \in Server, NEW op, NEW doc \in State,
           Begin(s, op, Changed(doc)), Grown(Loaded, doc),
           doc.workspaceMigrated = Loaded.workspaceMigrated, doc.userDeviceMigrated,
           ClientsFrom(doc, {}), SessionsFrom(s, doc, issued'), MembersFrom(doc, {}),
           \/ issued' = issued
           \/ issued < MaxLogins /\ issued' = issued + 1,
           \A r \in Server : login'[r] \in {login[r], NoUser}
    PROVE  Opens(s)
<1>1. PICK t : t = Changed(doc)
    OBVIOUS
<1>2. /\ t \in TxState /\ t.doc = doc /\ t.drop = NoDrop
      /\ t.ends = {} /\ t.leaves = {} /\ t.joins = {} /\ t.makes = {} /\ t.signs = NoUser
      /\ NoDrop.slots = {} /\ NoDrop.user = NoUser /\ NoDrop.keys = {}
    BY <1>1, ChangedFields
<1>3. Copied(s, t, issued')
    BY <1>2 DEF Copied
<1>4. Tallied(t)
    BY <1>2 DEF Tallied, SessionsEnd, ClientsMade, MembersLeave
<1>5. QED
    BY <1>1, <1>2, <1>3, <1>4, BeginOpens

\* A user's row is added or changed, and nothing else.
LEMMA UserReplaced ==
    ASSUME AccessTyped, NEW u \in User, NEW row \in UserRow, row.present,
           NEW doc, doc = [Loaded EXCEPT !.users[u] = row]
    PROVE  /\ doc \in State /\ Grown(Loaded, doc)
           /\ doc.workspaceMigrated = Loaded.workspaceMigrated /\ doc.userDeviceMigrated
           /\ doc.users[u].present
           /\ doc.sessions = Loaded.sessions /\ doc.clients = Loaded.clients
           /\ doc.members = Loaded.members
           /\ ClientsFrom(doc, {}) /\ MembersFrom(doc, {})
<1> DEFINE users == [Loaded.users EXCEPT ![u] = row]
<1>1. Loaded \in State /\ Loaded.userDeviceMigrated
    BY LoadedFacts
<1>2. /\ users \in [User -> UserRow] /\ users[u].present
      /\ \A v \in User : Loaded.users[v].present => users[v].present
    BY <1>1 DEF State
<1>3. doc = [Loaded EXCEPT !.users = users]
    OBVIOUS
<1> HIDE DEF users
<1>4. /\ doc \in State /\ doc.users = users
      /\ doc.clients = Loaded.clients /\ doc.sessions = Loaded.sessions
      /\ doc.members = Loaded.members /\ doc.workspaces = Loaded.workspaces
      /\ doc.accounts = Loaded.accounts
      /\ doc.workspaceMigrated = Loaded.workspaceMigrated
      /\ doc.userDeviceMigrated = Loaded.userDeviceMigrated
    BY <1>1, <1>2, <1>3 DEF State
<1>5. Grown(Loaded, doc)
    BY <1>2, <1>4 DEF Grown
<1>6. ClientsFrom(doc, {}) /\ MembersFrom(doc, {})
    BY <1>4 DEF ClientsFrom, MembersFrom
<1>7. QED
    BY <1>1, <1>2, <1>4, <1>5, <1>6

\* A password change or a disabling: the user's sessions end.
LEMMA EndSessionsOpens ==
    ASSUME AccessTyped, BondedSessions(db), NEW s \in Server, NEW op,
           NEW u \in User, NEW row \in UserRow, row.present,
           NEW doc, doc = [Loaded EXCEPT !.users[u] = row], EndSessions(s, op, doc, u)
    PROVE  Opens(s)
<1> DEFINE sessions == dropUserSessions(doc, u)
           swept == [doc EXCEPT !.sessions = sessions]
           drop == [Changed(swept).drop EXCEPT !.user = u]
           dropping == [Changed(swept) EXCEPT !.drop = drop]
           change == [dropping EXCEPT !.ends = Tokens(doc, u)]
<1>1. /\ doc \in State /\ Grown(Loaded, doc)
      /\ doc.workspaceMigrated = Loaded.workspaceMigrated /\ doc.userDeviceMigrated
      /\ doc.sessions = Loaded.sessions
      /\ doc.clients = Loaded.clients /\ doc.members = Loaded.members
    BY UserReplaced
<1>2. Begin(s, op, change) /\ UNCHANGED <<login, issued>>
    BY DEF EndSessions
<1>3. /\ sessions \in [Slot -> SessionRow]
      /\ \A i \in Slot : sessions[i] = IF Loaded.sessions[i].user = u
                                       THEN NoSession ELSE Loaded.sessions[i]
    BY <1>1 DEF State, dropUserSessions, NoSession, SessionRow
<1>4. /\ Tokens(doc, u) \in SUBSET Nat
      /\ \A x \in Tokens(doc, u) : \E i \in Slot :
            Loaded.sessions[i].token = x /\ Loaded.sessions[i].user = u
    BY <1>1 DEF Tokens, State, SessionRow
<1>5. u # NoUser /\ NoSession.user = NoUser
    BY PartyAssumption DEF NoSession
<1>6. \A i \in Slot : Loaded.sessions[i].user = u => Loaded.sessions[i].token # 0
    BY <1>5, LoadedFacts DEF BondedSessions
<1> HIDE DEF sessions
<1>7. /\ swept \in State /\ swept.sessions = sessions
      /\ swept.users = doc.users /\ swept.clients = doc.clients
      /\ swept.members = doc.members /\ swept.workspaces = doc.workspaces
      /\ swept.accounts = doc.accounts
      /\ swept.workspaceMigrated = doc.workspaceMigrated
      /\ swept.userDeviceMigrated = doc.userDeviceMigrated
    BY <1>1, <1>3 DEF State
<1> HIDE DEF swept
<1>8. /\ Changed(swept) \in TxState /\ Changed(swept).doc = swept
      /\ Changed(swept).drop = NoDrop /\ Changed(swept).ends = {}
      /\ Changed(swept).leaves = {} /\ Changed(swept).joins = {}
      /\ Changed(swept).makes = {} /\ Changed(swept).signs = NoUser
      /\ NoDrop \in Drop /\ NoDrop.slots = {} /\ NoDrop.user = NoUser /\ NoDrop.keys = {}
    BY <1>7, ChangedFields
<1>9. drop \in Drop /\ drop.user = u /\ drop.slots = {} /\ drop.keys = {}
    BY <1>8 DEF Drop
<1> HIDE DEF drop
<1>10. /\ dropping \in TxState /\ dropping.doc = swept /\ dropping.drop = drop
       /\ dropping.leaves = {} /\ dropping.joins = {}
       /\ dropping.makes = {} /\ dropping.signs = NoUser
    BY <1>8, <1>9 DEF TxState
<1> HIDE DEF dropping
<1>11. /\ change \in TxState /\ change.doc = swept /\ change.drop = drop
       /\ change.ends = Tokens(doc, u) /\ change.leaves = {} /\ change.joins = {}
       /\ change.makes = {} /\ change.signs = NoUser
    BY <1>4, <1>10 DEF TxState
<1> HIDE DEF change
<1>12. Grown(Loaded, swept)
    BY <1>1, <1>7 DEF Grown
<1>13. ClientsFrom(swept, {}) /\ MembersFrom(swept, {}) /\ SessionsFrom(s, swept, issued')
    BY <1>1, <1>3, <1>7 DEF ClientsFrom, MembersFrom, SessionsFrom
<1>14. Copied(s, change, issued')
    BY <1>1, <1>7, <1>11, <1>12, <1>13 DEF Copied
<1>15. \A x \in change.ends : x # 0 /\ \E i \in Slot :
           /\ Loaded.sessions[i].token = x /\ change.doc.sessions[i] = NoSession
           /\ i \in change.drop.slots \/ Loaded.sessions[i].user = change.drop.user
    BY <1>3, <1>4, <1>6, <1>7, <1>9, <1>11
<1>16. \A i \in Slot : change.doc.sessions[i] # NoSession =>
           i \notin change.drop.slots /\ change.doc.sessions[i].user # change.drop.user
    BY <1>3, <1>5, <1>7, <1>9, <1>11
<1>17. SessionsEnd(change)
    BY <1>5, <1>8, <1>9, <1>11, <1>15, <1>16 DEF SessionsEnd
<1>18. Tallied(change)
    BY <1>9, <1>11, <1>17 DEF Tallied, ClientsMade, MembersLeave
<1>19. QED
    BY <1>2, <1>11, <1>14, <1>18, BeginOpens

\* Registration, passwords, disabling and enabling.
LEMMA UsersOpen ==
    ASSUME AccessTyped, BondedSessions(db), NEW s \in Server, NEW u \in User,
           \/ CreateUser(s, u) \/ SetUserPassword(s, u) \/ SetUserDisabled(s, u)
    PROVE  Opens(s)
<1>1. Loaded \in State /\ Loaded.users[u] \in UserRow
    BY LoadedFacts DEF State
<1>2. CASE CreateUser(s, u)
    <2> DEFINE row == [NoUserRow EXCEPT !.present = TRUE, !.password = TRUE]
               doc == [Loaded EXCEPT !.users[u] = row]
               change == [Changed(doc) EXCEPT !.signs = u]
    <2>1. Begin(s, "register", change) /\ UNCHANGED <<login, issued>>
        BY <1>2 DEF CreateUser
    <2>2. row \in UserRow /\ row.present
        BY DEF NoUserRow, UserRow
    <2> HIDE DEF row
    <2>3. /\ doc \in State /\ Grown(Loaded, doc)
          /\ doc.workspaceMigrated = Loaded.workspaceMigrated /\ doc.userDeviceMigrated
          /\ doc.users[u].present /\ doc.sessions = Loaded.sessions
          /\ ClientsFrom(doc, {}) /\ MembersFrom(doc, {})
        BY <2>2, UserReplaced
    <2> HIDE DEF doc
    <2>4. /\ Changed(doc) \in TxState /\ Changed(doc).doc = doc
          /\ Changed(doc).drop = NoDrop /\ Changed(doc).ends = {}
          /\ Changed(doc).leaves = {} /\ Changed(doc).joins = {} /\ Changed(doc).makes = {}
          /\ NoDrop.slots = {} /\ NoDrop.user = NoUser /\ NoDrop.keys = {}
        BY <2>3, ChangedFields
    <2>5. /\ change \in TxState /\ change.doc = doc /\ change.drop = NoDrop
          /\ change.ends = {} /\ change.leaves = {} /\ change.joins = {}
          /\ change.makes = {} /\ change.signs = u
        BY <2>4 DEF TxState
    <2> HIDE DEF change
    <2>6. SessionsFrom(s, doc, issued')
        BY <2>3 DEF SessionsFrom
    <2>7. Copied(s, change, issued')
        BY <2>3, <2>5, <2>6 DEF Copied
    <2>8. Tallied(change)
        BY <2>3, <2>4, <2>5 DEF Tallied, SessionsEnd, ClientsMade, MembersLeave
    <2>9. QED
        BY <2>1, <2>5, <2>7, <2>8, BeginOpens
<1>3. CASE SetUserPassword(s, u)
    <2> DEFINE row == [Loaded.users[u] EXCEPT !.password = TRUE]
    <2>1. Loaded.users[u].present
          /\ EndSessions(s, "password", [Loaded EXCEPT !.users[u] = row], u)
        BY <1>3 DEF SetUserPassword
    <2>2. row \in UserRow /\ row.present
        BY <1>1, <2>1 DEF UserRow
    <2>3. QED
        BY <2>1, <2>2, EndSessionsOpens
<1>4. CASE SetUserDisabled(s, u)
    <2> DEFINE row(b) == [Loaded.users[u] EXCEPT !.disabled = b]
               doc(b) == [Loaded EXCEPT !.users[u] = row(b)]
    <2>1. Loaded.users[u].present
        BY <1>4 DEF SetUserDisabled
    <2>2. \A b \in BOOLEAN : row(b) \in UserRow /\ row(b).present
        BY <1>1, <2>1 DEF UserRow
    <2>3. \/ EndSessions(s, "disable", doc(TRUE), u)
          \/ Begin(s, "enable", Changed(doc(FALSE))) /\ UNCHANGED <<login, issued>>
        BY <1>4 DEF SetUserDisabled
    <2> HIDE DEF row
    <2>4. CASE EndSessions(s, "disable", doc(TRUE), u)
        BY <2>2, <2>4, EndSessionsOpens
    <2>5. CASE Begin(s, "enable", Changed(doc(FALSE))) /\ UNCHANGED <<login, issued>>
        <3>1. PICK d : d = doc(FALSE)
            OBVIOUS
        <3>2. /\ d \in State /\ Grown(Loaded, d)
              /\ d.workspaceMigrated = Loaded.workspaceMigrated /\ d.userDeviceMigrated
              /\ d.sessions = Loaded.sessions
              /\ ClientsFrom(d, {}) /\ MembersFrom(d, {})
            BY <2>2, <3>1, UserReplaced
        <3>3. SessionsFrom(s, d, issued')
            BY <3>2 DEF SessionsFrom
        <3>4. QED
            BY <2>5, <3>1, <3>2, <3>3, ChangedOpens
    <2>6. QED
        BY <2>3, <2>4, <2>5
<1>5. QED
    BY <1>2, <1>3, <1>4

\* The copy with another session in one slot.
WithSession(i, row) == [Loaded EXCEPT !.sessions[i] = row]

\* A slot of the copy is filled or emptied, and nothing else.
LEMMA SessionReplaced ==
    ASSUME AccessTyped, NEW i, NEW row \in SessionRow,
           NEW doc, doc = WithSession(i, row)
    PROVE  /\ doc \in State /\ Grown(Loaded, doc)
           /\ doc.workspaceMigrated = Loaded.workspaceMigrated /\ doc.userDeviceMigrated
           /\ \A j \in Slot : doc.sessions[j] = IF j = i THEN row ELSE Loaded.sessions[j]
           /\ ClientsFrom(doc, {}) /\ MembersFrom(doc, {})
<1> DEFINE sessions == [Loaded.sessions EXCEPT ![i] = row]
<1>1. Loaded \in State /\ Loaded.userDeviceMigrated
    BY LoadedFacts
<1>2. /\ sessions \in [Slot -> SessionRow]
      /\ \A j \in Slot : sessions[j] = IF j = i THEN row ELSE Loaded.sessions[j]
    BY <1>1 DEF State
<1>3. doc = [Loaded EXCEPT !.sessions = sessions]
    BY DEF WithSession
<1> HIDE DEF sessions
<1>4. /\ doc \in State /\ doc.sessions = sessions
      /\ doc.users = Loaded.users /\ doc.clients = Loaded.clients
      /\ doc.members = Loaded.members /\ doc.workspaces = Loaded.workspaces
      /\ doc.accounts = Loaded.accounts
      /\ doc.workspaceMigrated = Loaded.workspaceMigrated
      /\ doc.userDeviceMigrated = Loaded.userDeviceMigrated
    BY <1>1, <1>2, <1>3 DEF State
<1>5. Grown(Loaded, doc)
    BY <1>4 DEF Grown
<1>6. ClientsFrom(doc, {}) /\ MembersFrom(doc, {})
    BY <1>4 DEF ClientsFrom, MembersFrom
<1>7. QED
    BY <1>1, <1>2, <1>4, <1>5, <1>6

\* A login gives out the next token; a logout empties the slot of its session.
LEMMA SessionsOpen ==
    ASSUME AccessTyped, NEW s \in Server,
           \/ CreateSession(s)
           \/ \E i \in Slot : DeleteSession(s, i)
    PROVE  Opens(s)
<1>1. Loaded \in State
    BY LoadedFacts
<1>2. CASE CreateSession(s)
    <2> DEFINE row == [token |-> issued + 1, user |-> login[s]]
               doc(slot) == [Loaded EXCEPT !.sessions[slot] = row]
    <2>1. PICK slot : Begin(s, "session", Changed(doc(slot)))
        BY <1>2 DEF CreateSession
    <2>2. /\ login[s] # NoUser /\ issued < MaxLogins
          /\ login' = [login EXCEPT ![s] = NoUser] /\ issued' = issued + 1
        BY Zenon, <1>2 DEF CreateSession
    <2>3. row \in SessionRow
        BY DEF AccessTyped, SessionRow
    <2>4. \A r \in Server : login'[r] \in {login[r], NoUser}
        BY <2>2 DEF AccessTyped
    <2> HIDE DEF row
    <2>5. ASSUME NEW d, d = doc(slot)
          PROVE  /\ d \in State /\ Grown(Loaded, d)
                 /\ d.workspaceMigrated = Loaded.workspaceMigrated /\ d.userDeviceMigrated
                 /\ ClientsFrom(d, {}) /\ MembersFrom(d, {})
        <3>1. d = WithSession(slot, row)
            BY <2>5 DEF WithSession
        <3> HIDE DEF doc
        <3>2. QED
            BY <2>3, <3>1, SessionReplaced
    <2>6. \A j \in Slot :
             doc(slot).sessions[j] = IF j = slot THEN row ELSE Loaded.sessions[j]
        BY <1>1 DEF State
    <2> HIDE DEF doc
    <2>7. SessionsFrom(s, doc(slot), issued')
        BY <2>2, <2>6 DEF SessionsFrom, row
    <2>8. QED
        BY <2>1, <2>2, <2>4, <2>5, <2>7, ChangedOpens
<1>3. ASSUME NEW i \in Slot, DeleteSession(s, i)
      PROVE  Opens(s)
    <2> DEFINE doc == [Loaded EXCEPT !.sessions[i] = NoSession]
               drop == [Changed(doc).drop EXCEPT !.slots = {i}]
               dropping == [Changed(doc) EXCEPT !.drop = drop]
               ends == {Loaded.sessions[i].token} \ {0}
               change == [dropping EXCEPT !.ends = ends]
    <2>1. Begin(s, "logout", change) /\ UNCHANGED <<login, issued>>
        BY <1>3 DEF DeleteSession
    <2>2. NoSession \in SessionRow
        BY DEF NoSession, SessionRow
    <2>3. /\ doc \in State /\ Grown(Loaded, doc)
          /\ doc.workspaceMigrated = Loaded.workspaceMigrated /\ doc.userDeviceMigrated
          /\ \A j \in Slot : doc.sessions[j] = IF j = i THEN NoSession ELSE Loaded.sessions[j]
          /\ ClientsFrom(doc, {}) /\ MembersFrom(doc, {})
        <3>1. doc = WithSession(i, NoSession)
            BY DEF WithSession
        <3> HIDE DEF doc
        <3>2. QED
            BY <2>2, <3>1, SessionReplaced
    <2>4. ends \in SUBSET Nat /\ \A x \in ends : x # 0 /\ x = Loaded.sessions[i].token
        BY <1>1 DEF State, SessionRow
    <2> HIDE DEF doc, ends
    <2>5. /\ Changed(doc) \in TxState /\ Changed(doc).doc = doc
          /\ Changed(doc).drop = NoDrop
          /\ Changed(doc).leaves = {} /\ Changed(doc).joins = {}
          /\ Changed(doc).makes = {} /\ Changed(doc).signs = NoUser
          /\ NoDrop \in Drop /\ NoDrop.slots = {} /\ NoDrop.user = NoUser /\ NoDrop.keys = {}
        BY <2>3, ChangedFields
    <2>6. drop \in Drop /\ drop.user = NoUser /\ drop.slots = {i} /\ drop.keys = {}
        BY <2>5 DEF Drop
    <2> HIDE DEF drop
    <2>7. /\ dropping \in TxState /\ dropping.doc = doc /\ dropping.drop = drop
          /\ dropping.leaves = {} /\ dropping.joins = {}
          /\ dropping.makes = {} /\ dropping.signs = NoUser
        BY <2>5, <2>6 DEF TxState
    <2> HIDE DEF dropping
    <2>8. /\ change \in TxState /\ change.doc = doc /\ change.drop = drop
          /\ change.ends = ends /\ change.leaves = {} /\ change.joins = {}
          /\ change.makes = {} /\ change.signs = NoUser
        BY <2>4, <2>7 DEF TxState
    <2> HIDE DEF change
    <2>9. SessionsFrom(s, doc, issued')
        BY <2>3 DEF SessionsFrom
    <2>10. Copied(s, change, issued')
        BY <2>3, <2>8, <2>9 DEF Copied
    <2>11. SessionsEnd(change)
        BY <2>3, <2>4, <2>5, <2>6, <2>8 DEF SessionsEnd
    <2>12. Tallied(change)
        BY <2>6, <2>8, <2>11 DEF Tallied, ClientsMade, MembersLeave
    <2>13. QED
        BY <2>1, <2>8, <2>10, <2>12, BeginOpens
<1>4. QED
    BY <1>2, <1>3

\* A client's row is added or changed, and nothing else.
LEMMA ClientChanged ==
    ASSUME AccessTyped, NEW c \in Client, NEW row \in ClientRow, row.present,
           NEW doc, doc = [Loaded EXCEPT !.clients[c] = row]
    PROVE  /\ doc \in State /\ Grown(Loaded, doc)
           /\ doc.workspaceMigrated = Loaded.workspaceMigrated /\ doc.userDeviceMigrated
           /\ doc.sessions = Loaded.sessions /\ doc.members = Loaded.members
           /\ doc.accounts = Loaded.accounts /\ doc.workspaces = Loaded.workspaces
           /\ \A d \in Client : doc.clients[d] = IF d = c THEN row ELSE Loaded.clients[d]
           /\ MembersFrom(doc, {})
<1> DEFINE clients == [Loaded.clients EXCEPT ![c] = row]
<1>1. Loaded \in State /\ Loaded.userDeviceMigrated
    BY LoadedFacts
<1>2. /\ clients \in [Client -> ClientRow]
      /\ \A d \in Client : clients[d] = IF d = c THEN row ELSE Loaded.clients[d]
    BY <1>1 DEF State
<1>3. doc = [Loaded EXCEPT !.clients = clients]
    OBVIOUS
<1> HIDE DEF clients
<1>4. /\ doc \in State /\ doc.clients = clients
      /\ doc.users = Loaded.users /\ doc.sessions = Loaded.sessions
      /\ doc.members = Loaded.members /\ doc.workspaces = Loaded.workspaces
      /\ doc.accounts = Loaded.accounts
      /\ doc.workspaceMigrated = Loaded.workspaceMigrated
      /\ doc.userDeviceMigrated = Loaded.userDeviceMigrated
    BY <1>1, <1>2, <1>3 DEF State
<1>5. Grown(Loaded, doc)
    BY <1>2, <1>4 DEF Grown
<1>6. MembersFrom(doc, {})
    BY <1>4 DEF MembersFrom
<1>7. QED
    BY <1>1, <1>2, <1>4, <1>5, <1>6

\* Revocation and the creation of clients and devices.
LEMMA ClientsOpen ==
    ASSUME AccessTyped, NEW s \in Server,
           \/ TouchClient(s)
           \/ \E c \in Client : \/ CreateClient(s, c) \/ Revoke(s, c)
                               \/ \E u \in User : CreateDevice(s, u, c)
    PROVE  Opens(s)
<1>1. Loaded \in State /\ Loaded.userDeviceMigrated
    BY LoadedFacts
<1>2. CASE TouchClient(s)
    <2>1. Begin(s, "touch", Changed(Loaded)) /\ UNCHANGED <<login, issued>>
        BY <1>2 DEF TouchClient
    <2>2. /\ Grown(Loaded, Loaded) /\ ClientsFrom(Loaded, {}) /\ MembersFrom(Loaded, {})
          /\ SessionsFrom(s, Loaded, issued')
        BY DEF Grown, ClientsFrom, MembersFrom, SessionsFrom
    <2>3. QED
        BY <1>1, <2>1, <2>2, ChangedOpens
<1>3. ASSUME NEW c \in Client, CreateClient(s, c)
      PROVE  Opens(s)
    <2> DEFINE row == [NoClientRow EXCEPT !.present = TRUE]
               doc == [Loaded EXCEPT !.clients[c] = row]
               makes == {c}
               change == [Changed(doc) EXCEPT !.makes = makes]
    <2>1. /\ c \notin Device /\ ~ Loaded.clients[c].present
          /\ Begin(s, "client", change) /\ UNCHANGED <<login, issued>>
        BY <1>3 DEF CreateClient
    <2>2. row \in ClientRow /\ row.present /\ row.user = NoUser
        BY DEF NoClientRow, ClientRow
    <2> HIDE DEF row
    <2>3. /\ doc \in State /\ Grown(Loaded, doc)
          /\ doc.workspaceMigrated = Loaded.workspaceMigrated /\ doc.userDeviceMigrated
          /\ doc.sessions = Loaded.sessions /\ doc.members = Loaded.members
          /\ doc.accounts = Loaded.accounts /\ doc.workspaces = Loaded.workspaces
          /\ \A d \in Client : doc.clients[d] = IF d = c THEN row ELSE Loaded.clients[d]
          /\ MembersFrom(doc, {})
        BY <2>2, ClientChanged
    <2>4. makes \in SUBSET Client
        OBVIOUS
    <2>5. ClientsFrom(doc, makes) /\ SessionsFrom(s, doc, issued')
        BY <2>2, <2>3 DEF ClientsFrom, SessionsFrom
    <2> HIDE DEF doc
    <2>6. /\ Changed(doc) \in TxState /\ Changed(doc).doc = doc
          /\ Changed(doc).drop = NoDrop /\ Changed(doc).ends = {}
          /\ Changed(doc).leaves = {} /\ Changed(doc).joins = {} /\ Changed(doc).signs = NoUser
          /\ NoDrop.slots = {} /\ NoDrop.user = NoUser /\ NoDrop.keys = {}
        BY <2>3, ChangedFields
    <2>7. \A c1 \in makes : /\ c1 \in Client \ Device
                            /\ ~ Loaded.clients[c1].present /\ doc.clients[c1].user = NoUser
        BY <2>1, <2>2, <2>3
    <2> HIDE DEF makes
    <2>8. /\ change \in TxState /\ change.doc = doc /\ change.drop = NoDrop
          /\ change.ends = {} /\ change.leaves = {} /\ change.joins = {}
          /\ change.makes = makes /\ change.signs = NoUser
        BY <2>4, <2>6 DEF TxState
    <2> HIDE DEF change
    <2>9. Copied(s, change, issued')
        BY <2>3, <2>5, <2>8 DEF Copied
    <2>10. Tallied(change)
        BY <2>3, <2>6, <2>7, <2>8 DEF Tallied, SessionsEnd, ClientsMade, MembersLeave
    <2>11. QED
        BY <2>1, <2>8, <2>9, <2>10, BeginOpens
<1>4. ASSUME NEW c \in Client, Revoke(s, c)
      PROVE  Opens(s)
    <2> DEFINE row == [Loaded.clients[c] EXCEPT !.revoked = TRUE]
               doc == [Loaded EXCEPT !.clients[c] = row]
               revokes == {c}
               change == [Changed(doc) EXCEPT !.revokes = revokes]
               drop == [change.drop EXCEPT !.client = c]
               dropping == [change EXCEPT !.drop = drop]
    <2>1. /\ Loaded.clients[c].present
          /\ Begin(s, "revokeClient", change) \/ Begin(s, "revokeDevice", dropping)
          /\ UNCHANGED <<login, issued>>
        BY Zenon, <1>4 DEF Revoke
    <2>2. row \in ClientRow /\ row.present /\ row.user = Loaded.clients[c].user
        BY <1>1, <2>1 DEF State, ClientRow
    <2> HIDE DEF row
    <2>3. /\ doc \in State /\ Grown(Loaded, doc)
          /\ doc.workspaceMigrated = Loaded.workspaceMigrated /\ doc.userDeviceMigrated
          /\ doc.sessions = Loaded.sessions /\ doc.members = Loaded.members
          /\ doc.accounts = Loaded.accounts /\ doc.workspaces = Loaded.workspaces
          /\ \A d \in Client : doc.clients[d] = IF d = c THEN row ELSE Loaded.clients[d]
          /\ MembersFrom(doc, {})
        BY <2>2, ClientChanged
    <2>4. ClientsFrom(doc, {}) /\ SessionsFrom(s, doc, issued')
        BY <2>1, <2>2, <2>3 DEF ClientsFrom, SessionsFrom
    <2>5. revokes \in SUBSET Client
        OBVIOUS
    <2> HIDE DEF doc, revokes
    <2>6. /\ Changed(doc) \in TxState /\ Changed(doc).doc = doc
          /\ Changed(doc).drop = NoDrop /\ Changed(doc).ends = {}
          /\ Changed(doc).leaves = {} /\ Changed(doc).joins = {}
          /\ Changed(doc).makes = {} /\ Changed(doc).signs = NoUser
          /\ NoDrop \in Drop /\ NoDrop.slots = {} /\ NoDrop.user = NoUser /\ NoDrop.keys = {}
        BY <2>3, ChangedFields
    <2>7. /\ change \in TxState /\ change.doc = doc /\ change.drop = NoDrop
          /\ change.ends = {} /\ change.leaves = {} /\ change.joins = {}
          /\ change.makes = {} /\ change.signs = NoUser
        BY <2>5, <2>6 DEF TxState
    <2> HIDE DEF change
    <2>8. drop \in Drop /\ drop.slots = {} /\ drop.user = NoUser /\ drop.keys = {}
        BY <2>6, <2>7 DEF Drop
    <2> HIDE DEF drop
    <2>9. /\ dropping \in TxState /\ dropping.doc = doc /\ dropping.drop = drop
          /\ dropping.ends = {} /\ dropping.leaves = {} /\ dropping.joins = {}
          /\ dropping.makes = {} /\ dropping.signs = NoUser
        BY <2>7, <2>8 DEF TxState
    <2> HIDE DEF dropping
    <2>10. Copied(s, change, issued') /\ Copied(s, dropping, issued')
        BY <2>3, <2>4, <2>7, <2>9 DEF Copied
    <2>11. Tallied(change)
        BY <2>6, <2>7 DEF Tallied, SessionsEnd, ClientsMade, MembersLeave
    <2>12. Tallied(dropping)
        BY <2>8, <2>9 DEF Tallied, SessionsEnd, ClientsMade, MembersLeave
    <2>13. CASE Begin(s, "revokeClient", change)
        BY <2>1, <2>7, <2>10, <2>11, <2>13, BeginOpens
    <2>14. CASE Begin(s, "revokeDevice", dropping)
        BY <2>1, <2>9, <2>10, <2>12, <2>14, BeginOpens
    <2>15. QED
        BY <2>1, <2>13, <2>14
<1>5. ASSUME NEW c \in Client, NEW u \in User, CreateDevice(s, u, c)
      PROVE  Opens(s)
    <2> DEFINE row == [NoClientRow EXCEPT !.present = TRUE, !.user = u]
               doc == [Loaded EXCEPT !.clients[c] = row]
    <2>1. Begin(s, "device", Changed(doc))
        BY <1>5 DEF CreateDevice
    <2>2. /\ Loaded.users[u].present /\ c \in Device
          /\ UNCHANGED <<login, issued>>
        BY <1>5 DEF CreateDevice
    <2>3. row \in ClientRow /\ row.present /\ row.user = u
        BY DEF NoClientRow, ClientRow
    <2> HIDE DEF row
    <2>4. /\ doc \in State /\ Grown(Loaded, doc)
          /\ doc.workspaceMigrated = Loaded.workspaceMigrated /\ doc.userDeviceMigrated
          /\ doc.sessions = Loaded.sessions /\ doc.members = Loaded.members
          /\ doc.accounts = Loaded.accounts /\ doc.workspaces = Loaded.workspaces
          /\ \A d \in Client : doc.clients[d] = IF d = c THEN row ELSE Loaded.clients[d]
          /\ MembersFrom(doc, {})
        BY <2>3, ClientChanged
    <2> HIDE DEF doc
    <2>5. ClientsFrom(doc, {}) /\ SessionsFrom(s, doc, issued')
        BY <2>2, <2>3, <2>4 DEF ClientsFrom, SessionsFrom
    <2>6. QED
        BY <2>1, <2>2, <2>4, <2>5, ChangedOpens
<1>6. QED
    BY <1>2, <1>3, <1>4, <1>5

\* The first account, and a new workspace.
LEMMA PoolsOpen ==
    ASSUME AccessTyped, NEW s \in Server,
           \/ ImportAccount(s)
           \/ \E w \in Workspace : CreateWorkspace(s, w)
    PROVE  Opens(s)
<1>1. Loaded \in State /\ Loaded.userDeviceMigrated
    BY LoadedFacts
<1>2. ASSUME NEW doc \in State, doc.users = Loaded.users, doc.clients = Loaded.clients,
             doc.sessions = Loaded.sessions, doc.members = Loaded.members,
             doc.workspaceMigrated = Loaded.workspaceMigrated,
             doc.userDeviceMigrated = Loaded.userDeviceMigrated,
             Loaded.workspaces \subseteq doc.workspaces,
             Loaded.accounts => doc.accounts,
             NEW op, Begin(s, op, Changed(doc)), UNCHANGED <<login, issued>>
      PROVE  Opens(s)
    <2>1. Grown(Loaded, doc)
        BY <1>2 DEF Grown
    <2>2. ClientsFrom(doc, {}) /\ MembersFrom(doc, {}) /\ SessionsFrom(s, doc, issued')
        BY <1>2 DEF ClientsFrom, MembersFrom, SessionsFrom
    <2>3. QED
        BY <1>1, <1>2, <2>1, <2>2, ChangedOpens
<1>3. CASE ImportAccount(s)
    <2> DEFINE doc == [Loaded EXCEPT !.accounts = TRUE]
    <2>1. Begin(s, "import", Changed(doc)) /\ UNCHANGED <<login, issued>>
        BY <1>3 DEF ImportAccount
    <2>2. /\ doc \in State /\ doc.users = Loaded.users /\ doc.clients = Loaded.clients
          /\ doc.sessions = Loaded.sessions /\ doc.members = Loaded.members
          /\ doc.workspaceMigrated = Loaded.workspaceMigrated
          /\ doc.userDeviceMigrated = Loaded.userDeviceMigrated
          /\ doc.workspaces = Loaded.workspaces /\ doc.accounts = TRUE
        BY <1>1 DEF State
    <2> HIDE DEF doc
    <2>3. QED
        BY <1>2, <2>1, <2>2
<1>4. ASSUME NEW w \in Workspace, CreateWorkspace(s, w)
      PROVE  Opens(s)
    <2> DEFINE doc == [Loaded EXCEPT !.workspaces = Loaded.workspaces \cup {w}]
    <2>1. Begin(s, "workspace", Changed(doc)) /\ UNCHANGED <<login, issued>>
        BY <1>4 DEF CreateWorkspace
    <2>2. /\ doc \in State /\ doc.users = Loaded.users /\ doc.clients = Loaded.clients
          /\ doc.sessions = Loaded.sessions /\ doc.members = Loaded.members
          /\ doc.workspaceMigrated = Loaded.workspaceMigrated
          /\ doc.userDeviceMigrated = Loaded.userDeviceMigrated
          /\ doc.workspaces = Loaded.workspaces \cup {w} /\ doc.accounts = Loaded.accounts
        BY <1>1 DEF State
    <2> HIDE DEF doc
    <2>3. QED
        BY <1>2, <2>1, <2>2
<1>5. QED
    BY <1>3, <1>4

\* Only memberships of the copy change.
LEMMA MembersReplaced ==
    ASSUME AccessTyped, NEW members \in [Key -> MemberRow],
           NEW doc, doc = [Loaded EXCEPT !.members = members]
    PROVE  /\ doc \in State /\ Grown(Loaded, doc)
           /\ doc.workspaceMigrated = Loaded.workspaceMigrated /\ doc.userDeviceMigrated
           /\ doc.sessions = Loaded.sessions /\ doc.members = members
           /\ ClientsFrom(doc, {})
<1>1. Loaded \in State /\ Loaded.userDeviceMigrated
    BY LoadedFacts
<1>2. /\ doc \in State /\ doc.members = members
      /\ doc.users = Loaded.users /\ doc.clients = Loaded.clients
      /\ doc.sessions = Loaded.sessions /\ doc.workspaces = Loaded.workspaces
      /\ doc.accounts = Loaded.accounts
      /\ doc.workspaceMigrated = Loaded.workspaceMigrated
      /\ doc.userDeviceMigrated = Loaded.userDeviceMigrated
    BY <1>1 DEF State
<1>3. Grown(Loaded, doc) /\ ClientsFrom(doc, {})
    BY <1>2 DEF Grown, ClientsFrom
<1>4. QED
    BY <1>1, <1>2, <1>3

\* A membership is given to somebody who is there, or was there already.
LEMMA SetMembershipOpens ==
    ASSUME AccessTyped, NEW s \in Server, NEW w \in Workspace, NEW p \in Joining,
           SetMembership(s, w, p)
    PROVE  Opens(s)
<1> DEFINE found == Memberships(Loaded, w, p)
           row == [present |-> TRUE, user |-> IF p \in User THEN p ELSE NoUser]
           members == [Loaded.members EXCEPT ![<<w, p>>] = row]
           doc == [Loaded EXCEPT !.members = members]
           given == {<<w, p>>}
<1>1. Loaded \in State /\ Loaded.userDeviceMigrated
    BY LoadedFacts
<1>2. /\ w \in Loaded.workspaces
      /\ IF p \in User THEN Loaded.users[p].present ELSE Loaded.clients[p].present
      /\ UNCHANGED <<login, issued>>
    BY DEF SetMembership
<1>3. \/ Begin(s, "join", [Changed(doc) EXCEPT !.joins = given])
      \/ Begin(s, "join", [Changed(Loaded) EXCEPT !.joins = found])
    BY DEF SetMembership
<1>4. found \in SUBSET Key
    BY DEF Memberships
<1>5. <<w, p>> \in Key /\ given \in SUBSET Key
    BY PartyAssumption DEF Key, Principal
<1>6. row \in MemberRow
    BY DEF MemberRow
<1> HIDE DEF row, found
<1>7. /\ members \in [Key -> MemberRow]
      /\ \A k \in Key : k # <<w, p>> => members[k] = Loaded.members[k]
    BY <1>1, <1>5, <1>6 DEF State
<1> HIDE DEF members
<1>8. /\ doc \in State /\ Grown(Loaded, doc)
      /\ doc.workspaceMigrated = Loaded.workspaceMigrated /\ doc.userDeviceMigrated
      /\ doc.sessions = Loaded.sessions /\ doc.members = members
      /\ ClientsFrom(doc, {})
    BY <1>7, MembersReplaced
<1> HIDE DEF doc
<1>9. \A k \in Key : doc.members[k].present =>
         \/ Loaded.members[k].present
         \/ /\ k \in given /\ k[1] \in Loaded.workspaces
            /\ IF k[2] \in User THEN Loaded.users[k[2]].present
                                ELSE Loaded.clients[k[2]].present
    <2> SUFFICES ASSUME NEW k \in Key, doc.members[k].present, ~ Loaded.members[k].present
                 PROVE  /\ k \in given /\ k[1] \in Loaded.workspaces
                        /\ IF k[2] \in User THEN Loaded.users[k[2]].present
                                            ELSE Loaded.clients[k[2]].present
        OBVIOUS
    <2>1. k = <<w, p>>
        BY <1>7, <1>8
    <2>2. k[1] = w /\ k[2] = p /\ k \in given
        BY <2>1
    <2>3. QED
        BY <1>2, <2>2
<1>10. MembersFrom(doc, given)
    BY <1>9 DEF MembersFrom
<1>11. /\ SessionsFrom(s, doc, issued')
       /\ SessionsFrom(s, Loaded, issued') /\ ClientsFrom(Loaded, {})
       /\ MembersFrom(Loaded, found) /\ Grown(Loaded, Loaded)
    BY <1>8 DEF MembersFrom, ClientsFrom, SessionsFrom, Grown
<1> HIDE DEF given
<1>12. ASSUME NEW d \in State, NEW joins \in SUBSET Key, Grown(Loaded, d),
              d.workspaceMigrated = Loaded.workspaceMigrated, d.userDeviceMigrated,
              ClientsFrom(d, {}), SessionsFrom(s, d, issued'), MembersFrom(d, joins),
              Begin(s, "join", [Changed(d) EXCEPT !.joins = joins])
       PROVE  Opens(s)
    <2> DEFINE change == [Changed(d) EXCEPT !.joins = joins]
    <2>1. Begin(s, "join", change)
        BY <1>12
    <2>2. /\ Changed(d) \in TxState /\ Changed(d).doc = d
          /\ Changed(d).drop = NoDrop /\ Changed(d).ends = {}
          /\ Changed(d).leaves = {} /\ Changed(d).makes = {} /\ Changed(d).signs = NoUser
          /\ NoDrop.slots = {} /\ NoDrop.user = NoUser /\ NoDrop.keys = {}
        BY ChangedFields
    <2>3. /\ change \in TxState /\ change.doc = d /\ change.drop = NoDrop
          /\ change.ends = {} /\ change.leaves = {} /\ change.joins = joins
          /\ change.makes = {} /\ change.signs = NoUser
        BY <2>2 DEF TxState
    <2> HIDE DEF change
    <2>4. Copied(s, change, issued')
        BY <1>12, <2>3 DEF Copied
    <2>5. Tallied(change)
        BY <2>2, <2>3 DEF Tallied, SessionsEnd, ClientsMade, MembersLeave
    <2>6. QED
        BY <1>2, <2>1, <2>3, <2>4, <2>5, BeginOpens
<1>13. CASE Begin(s, "join", [Changed(doc) EXCEPT !.joins = given])
    BY <1>5, <1>8, <1>10, <1>11, <1>12, <1>13
<1>14. CASE Begin(s, "join", [Changed(Loaded) EXCEPT !.joins = found])
    BY <1>1, <1>4, <1>11, <1>12, <1>14
<1>15. QED
    BY <1>3, <1>13, <1>14

\* A removal takes away the memberships that match, and does nothing else.
LEMMA RemoveMembershipOpens ==
    ASSUME AccessTyped, NEW s \in Server, NEW w \in Workspace, NEW p \in Joining,
           RemoveMembership(s, w, p)
    PROVE  Opens(s)
<1> DEFINE found == Memberships(Loaded, w, p)
           members == [j \in Key |-> IF j \in found THEN NoMember ELSE Loaded.members[j]]
           doc == [Loaded EXCEPT !.members = members]
           gone(k) == {k}
           drop(k) == [Changed(doc).drop EXCEPT !.keys = gone(k)]
           dropping(k) == [Changed(doc) EXCEPT !.drop = drop(k)]
           change(k) == [dropping(k) EXCEPT !.leaves = found]
<1>1. Loaded \in State /\ Loaded.userDeviceMigrated
    BY LoadedFacts
<1>2. PICK k \in found : Begin(s, "leave", change(k))
    BY DEF RemoveMembership
<1>3. UNCHANGED <<login, issued>>
    BY DEF RemoveMembership
<1>4. found \in SUBSET Key /\ \A j \in found : Loaded.members[j].present
    BY DEF Memberships
<1>5. /\ members \in [Key -> MemberRow]
      /\ \A j \in Key : members[j].present <=> j \notin found /\ Loaded.members[j].present
    BY <1>1, <1>4 DEF State, NoMember, MemberRow
<1> HIDE DEF found, members
<1>6. /\ doc \in State /\ Grown(Loaded, doc)
      /\ doc.workspaceMigrated = Loaded.workspaceMigrated /\ doc.userDeviceMigrated
      /\ doc.sessions = Loaded.sessions /\ doc.members = members
      /\ ClientsFrom(doc, {})
    BY <1>5, MembersReplaced
<1> HIDE DEF doc
<1>7. SessionsFrom(s, doc, issued') /\ MembersFrom(doc, {})
    BY <1>5, <1>6 DEF SessionsFrom, MembersFrom
<1>8. /\ Changed(doc) \in TxState /\ Changed(doc).doc = doc
      /\ Changed(doc).drop = NoDrop /\ Changed(doc).ends = {}
      /\ Changed(doc).joins = {} /\ Changed(doc).makes = {} /\ Changed(doc).signs = NoUser
      /\ NoDrop \in Drop /\ NoDrop.slots = {} /\ NoDrop.user = NoUser
    BY <1>6, ChangedFields
<1>9. gone(k) \in SUBSET Key /\ gone(k) # {} /\ gone(k) \subseteq found
    BY <1>2, <1>4
<1> HIDE DEF gone
<1>10. /\ drop(k) \in Drop /\ drop(k).slots = {} /\ drop(k).user = NoUser
       /\ drop(k).keys = gone(k)
    BY <1>8, <1>9 DEF Drop
<1> HIDE DEF drop
<1>11. /\ dropping(k) \in TxState /\ dropping(k).doc = doc /\ dropping(k).drop = drop(k)
       /\ dropping(k).ends = {} /\ dropping(k).joins = {}
       /\ dropping(k).makes = {} /\ dropping(k).signs = NoUser
    BY <1>8, <1>10 DEF TxState
<1> HIDE DEF dropping
<1>12. /\ change(k) \in TxState /\ change(k).doc = doc /\ change(k).drop = drop(k)
       /\ change(k).ends = {} /\ change(k).joins = {} /\ change(k).leaves = found
       /\ change(k).makes = {} /\ change(k).signs = NoUser
    BY <1>4, <1>11 DEF TxState
<1> HIDE DEF change
<1>13. Copied(s, change(k), issued')
    BY <1>6, <1>7, <1>12 DEF Copied
<1>14. SessionsEnd(change(k)) /\ ClientsMade(change(k))
    BY <1>10, <1>12 DEF SessionsEnd, ClientsMade
<1>15. MembersLeave(change(k))
    BY <1>4, <1>5, <1>6, <1>9, <1>10, <1>12 DEF MembersLeave
<1>16. Tallied(change(k))
    BY <1>12, <1>14, <1>15 DEF Tallied
<1>17. QED
    BY <1>2, <1>3, <1>12, <1>13, <1>16, BeginOpens

-----------------------------------------------------------------------------
(* The statements, the Save and the answer                                 *)

\* The answer of the operation on server s.
Answers(s) ==
    /\ tx'[s] = NoTx
    /\ \A r \in Server \ {s} : tx'[r] = tx[r]
    /\ ended' = ended \cup tx[s].ends
    /\ removed' = (removed \cup tx[s].leaves) \ tx[s].joins
    /\ granted' = granted \cup tx[s].joins
    /\ made' = made \cup tx[s].makes
    /\ late' = IF Copy(s).workspaceMigrated THEN late \cup tx[s].makes ELSE late
    /\ \A r \in Server : \/ login'[r] = login[r]
                         \/ r = s /\ tx[s].signs # NoUser /\ login'[r] = tx[s].signs

\* The statement goes on to the Save.
Proceeds(s) ==
    /\ tx'[s].pc = "save" /\ tx'[s].doc = tx[s].doc /\ tx'[s].drop = tx[s].drop
    /\ tx'[s].ends = tx[s].ends /\ tx'[s].leaves = tx[s].leaves
    /\ tx'[s].joins = tx[s].joins /\ tx'[s].makes = tx[s].makes
    /\ tx'[s].signs = tx[s].signs
    /\ \A r \in Server \ {s} : tx'[r] = tx[r]
    /\ UNCHANGED <<login, history>>

\* Whether the statement of server s deletes the session in slot i.
Deleted(s, i) ==
    /\ db.sessions[i] # NoSession
    /\ i \in tx[s].drop.slots \/ db.sessions[i].user = tx[s].drop.user

\* Rows are deleted, and what is seen to come too early is noted.
Deletes(s) ==
    /\ tx[s].pc = "drop"
    /\ UNCHANGED <<store, issued, begun>>
    /\ db'.users = db.users /\ db'.workspaces = db.workspaces
    /\ db'.accounts = db.accounts /\ db'.workspaceMigrated = db.workspaceMigrated
    /\ db'.userDeviceMigrated = db.userDeviceMigrated
    /\ \A c \in Client : /\ db'.clients[c].present = db.clients[c].present
                         /\ db'.clients[c].user = db.clients[c].user
    /\ \A i \in Slot : db'.sessions[i] = IF Deleted(s, i) THEN NoSession ELSE db.sessions[i]
    /\ \A k \in Key : db'.members[k].present <=> k \notin tx[s].drop.keys /\ db.members[k].present
    /\ exposed' \in [tokens : SUBSET (1..issued), keys : SUBSET Key]
    /\ exposed.tokens \subseteq exposed'.tokens /\ exposed.keys \subseteq exposed'.keys
    /\ \A i \in Slot, r \in Server \ {s} :
          Deleted(s, i) /\ Busy(r) /\ Has(Copy(r), db.sessions[i].token) =>
              db.sessions[i].token \in exposed'.tokens
    /\ tx[s].leaves \ tx[s].drop.keys \subseteq exposed'.keys
    /\ \A k \in tx[s].drop.keys :
          \/ ~ db.members[k].present
          \/ \E r \in Server \ {s} : Busy(r) /\ normalizeState(Copy(r)).members[k].present
          => k \in exposed'.keys
    /\ \/ tx[s].drop.keys # {} /\ Answers(s)
       \/ tx[s].drop.keys = {} /\ Proceeds(s)

\* The copy is saved.
Saves(s) ==
    /\ tx[s].pc = "save"
    /\ UNCHANGED <<store, issued, begun, exposed>>
    /\ store = "file" => db' = Copy(s)
    /\ store = "postgres" => db' = Merged(normalizeState(Copy(s)))
    /\ Answers(s)

\* A password is checked: of a user who is stored, for a made up user has none.
Enters(s) ==
    /\ UNCHANGED <<store, db, tx, issued, begun, exposed, history>>
    /\ \A r \in Server : \/ login'[r] = login[r]
                         \/ /\ login'[r] \in User
                            /\ db.users[login'[r]].present

\* What an answer changes.
LEMMA AnswerAnswers ==
    ASSUME AccessTyped, NEW s \in Server, Answer(s)
    PROVE  Answers(s)
<1>1. /\ tx' = [tx EXCEPT ![s] = NoTx]
      /\ login' = IF tx[s].signs # NoUser THEN [login EXCEPT ![s] = tx[s].signs] ELSE login
      /\ ended' = ended \cup tx[s].ends
      /\ removed' = (removed \cup tx[s].leaves) \ tx[s].joins
      /\ granted' = granted \cup tx[s].joins
      /\ made' = made \cup tx[s].makes
      /\ late' = IF tx[s].doc.workspaceMigrated THEN late \cup tx[s].makes ELSE late
    BY Zenon DEF Answer
<1>2. tx'[s] = NoTx /\ \A r \in Server \ {s} : tx'[r] = tx[r]
    BY <1>1 DEF AccessTyped
<1>3. \A r \in Server : \/ login'[r] = login[r]
                        \/ r = s /\ tx[s].signs # NoUser /\ login'[r] = tx[s].signs
    BY <1>1 DEF AccessTyped
<1>4. QED
    BY <1>1, <1>2, <1>3 DEF Answers, Copy

\* What a Save changes.
LEMMA SaveSaves ==
    ASSUME AccessTyped, NEW s \in Server, Save(s)
    PROVE  Saves(s)
<1>1. /\ tx[s].pc = "save" /\ Answer(s)
      /\ UNCHANGED <<store, issued, begun, exposed>>
      /\ db' = IF store = "file" THEN tx[s].doc ELSE Merged(normalizeState(tx[s].doc))
    BY Zenon DEF Save
<1>2. QED
    BY <1>1, AnswerAnswers DEF Saves, Copy

\* Who can log in.
LEMMA AuthenticateUserEnters ==
    ASSUME AccessTyped, NEW s \in Server, NEW u \in User, AuthenticateUser(s, u)
    PROVE  Enters(s)
<1>1. /\ Loaded.users[u].present /\ Loaded.users[u].password
      /\ login' = [login EXCEPT ![s] = u]
      /\ UNCHANGED <<store, db, tx, issued, begun, exposed, history>>
    BY Zenon DEF AuthenticateUser
<1>2. db.users[u].present
    BY <1>1, LoadedFacts
<1>3. QED
    BY <1>1, <1>2 DEF Enters, AccessTyped

\* What the statements change.
LEMMA DeleteRowsDeletes ==
    ASSUME AccessTyped, Scoped, BondedSessions(db), Numbered,
           NEW s \in Server, DeleteRows(s)
    PROVE  Deletes(s)
<1> DEFINE d == tx[s].drop
           slots == {i \in Slot : /\ db.sessions[i] # NoSession
                                  /\ i \in d.slots \/ db.sessions[i].user = d.user}
           sessions == [i \in Slot |-> IF i \in slots THEN NoSession ELSE db.sessions[i]]
           members == [k \in Key |-> IF k \in d.keys THEN NoMember ELSE db.members[k]]
           clients == [c \in Client |-> IF c = d.client
                          THEN [db.clients[c] EXCEPT !.revoked = TRUE] ELSE db.clients[c]]
           tokens == {db.sessions[i].token : i \in slots}
           early == {t \in tokens : \E doc \in Pending(s), i \in Slot :
                                       doc.sessions[i].token = t}
           kept == {k \in d.keys : \/ ~ db.members[k].present
                                   \/ \E doc \in Pending(s) : doc.members[k].present}
<1>1. /\ db' = [db EXCEPT !.sessions = sessions, !.members = members, !.clients = clients]
      /\ tx[s].pc = "drop" /\ UNCHANGED <<store, issued, begun>>
    BY Zenon DEF DeleteRows
<1>2. exposed' = [tokens |-> exposed.tokens \cup early,
                  keys |-> exposed.keys \cup (tx[s].leaves \ d.keys) \cup kept]
    BY Zenon DEF DeleteRows
<1>3. \/ d.keys # {} /\ Answer(s)
      \/ d.keys = {} /\ tx' = [tx EXCEPT ![s].pc = "save"] /\ UNCHANGED <<login, history>>
    BY Zenon DEF DeleteRows
<1>4. db \in State /\ tx[s] \in TxState
    BY DEF AccessTyped
<1>5. /\ sessions \in [Slot -> SessionRow]
      /\ \A i \in Slot : sessions[i] = IF Deleted(s, i) THEN NoSession ELSE db.sessions[i]
    BY <1>4 DEF State, NoSession, SessionRow, Deleted
<1>6. /\ members \in [Key -> MemberRow]
      /\ \A k \in Key : members[k].present <=> k \notin tx[s].drop.keys /\ db.members[k].present
    BY <1>4 DEF State, NoMember, MemberRow
<1>7. /\ clients \in [Client -> ClientRow]
      /\ \A c \in Client : /\ clients[c].present = db.clients[c].present
                           /\ clients[c].user = db.clients[c].user
    BY <1>4 DEF State, ClientRow
<1> HIDE DEF sessions, members, clients
<1>8. /\ db'.users = db.users /\ db'.workspaces = db.workspaces
      /\ db'.accounts = db.accounts /\ db'.workspaceMigrated = db.workspaceMigrated
      /\ db'.userDeviceMigrated = db.userDeviceMigrated
      /\ db'.sessions = sessions /\ db'.members = members /\ db'.clients = clients
    BY <1>1, <1>4, <1>5, <1>6, <1>7 DEF State
<1>9. /\ \A c \in Client : /\ db'.clients[c].present = db.clients[c].present
                           /\ db'.clients[c].user = db.clients[c].user
      /\ \A i \in Slot : db'.sessions[i] = IF Deleted(s, i) THEN NoSession ELSE db.sessions[i]
      /\ \A k \in Key : db'.members[k].present <=> k \notin tx[s].drop.keys /\ db.members[k].present
    BY <1>5, <1>6, <1>7, <1>8
<1>10. \A i \in Slot : db.sessions[i] # NoSession => db.sessions[i].token \in 1..issued
    <2>1. \A i \in Slot : db.sessions[i].token \in Nat /\ db.sessions[i].token <= issued
        BY <1>4 DEF Numbered, Seen, State, SessionRow
    <2>2. \A i \in Slot : db.sessions[i] # NoSession => db.sessions[i].token # 0
        BY DEF BondedSessions
    <2>3. issued \in Nat
        BY DEF AccessTyped
    <2>4. QED
        BY <2>1, <2>2, <2>3
<1>11. early \in SUBSET (1..issued)
    BY <1>10
<1>12. kept \in SUBSET Key /\ tx[s].leaves \in SUBSET Key
    BY <1>4 DEF TxState, Drop
<1>13. \A i \in Slot, r \in Server \ {s} :
          Deleted(s, i) /\ Busy(r) /\ Has(Copy(r), db.sessions[i].token) =>
              db.sessions[i].token \in early
    <2> SUFFICES ASSUME NEW i \in Slot, NEW r \in Server \ {s}, Deleted(s, i), Busy(r),
                        Has(Copy(r), db.sessions[i].token)
                 PROVE  db.sessions[i].token \in early
        OBVIOUS
    <2>1. PICK n : n = normalizeState(tx[r].doc)
        OBVIOUS
    <2>2. n \in Pending(s)
        BY <2>1 DEF Pending, Busy
    <2>3. tx[r].doc \in State
        BY DEF AccessTyped, TxState
    <2>4. n.sessions = tx[r].doc.sessions
        BY <2>1, <2>3, Normalized
    <2>5. \E j \in Slot : n.sessions[j].token = db.sessions[i].token
        BY <2>4 DEF Has, Copy
    <2>6. i \in slots
        BY DEF Deleted
    <2>7. QED
        BY <2>2, <2>5, <2>6
<1>14. \A k \in tx[s].drop.keys :
          \/ ~ db.members[k].present
          \/ \E r \in Server \ {s} : Busy(r) /\ normalizeState(Copy(r)).members[k].present
          => k \in kept
    BY DEF Pending, Busy, Copy
<1> HIDE DEF early, kept
<1>15. /\ exposed' \in [tokens : SUBSET (1..issued), keys : SUBSET Key]
       /\ exposed.tokens \subseteq exposed'.tokens /\ exposed.keys \subseteq exposed'.keys
       /\ early \subseteq exposed'.tokens /\ kept \subseteq exposed'.keys
       /\ tx[s].leaves \ tx[s].drop.keys \subseteq exposed'.keys
    BY <1>2, <1>11, <1>12 DEF Scoped
<1>16. CASE d.keys = {} /\ tx' = [tx EXCEPT ![s].pc = "save"] /\ UNCHANGED <<login, history>>
    <2> DEFINE t == [tx[s] EXCEPT !.pc = "save"]
    <2>1. /\ t.pc = "save" /\ t.doc = tx[s].doc /\ t.drop = tx[s].drop
          /\ t.ends = tx[s].ends /\ t.leaves = tx[s].leaves
          /\ t.joins = tx[s].joins /\ t.makes = tx[s].makes /\ t.signs = tx[s].signs
        BY <1>4 DEF TxState
    <2>2. tx' = [tx EXCEPT ![s] = t]
        BY <1>16
    <2> HIDE DEF t
    <2>3. tx'[s] = t /\ \A r \in Server \ {s} : tx'[r] = tx[r]
        BY <2>2 DEF AccessTyped
    <2>4. Proceeds(s)
        BY <1>16, <2>1, <2>3 DEF Proceeds
    <2>5. QED
        BY <1>1, <1>8, <1>9, <1>13, <1>14, <1>15, <1>16, <2>4 DEF Deletes
<1>17. CASE d.keys # {} /\ Answer(s)
    <2>1. Answers(s)
        BY <1>17, AnswerAnswers
    <2>2. QED
        BY <1>1, <1>8, <1>9, <1>13, <1>14, <1>15, <1>17, <2>1 DEF Deletes
<1>18. QED
    BY <1>3, <1>16, <1>17

\* Every step is of one of four kinds.
LEMMA StepKinds ==
    ASSUME Remembering, Next
    PROVE  \E s \in Server : Opens(s) \/ Enters(s) \/ Deletes(s) \/ Saves(s)
<1>1. AccessTyped /\ Scoped /\ BondedSessions(db) /\ Numbered
    BY DEF Remembering, Revocations, AllBonded, Bonded
<1>2. PICK s \in Server :
         \/ UserStep(s) \/ ClientStep(s) \/ WorkspaceStep(s)
         \/ CreateSession(s) \/ ImportAccount(s)
         \/ \E i \in Slot : DeleteSession(s, i)
         \/ DeleteRows(s) \/ Save(s)
    BY DEF Next
<1>3. CASE UserStep(s)
    BY <1>1, <1>3, UsersOpen, ClientsOpen, AuthenticateUserEnters DEF UserStep
<1>4. CASE ClientStep(s)
    BY <1>1, <1>4, ClientsOpen DEF ClientStep
<1>5. CASE WorkspaceStep(s)
    BY <1>1, <1>5, PoolsOpen, SetMembershipOpens, RemoveMembershipOpens DEF WorkspaceStep
<1>6. CASE CreateSession(s) \/ ImportAccount(s) \/ \E i \in Slot : DeleteSession(s, i)
    BY <1>1, <1>6, SessionsOpen, PoolsOpen
<1>7. CASE DeleteRows(s) \/ Save(s)
    BY <1>1, <1>7, DeleteRowsDeletes, SaveSaves
<1>8. QED
    BY <1>2, <1>3, <1>4, <1>5, <1>6, <1>7

-----------------------------------------------------------------------------
(* The beginning of an operation keeps the invariant                       *)

\* A server at rest remembers nothing, and everything is true of nothing.
LEMMA Blank ==
    /\ NoTx.pc = "idle" /\ NoTx.doc = EmptyState /\ NoTx.drop = NoDrop
    /\ NoTx.ends = {} /\ NoTx.leaves = {} /\ NoTx.joins = {} /\ NoTx.makes = {}
    /\ NoTx.signs = NoUser /\ NoDrop.keys = {}
    /\ \A c \in Client : ~ EmptyState.clients[c].present /\ EmptyState.clients[c].user = NoUser
    /\ \A i \in Slot : EmptyState.sessions[i] = NoSession
    /\ NoSession.token = 0 /\ NoSession.user = NoUser
    /\ \A k \in Key : ~ EmptyState.members[k].present
    /\ Bonded(EmptyState) /\ Sound(NoTx)
<1>1. /\ NoTx.pc = "idle" /\ NoTx.doc = EmptyState /\ NoTx.drop = NoDrop
      /\ NoTx.ends = {} /\ NoTx.leaves = {} /\ NoTx.joins = {} /\ NoTx.makes = {}
      /\ NoTx.signs = NoUser /\ NoDrop.keys = {}
    BY DEF NoTx, NoDrop
<1>2. /\ \A c \in Client : ~ EmptyState.clients[c].present
                           /\ EmptyState.clients[c].user = NoUser
      /\ \A i \in Slot : EmptyState.sessions[i] = NoSession
      /\ NoSession.token = 0 /\ NoSession.user = NoUser
      /\ \A k \in Key : ~ EmptyState.members[k].present
    BY DEF EmptyState, NoClientRow, NoSession, NoMember
<1>3. Bonded(EmptyState)
    BY <1>2 DEF Bonded, BondedClients, BondedSessions, BondedMembers
<1>4. Sound(NoTx)
    BY <1>1 DEF Sound
<1>5. QED
    BY <1>1, <1>2, <1>3, <1>4

\* What is loaded has no open reference either.
LEMMA LoadedBonded ==
    ASSUME AccessTyped, Bonded(db)
    PROVE  Bonded(Loaded)
<1>1. db \in State /\ Loaded = normalizeState(db)
    BY DEF AccessTyped, Loaded
<1>2. QED
    BY <1>1, NormalizedBonded

\* A copy brings the rows that its new rows refer to.
LEMMA CopyBonded ==
    ASSUME AccessTyped, Bonded(db), LoginsKnown, NEW s \in Server,
           NEW t \in TxState, NEW next, Copied(s, t, next)
    PROVE  Bonded(t.doc)
<1>1. Loaded \in State /\ t.doc \in State /\ Bonded(Loaded) /\ Grown(db, Loaded)
    BY LoadedFacts, LoadedBonded DEF TxState
<1>2. /\ Grown(Loaded, t.doc) /\ ClientsFrom(t.doc, t.makes)
      /\ SessionsFrom(s, t.doc, next) /\ MembersFrom(t.doc, t.joins)
    BY DEF Copied
<1>3. \A c \in Client : Loaded.clients[c].user \in User \cup {NoUser}
    BY <1>1 DEF State, ClientRow
<1>4. BondedClients(t.doc)
    BY <1>1, <1>2, <1>3 DEF Bonded, BondedClients, ClientsFrom, Grown
<1>5. BondedSessions(t.doc)
    <2> SUFFICES ASSUME NEW i \in Slot, t.doc.sessions[i] # NoSession
                 PROVE  /\ t.doc.sessions[i].token # 0 /\ t.doc.sessions[i].user \in User
                        /\ t.doc.users[t.doc.sessions[i].user].present
        BY DEF BondedSessions
    <2>1. CASE t.doc.sessions[i] = Loaded.sessions[i]
        BY <1>1, <1>2, <2>1 DEF Bonded, BondedSessions, Grown
    <2>2. CASE t.doc.sessions[i] # Loaded.sessions[i]
        <3>1. /\ t.doc.sessions[i] = [token |-> issued + 1, user |-> login[s]]
              /\ login[s] # NoUser
            BY <1>2, <2>2 DEF SessionsFrom
        <3>2. /\ t.doc.sessions[i].token = issued + 1
              /\ t.doc.sessions[i].user = login[s]
            BY <3>1
        <3>3. issued + 1 # 0 /\ login[s] \in User
            BY <3>1 DEF AccessTyped
        <3>4. t.doc.users[login[s]].present
            BY <1>1, <1>2, <3>1, <3>3 DEF LoginsKnown, Grown
        <3>5. QED
            BY <3>2, <3>3, <3>4
    <2>3. QED
        BY <2>1, <2>2
<1>6. \A k \in Key : k[2] \in User \/ k[2] \in Client
    BY DEF Key, Principal
<1>7. BondedMembers(t.doc)
    BY <1>1, <1>2, <1>6 DEF Bonded, BondedMembers, MembersFrom, Grown
<1>8. QED
    BY <1>4, <1>5, <1>7 DEF Bonded

\* Tokens are numbered as they are given out, and never twice.
LEMMA TokenFacts ==
    ASSUME AccessTyped, Numbered, Agreed
    PROVE  /\ issued \in Nat
           /\ \A i \in Slot : db.sessions[i].token \in 0..issued
           /\ \A i \in Slot, s \in Server : Copy(s).sessions[i].token \in 0..issued
           /\ \A i, j \in Slot :
                 db.sessions[i].token = db.sessions[j].token /\ db.sessions[i].token # 0
                 => i = j
<1>1. issued \in Nat
    BY DEF AccessTyped
<1>2. \A i \in Slot : db.sessions[i].token \in Nat
    BY DEF AccessTyped, State, SessionRow
<1>3. \A i \in Slot, s \in Server : Copy(s).sessions[i].token \in Nat
    BY DEF AccessTyped, TxState, State, SessionRow, Copy
<1>4. \A i \in Slot : /\ db.sessions[i] \in Seen(i)
                      /\ \A s \in Server : Copy(s).sessions[i] \in Seen(i)
    BY DEF Seen
<1>5. QED
    BY <1>1, <1>2, <1>3, <1>4 DEF Numbered, Agreed

\* What a new operation ends and takes is not in its copy.
LEMMA CopySound ==
    ASSUME AccessTyped, Bonded(db), LoginsKnown, Numbered, Agreed, NEW s \in Server,
           NEW t \in TxState, NEW next, Copied(s, t, next), Tallied(t),
           t.pc = IF store = "postgres" /\ t.drop # NoDrop THEN "drop" ELSE "save"
    PROVE  Sound(t)
<1>1. /\ Loaded.sessions = db.sessions /\ Bonded(Loaded) /\ Loaded \in State
      /\ ~ LegacyFlatPool(Loaded)
    BY LoadedFacts, LoadedBonded
<1>2. t.doc \in State /\ t.drop \in Drop /\ t.leaves \in SUBSET Key /\ Bonded(t.doc)
    BY CopyBonded DEF TxState
<1>3. /\ issued \in Nat
      /\ \A i \in Slot : db.sessions[i].token \in 0..issued
      /\ \A i, j \in Slot :
            db.sessions[i].token = db.sessions[j].token /\ db.sessions[i].token # 0 => i = j
    BY TokenFacts
<1>4. t.ends \subseteq 1..issued
    BY <1>1, <1>3 DEF Tallied, SessionsEnd
<1>5. ASSUME NEW i \in Slot, t.doc.sessions[i].token \in t.ends
      PROVE  FALSE
    <2>1. t.doc.sessions[i].token \in 1..issued
        BY <1>4, <1>5
    <2>2. PICK j \in Slot : /\ db.sessions[j].token = t.doc.sessions[i].token
                            /\ t.doc.sessions[j] = NoSession
        BY <1>1, <1>5 DEF Tallied, SessionsEnd
    <2>3. t.doc.sessions[i] # NoSession
        BY <2>1, Blank
    <2>4. CASE t.doc.sessions[i] = db.sessions[i]
        BY <1>3, <2>1, <2>2, <2>3, <2>4
    <2>5. CASE t.doc.sessions[i] # db.sessions[i]
        <3>1. t.doc.sessions[i] = [token |-> issued + 1, user |-> login[s]]
            BY <1>1, <2>3, <2>5 DEF Copied, SessionsFrom
        <3>2. t.doc.sessions[i].token = issued + 1
            BY <3>1
        <3>3. QED
            BY <1>3, <2>1, <3>2
    <2>6. QED
        BY <2>4, <2>5
<1>6. t.makes \subseteq Client \ Device
    BY DEF Tallied, ClientsMade
<1>7. /\ \A k \in t.leaves : ~ t.doc.members[k].present
      /\ t.leaves # {} => t.drop.keys # {}
      /\ t.drop.keys \subseteq t.leaves
      /\ t.drop.keys # {} => t.makes = {} /\ t.joins = {} /\ t.ends = {} /\ t.signs = NoUser
    BY DEF Tallied, MembersLeave
<1>8. t.leaves # {} => t.doc.workspaces # {}
    BY <1>1, <1>2 DEF Tallied, MembersLeave, Bonded, BondedMembers, Copied, Grown
<1>9. t.makes # {} => ~ LegacyFlatPool(t.doc)
    BY <1>1 DEF Tallied, ClientsMade, Copied, LegacyFlatPool
<1>10. /\ t.signs # NoUser => t.doc.users[t.signs].present
       /\ t.doc.userDeviceMigrated
    BY DEF Tallied, Copied
<1>11. store = "postgres" /\ t.pc = "save" => t.drop.keys = {}
    BY Blank
<1>12. t.pc = "drop" =>
          /\ store = "postgres"
          /\ \A i \in Slot : t.doc.sessions[i] # NoSession =>
                i \notin t.drop.slots /\ t.doc.sessions[i].user # t.drop.user
    BY <1>2, PartyAssumption DEF Tallied, SessionsEnd, Bonded, BondedSessions
<1>13. QED
    BY <1>4, <1>5, <1>6, <1>7, <1>8, <1>9, <1>10, <1>11, <1>12 DEF Sound

\* To have all of what has all of a state is to have all of that state.
LEMMA GrownOn ==
    ASSUME NEW a, NEW b, NEW c, Grown(a, b), Grown(b, c)
    PROVE  Grown(a, c)
    BY DEF Grown

\* What is known of an operation stays known while tokens are given out.
LEMMA SoundStays ==
    ASSUME NEW t, Sound(t), issued \in Nat, issued' \in Nat, issued <= issued',
           store' = store
    PROVE  Sound(t)'
<1>1. 1..issued \subseteq 1..issued'
    OBVIOUS
<1>2. QED
    BY <1>1 DEF Sound

\* What a beginning leaves alone.
LEMMA OpensFacts ==
    ASSUME Remembering, Revocations', NEW s \in Server, Opens(s)
    PROVE  /\ AccessTyped /\ AccessTyped' /\ Bonded(db) /\ LoginsKnown
           /\ Numbered /\ Agreed
           /\ tx'[s] \in TxState /\ tx'[s].pc # "idle" /\ tx[s] = NoTx
           /\ \A r \in Server \ {s} : tx'[r] = tx[r]
           /\ store' = store /\ db' = db /\ exposed' = exposed /\ ended' = ended
           /\ removed' = removed /\ made' = made /\ late' = late /\ granted' = granted
           /\ issued \in Nat /\ issued' \in Nat /\ issued <= issued'
           /\ Copied(s, tx'[s], issued') /\ Tallied(tx'[s])
<1>1. /\ AccessTyped /\ AccessTyped' /\ Bonded(db) /\ LoginsKnown /\ IdleBlank
      /\ Numbered /\ Agreed
    BY DEF Remembering, Revocations, AllBonded
<1>2. tx'[s] \in TxState /\ issued \in Nat /\ issued' \in Nat
    BY <1>1 DEF AccessTyped
<1>3. tx'[s].pc # "idle" /\ tx[s] = NoTx
    BY <1>1 DEF Opens, IdleBlank
<1>4. /\ \A r \in Server \ {s} : tx'[r] = tx[r]
      /\ UNCHANGED <<store, db, exposed, history>>
      /\ Copied(s, tx'[s], issued') /\ Tallied(tx'[s])
      /\ issued' = issued \/ issued' = issued + 1
    BY DEF Opens
<1>5. issued <= issued'
    BY <1>2, <1>4
<1>6. QED
    BY <1>1, <1>2, <1>3, <1>4, <1>5 DEF history

\* A beginning keeps what the histories and the copies refer to.
LEMMA OpensScoped ==
    ASSUME Remembering, Revocations', NEW s \in Server, Opens(s)
    PROVE  Scoped' /\ AllBonded' /\ LoginsKnown' /\ IdleBlank' /\ FileCopies' /\ AllSound'
<1>1. PICK t : t = tx'[s]
    OBVIOUS
<1>2. /\ AccessTyped /\ AccessTyped' /\ Bonded(db) /\ LoginsKnown
      /\ Numbered /\ Agreed
      /\ t \in TxState /\ t.pc # "idle" /\ tx[s] = NoTx
      /\ \A r \in Server \ {s} : tx'[r] = tx[r]
      /\ store' = store /\ db' = db /\ exposed' = exposed /\ ended' = ended
      /\ removed' = removed /\ made' = made /\ late' = late /\ granted' = granted
      /\ issued \in Nat /\ issued' \in Nat /\ issued <= issued'
      /\ Copied(s, t, issued') /\ Tallied(t)
    BY <1>1, OpensFacts
<1>3. Scoped'
    <2>1. begun' \in 0..MaxOperations /\ issued' \in 0..MaxLogins
        BY BoundAssumption DEF Remembering, Scoped, Opens
    <2>2. 1..issued \subseteq 1..issued'
        BY <1>2
    <2>3. QED
        BY <1>2, <2>1, <2>2 DEF Remembering, Scoped
<1>4. Bonded(t.doc)
    BY <1>2, CopyBonded
<1>5. AllBonded'
    BY <1>1, <1>2, <1>4 DEF Remembering, AllBonded, Copy
<1>6. LoginsKnown'
    BY <1>2 DEF LoginsKnown, Opens
<1>7. IdleBlank'
    BY <1>1, <1>2 DEF Remembering, IdleBlank, Busy
<1>8. FileCopies'
    <2> SUFFICES ASSUME store' = "file", NEW r \in Server, Busy(r)'
                 PROVE  Grown(db', Copy(r)')
        BY DEF FileCopies
    <2>1. r = s
        BY <1>2 DEF Busy, Opens, Revocations, CopiesRevoked
    <2>2. Grown(db, Loaded) /\ Grown(Loaded, t.doc)
        BY <1>2, LoadedFacts DEF Copied
    <2>3. Grown(db, t.doc)
        BY <2>2, GrownOn
    <2>4. QED
        BY <1>1, <1>2, <2>1, <2>3 DEF Copy
<1>9. AllSound'
    <2>1. Sound(t)
        BY <1>1, <1>2, CopySound DEF Opens
    <2>2. Sound(t)'
        BY <1>2, <2>1, SoundStays
    <2>3. ASSUME NEW r \in Server PROVE Sound(tx[r])'
        <3>1. PICK u : u = tx'[r]
            OBVIOUS
        <3>2. CASE r = s
            BY <1>1, <2>2, <3>2
        <3>3. CASE r # s
            <4>1. u = tx[r] /\ Sound(tx[r])
                BY <1>2, <3>1, <3>3 DEF Remembering, AllSound
            <4>2. Sound(u)
                BY <4>1
            <4>3. Sound(u)'
                BY <1>2, <4>2, SoundStays
            <4>4. QED
                BY <3>1, <4>3
        <3>4. QED
            BY <3>2, <3>3
    <2>4. QED
        BY <2>3 DEF AllSound
<1>10. QED
    BY <1>3, <1>5, <1>6, <1>7, <1>8, <1>9

\* A beginning makes only clients that nobody has, and loads no others.
LEMMA OpensClients ==
    ASSUME Remembering, Revocations', NEW s \in Server, Opens(s)
    PROVE  Foreseen' /\ Unfitted' /\ MembersKnown'
<1>1. PICK t : t = tx'[s]
    OBVIOUS
<1>2. /\ AccessTyped /\ Bonded(db) /\ db' = db /\ made' = made
      /\ t \in TxState /\ tx[s] = NoTx /\ \A r \in Server \ {s} : tx'[r] = tx[r]
      /\ Copied(s, t, issued') /\ Tallied(t)
    BY <1>1, OpensFacts
<1>3. /\ \A c \in Client : /\ Loaded.clients[c].present = db.clients[c].present
                           /\ \/ Loaded.clients[c].user = db.clients[c].user
                              \/ ~ db.userDeviceMigrated /\ db.clients[c].present
      /\ Bonded(Loaded)
    BY <1>2, LoadedFacts, LoadedBonded
<1>4. Foreseen /\ Unfitted /\ MembersKnown /\ Scoped /\ AllSound /\ AllBonded
    BY DEF Remembering
<1>5. Foreseen'
    BY <1>1, <1>2, <1>3, <1>4 DEF Foreseen, Copy, Copied, ClientsFrom
<1>6. ASSUME NEW c \in Client, Making(c)'
      PROVE  /\ db.clients[c].user = NoUser
             /\ db.clients[c].present => db.userDeviceMigrated
             /\ \A r \in Server : Copy(r)'.clients[c].user = NoUser
    <2>1. CASE Making(c)
        <3>1. /\ db.clients[c].user = NoUser
              /\ db.clients[c].present => db.userDeviceMigrated
              /\ \A r \in Server : Copy(r).clients[c].user = NoUser
            BY <1>4, <2>1 DEF Unfitted
        <3>2. c \notin Device
            BY <1>4, <2>1 DEF Making, Scoped, AllSound, Sound
        <3>3. t.doc.clients[c].user = NoUser
            BY <1>2, <1>3, <3>1, <3>2 DEF Copied, ClientsFrom
        <3>4. QED
            BY <1>1, <1>2, <3>1, <3>3 DEF Copy
    <2>2. CASE ~ Making(c)
        <3>1. c \in t.makes
            BY <1>1, <1>2, <1>6, <2>2 DEF Making
        <3>2. c \notin Device /\ ~ db.clients[c].present /\ t.doc.clients[c].user = NoUser
            BY <1>2, <1>3, <3>1 DEF Tallied, ClientsMade
        <3>3. db.clients[c].user = NoUser
            BY <1>2, <3>2 DEF Bonded, BondedClients
        <3>4. ASSUME NEW r \in Server PROVE Copy(r).clients[c].user = NoUser
            <4>1. ~ Copy(r).clients[c].present
                BY <1>4, <2>2, <3>2 DEF Foreseen, Making
            <4>2. QED
                BY <1>4, <4>1 DEF AllBonded, Bonded, BondedClients
        <3>5. QED
            BY <1>1, <1>2, <3>2, <3>3, <3>4 DEF Copy
    <2>3. QED
        BY <2>1, <2>2
<1>7. Unfitted'
    BY <1>2, <1>6 DEF Unfitted
<1>8. MembersKnown'
    <2> SUFFICES ASSUME NEW r \in Server, NEW k \in Key, Copy(r)'.members[k].present,
                        k[2] \in Client
                 PROVE  db.clients[k[2]].present
        BY <1>2 DEF MembersKnown
    <2>1. CASE r # s
        BY <1>2, <1>4, <2>1 DEF MembersKnown, Copy
    <2>2. CASE r = s
        <3>1. t.doc.members[k].present /\ k[2] \notin User
            BY <1>1, <2>2, PartyAssumption DEF Copy
        <3>2. Loaded.clients[k[2]].present
            BY <1>2, <1>3, <3>1 DEF Copied, MembersFrom, Bonded, BondedMembers
        <3>3. QED
            BY <1>3, <3>2
    <2>3. QED
        BY <2>1, <2>2
<1>9. QED
    BY <1>5, <1>7, <1>8

\* A beginning enrols no client that was made after the migration.
LEMMA OpensPools ==
    ASSUME Remembering, Revocations', NEW s \in Server, Opens(s)
    PROVE  PoolMigrated' /\ Enrolments'
<1>1. PICK t : t = tx'[s]
    OBVIOUS
<1>2. /\ AccessTyped /\ Bonded(db) /\ db' = db /\ late' = late /\ granted' = granted
      /\ t \in TxState /\ tx[s] = NoTx /\ \A r \in Server \ {s} : tx'[r] = tx[r]
      /\ Copied(s, t, issued') /\ Tallied(t)
    BY <1>1, OpensFacts
<1>3. /\ \A c \in Client : Loaded.clients[c].present = db.clients[c].present
      /\ Loaded.workspaceMigrated = (db.workspaceMigrated \/ LegacyFlatPool(db))
      /\ \A k \in Key : Loaded.members[k].present <=>
            \/ db.members[k].present
            \/ /\ LegacyFlatPool(db) /\ k[1] = DefaultWorkspace
               /\ k[2] \in Client /\ db.clients[k[2]].present
    BY <1>2, LoadedFacts
<1>4. Foreseen /\ MembersKnown /\ PoolMigrated /\ Enrolments /\ IdleBlank
    BY DEF Remembering
<1>5. t.doc.workspaceMigrated = (db.workspaceMigrated \/ LegacyFlatPool(db))
    BY <1>2, <1>3 DEF Copied
<1>6. \A c \in t.makes : c \in Client \ Device /\ ~ db.clients[c].present
    BY <1>2, <1>3 DEF Tallied, ClientsMade
<1>7. PoolMigrated'
    BY <1>1, <1>2, <1>4, <1>5, <1>6 DEF PoolMigrated, Busy, Copy
<1>8. MembersKnown'
    BY OpensClients
<1>9. ASSUME NEW c \in Client, Settled(c)'
      PROVE  /\ c \in late => db.workspaceMigrated
             /\ db.members[<<DefaultWorkspace, c>>].present =>
                   <<DefaultWorkspace, c>> \in granted
             /\ \A r \in Server :
                   /\ Copy(r)'.members[<<DefaultWorkspace, c>>].present =>
                         <<DefaultWorkspace, c>> \in granted \cup tx'[r].joins
                   /\ Copy(r)'.clients[c].present /\ ~ Copy(r)'.workspaceMigrated =>
                         c \in tx'[r].makes
    <2> DEFINE k == <<DefaultWorkspace, c>>
    <2>1. /\ k \in Key /\ k[1] = DefaultWorkspace /\ k[2] = c /\ c \notin User
        BY PartyAssumption DEF Key, Principal
    <2> HIDE DEF k
    <2>2. CASE Settled(c)
        <3>1. /\ c \in late => db.workspaceMigrated
              /\ db.members[k].present => k \in granted
              /\ \A r \in Server :
                    /\ Copy(r).members[k].present => k \in granted \cup tx[r].joins
                    /\ Copy(r).clients[c].present /\ ~ Copy(r).workspaceMigrated =>
                          c \in tx[r].makes
            BY <1>4, <2>2 DEF Enrolments, k
        <3>2. /\ LegacyFlatPool(db) => ~ db.clients[c].present
              /\ db.workspaceMigrated \/ LegacyFlatPool(db)
            <4>1. CASE c \in late
                BY <3>1, <4>1 DEF LegacyFlatPool
            <4>2. CASE c \notin late
                <5>1. PICK r \in Server : c \in tx[r].makes /\ Copy(r).workspaceMigrated
                    BY <2>2, <4>2 DEF Settled
                <5>2. Busy(r)
                    BY <1>4, <5>1, Blank DEF IdleBlank
                <5>3. QED
                    BY <1>4, <5>1, <5>2 DEF PoolMigrated
            <4>3. QED
                BY <4>1, <4>2
        <3>3. t.doc.members[k].present => k \in granted \cup t.joins
            BY <1>2, <1>3, <2>1, <3>1, <3>2 DEF Copied, MembersFrom
        <3>4. t.doc.workspaceMigrated
            BY <1>5, <3>2
        <3>5. QED
            BY <1>1, <1>2, <3>1, <3>3, <3>4 DEF Copy, k
    <2>3. CASE ~ Settled(c)
        <3>1. c \in t.makes /\ c \notin late
            BY <1>1, <1>2, <1>9, <2>3 DEF Settled, Copy
        <3>2. ~ db.clients[c].present /\ c \notin Device
            BY <1>6, <3>1
        <3>3. ~ db.members[k].present
            BY <1>2, <2>1, <3>2 DEF Bonded, BondedMembers
        <3>4. \A r \in Server : ~ Copy(r)'.members[k].present
            BY <1>2, <1>8, <2>1, <3>2 DEF MembersKnown
        <3>5. ASSUME NEW r \in Server, Copy(r)'.clients[c].present PROVE c \in tx'[r].makes
            <4>1. CASE r = s
                BY <1>1, <3>1, <4>1
            <4>2. CASE r # s
                BY <1>2, <1>4, <3>2, <3>5, <4>2 DEF Foreseen, Copy
            <4>3. QED
                BY <4>1, <4>2
        <3>6. QED
            BY <3>1, <3>3, <3>4, <3>5 DEF k
    <2>4. QED
        BY <2>2, <2>3
<1>10. Enrolments'
    BY <1>2, <1>9 DEF Enrolments
<1>11. QED
    BY <1>7, <1>10

\* A beginning gives out a new token at most once, and has deleted what it ends.
LEMMA OpensSessions ==
    ASSUME Remembering, Revocations', NEW s \in Server, Opens(s)
    PROVE  Numbered' /\ Agreed' /\ Unended' /\ Covered' /\ EndedGone'
<1>1. PICK t : t = tx'[s]
    OBVIOUS
<1>2. PICK new : new = [token |-> issued + 1, user |-> login[s]]
    OBVIOUS
<1>3. /\ AccessTyped /\ AccessTyped' /\ db' = db /\ store' = store
      /\ exposed' = exposed /\ ended' = ended
      /\ t \in TxState /\ tx[s] = NoTx /\ \A r \in Server \ {s} : tx'[r] = tx[r]
      /\ issued' \in Nat /\ issued <= issued'
      /\ Copied(s, t, issued') /\ Tallied(t)
      /\ Numbered /\ Agreed
    BY <1>1, OpensFacts
<1>4. /\ issued \in Nat
      /\ \A i \in Slot : db.sessions[i].token \in 0..issued
      /\ \A i \in Slot, r \in Server : Copy(r).sessions[i].token \in 0..issued
      /\ \A i, j \in Slot :
            db.sessions[i].token = db.sessions[j].token /\ db.sessions[i].token # 0 => i = j
    BY <1>3, TokenFacts
<1>5. /\ Loaded.sessions = db.sessions /\ new.token = issued + 1
      /\ NoSession.token = 0
    BY <1>2, <1>3, LoadedFacts, Blank
<1>6. \A i \in Slot : t.doc.sessions[i] \notin {db.sessions[i], NoSession} =>
         /\ t.doc.sessions[i] = new /\ issued' = issued + 1
         /\ \A j \in Slot : t.doc.sessions[j] \notin {db.sessions[j], NoSession} => i = j
    BY <1>2, <1>3, <1>5 DEF Copied, SessionsFrom
<1>7. ASSUME NEW i \in Slot, NEW x \in Seen(i)'
      PROVE  \/ x \in Seen(i) /\ x.token \in 0..issued
             \/ x = NoSession
             \/ x = new /\ x = t.doc.sessions[i] /\ x # db.sessions[i] /\ issued' = issued + 1
    <2>1. CASE x = db.sessions[i]
        BY <1>4, <2>1 DEF Seen
    <2>2. CASE x # db.sessions[i]
        <3>1. PICK r \in Server : x = tx'[r].doc.sessions[i]
            BY <1>3, <1>7, <2>2 DEF Seen, Copy
        <3>2. CASE r = s
            BY <1>1, <1>6, <2>2, <3>1, <3>2
        <3>3. CASE r # s
            BY <1>3, <1>4, <3>1, <3>3 DEF Seen, Copy
        <3>4. QED
            BY <3>2, <3>3
    <2>3. QED
        BY <2>1, <2>2
<1>8. Numbered'
    BY <1>3, <1>4, <1>5, <1>7 DEF Numbered
<1>9. Agreed'
    <2> SUFFICES ASSUME NEW i \in Slot, NEW j \in Slot, NEW x \in Seen(i)', NEW y \in Seen(j)',
                        x.token = y.token, x.token # 0
                 PROVE  i = j /\ x = y
        BY DEF Agreed
    <2>1. CASE x \in Seen(i) /\ x.token \in 0..issued
        <3>1. y.token # issued + 1 /\ y.token # 0
            BY <1>4, <2>1
        <3>2. y \in Seen(j)
            BY <1>5, <1>7, <3>1
        <3>3. QED
            BY <1>3, <2>1, <3>2 DEF Agreed
    <2>2. CASE x = new /\ x = t.doc.sessions[i] /\ x # db.sessions[i]
        <3>1. y.token \notin 0..issued
            BY <1>4, <1>5, <2>2
        <3>2. y = new /\ y = t.doc.sessions[j] /\ y # db.sessions[j]
            BY <1>4, <1>5, <1>7, <3>1
        <3>3. new # NoSession
            BY <2>2, <1>5
        <3>4. QED
            BY <1>6, <2>2, <3>2, <3>3
    <2>3. QED
        BY <1>5, <1>7, <2>1, <2>2
<1>10. /\ \A x \in t.ends : x # 0 /\ \E i \in Slot :
             /\ db.sessions[i].token = x
             /\ i \in t.drop.slots \/ db.sessions[i].user = t.drop.user
       /\ t.ends # {} => t.drop # NoDrop
    BY <1>3, <1>5 DEF Tallied, SessionsEnd
<1>11. \A r \in Server : tx[r].ends \subseteq 1..issued
    BY DEF Remembering, AllSound, Sound
<1>12. Unended'
    <2> SUFFICES ASSUME NEW r \in Server, NEW x \in (1..issued') \ exposed.tokens,
                        Has(Copy(r)', x), ~ Has(db, x), NEW q \in Server
                 PROVE  x \notin ended /\ x \notin tx'[q].ends
        BY <1>3 DEF Unended
    <2>1. x \notin t.ends
        BY <1>10 DEF Has
    <2>2. CASE r # s
        <3>1. Has(Copy(r), x)
            BY <1>3, <2>2 DEF Copy
        <3>2. x \in 1..issued
            BY <1>3, <1>4, <3>1 DEF Has
        <3>3. x \notin ended /\ \A p \in Server : x \notin tx[p].ends
            BY <3>1, <3>2 DEF Remembering, Unended
        <3>4. QED
            BY <1>1, <1>3, <2>1, <3>3
    <2>3. CASE r = s
        <3>1. PICK i \in Slot : t.doc.sessions[i].token = x
            BY <1>1, <2>3 DEF Has, Copy
        <3>2. x # 0 /\ db.sessions[i].token # x
            BY DEF Has
        <3>3. x = issued + 1
            BY <1>5, <1>6, <3>1, <3>2
        <3>4. ended \subseteq 1..issued
            BY DEF Remembering, Scoped
        <3>5. x \notin 1..issued
            BY <1>4, <3>3
        <3>6. QED
            BY <1>1, <1>3, <1>11, <2>1, <3>4, <3>5
    <2>4. QED
        BY <2>2, <2>3
<1>13. Covered'
    <2> SUFFICES ASSUME NEW r \in Server, NEW x \in tx'[r].ends \ exposed.tokens
                 PROVE  /\ tx'[r].pc = "drop" => \A i \in Slot : db.sessions[i].token = x =>
                              i \in tx'[r].drop.slots \/ db.sessions[i].user = tx'[r].drop.user
                        /\ store = "postgres" /\ tx'[r].pc = "save" => ~ Has(db, x)
        BY <1>3 DEF Covered, Has
    <2>1. CASE r # s
        BY <1>3, <2>1 DEF Remembering, Covered
    <2>2. CASE r = s
        <3>1. x # 0 /\ t.drop # NoDrop /\ \E i \in Slot :
                 /\ db.sessions[i].token = x
                 /\ i \in t.drop.slots \/ db.sessions[i].user = t.drop.user
            BY <1>1, <1>10, <2>2
        <3>2. \A i \in Slot : db.sessions[i].token = x =>
                 i \in t.drop.slots \/ db.sessions[i].user = t.drop.user
            BY <1>4, <3>1
        <3>3. store = "postgres" => t.pc = "drop"
            BY <1>1, <3>1 DEF Opens
        <3>4. QED
            BY <1>1, <2>2, <3>2, <3>3
    <2>3. QED
        BY <2>1, <2>2
<1>14. EndedGone'
    BY <1>3 DEF Remembering, EndedGone, Has
<1>15. QED
    BY <1>8, <1>9, <1>12, <1>13, <1>14

\* A beginning has in its copy no membership that was taken away, but one that
\* it gives.
LEMMA OpensMembers ==
    ASSUME Remembering, Revocations', NEW s \in Server, Opens(s)
    PROVE  RemovedGone'
<1>1. PICK t : t = tx'[s]
    OBVIOUS
<1>2. /\ AccessTyped /\ db' = db /\ exposed' = exposed /\ removed' = removed
      /\ t \in TxState /\ tx[s] = NoTx /\ \A r \in Server \ {s} : tx'[r] = tx[r]
      /\ Copied(s, t, issued')
    BY <1>1, OpensFacts
<1>3. PICK n : n = normalizeState(t.doc)
    OBVIOUS
<1>4. t.doc \in State
    BY <1>2 DEF TxState
<1>5. \A k \in Key : n.members[k].present <=>
         \/ t.doc.members[k].present
         \/ /\ LegacyFlatPool(t.doc) /\ k[1] = DefaultWorkspace
            /\ k[2] \in Client /\ t.doc.clients[k[2]].present
    BY <1>3, <1>4, Normalized
<1>6. /\ Grown(db, Loaded)
      /\ \A k \in Key : Loaded.members[k].present <=>
            \/ db.members[k].present
            \/ /\ LegacyFlatPool(db) /\ k[1] = DefaultWorkspace
               /\ k[2] \in Client /\ db.clients[k[2]].present
    BY <1>2, LoadedFacts
<1>7. RemovedGone /\ removed \subseteq Key
    BY DEF Remembering, Scoped
<1>8. ASSUME NEW k \in removed \ exposed.keys, n.members[k].present
      PROVE  k \in t.joins
    <2>1. k \in Key /\ ~ db.members[k].present /\ db.workspaces # {}
        BY <1>7 DEF RemovedGone
    <2>2. db.workspaces \subseteq t.doc.workspaces
        BY <1>2, <1>6 DEF Copied, Grown
    <2>3. ~ LegacyFlatPool(db) /\ ~ LegacyFlatPool(t.doc)
        BY <2>1, <2>2 DEF LegacyFlatPool
    <2>4. ~ Loaded.members[k].present /\ t.doc.members[k].present
        BY <1>5, <1>6, <1>8, <2>1, <2>3
    <2>5. QED
        BY <1>2, <2>1, <2>4 DEF Copied, MembersFrom
<1>9. ASSUME NEW k \in removed \ exposed.keys, NEW r \in Server, Busy(r)',
             normalizeState(Copy(r)').members[k].present
      PROVE  k \in tx'[r].joins
    <2>1. CASE r = s
        <3>1. n.members[k].present
            BY <1>1, <1>3, <1>9, <2>1 DEF Copy
        <3>2. QED
            BY <1>1, <1>8, <2>1, <3>1
    <2>2. CASE r # s
        <3>1. tx'[r] = tx[r]
            BY <1>2, <2>2
        <3>2. Busy(r) /\ normalizeState(Copy(r)).members[k].present
            BY <1>9, <3>1 DEF Busy, Copy
        <3>3. QED
            BY <1>7, <3>1, <3>2 DEF RemovedGone
    <2>3. QED
        BY <2>1, <2>2
<1>10. \A k \in removed \ exposed.keys : ~ db.members[k].present /\ db.workspaces # {}
    BY <1>7 DEF RemovedGone
<1>11. QED
    BY <1>2, <1>9, <1>10 DEF RemovedGone

\* A beginning keeps the invariant.
LEMMA OpensKeeps ==
    ASSUME Remembering, Revocations', NEW s \in Server, Opens(s)
    PROVE  Remembering'
    BY OpensFacts, OpensScoped, OpensClients, OpensPools, OpensSessions, OpensMembers
       DEF Remembering

-----------------------------------------------------------------------------
(* A statement keeps the invariant                                         *)

\* Rows that are seen no more, or whose slot is empty, break no numbering.
LEMMA SeenLess ==
    ASSUME Remembering, issued' = issued,
           \A i \in Slot : Seen(i)' \subseteq Seen(i) \cup {NoSession}
    PROVE  Numbered' /\ Agreed'
<1>1. Numbered /\ Agreed /\ issued \in Nat
    BY DEF Remembering, Revocations, AccessTyped
<1>2. NoSession.token = 0
    BY Blank
<1>3. Numbered'
    BY <1>1, <1>2 DEF Numbered
<1>4. Agreed'
    <2> SUFFICES ASSUME NEW i \in Slot, NEW j \in Slot, NEW x \in Seen(i)', NEW y \in Seen(j)',
                        x.token = y.token, x.token # 0
                 PROVE  i = j /\ x = y
        BY DEF Agreed
    <2>1. x \in Seen(i) /\ y \in Seen(j)
        BY <1>2
    <2>2. QED
        BY <1>1, <2>1 DEF Agreed
<1>5. QED
    BY <1>3, <1>4

\* An answer keeps the histories to what there can be.
LEMMA AnswersScoped ==
    ASSUME Remembering, NEW s \in Server, Answers(s), issued' = issued, begun' = begun,
           exposed' \in [tokens : SUBSET (1..issued), keys : SUBSET Key]
    PROVE  Scoped'
<1>1. tx[s] \in TxState /\ Sound(tx[s]) /\ Scoped
    BY DEF Remembering, Revocations, AccessTyped, AllSound
<1>2. tx[s].ends \subseteq 1..issued /\ tx[s].makes \subseteq Client \ Device
    BY <1>1 DEF Sound
<1>3. tx[s].leaves \subseteq Key /\ tx[s].joins \subseteq Key
    BY <1>1 DEF TxState
<1>4. QED
    BY <1>1, <1>2, <1>3 DEF Answers, Scoped

\* What is known of the other operations and of none stays known.
LEMMA AnswersCopies ==
    ASSUME Remembering, NEW s \in Server, Answers(s), issued' = issued, store' = store
    PROVE  /\ \A r \in Server : Bonded(Copy(r)')
           /\ IdleBlank' /\ AllSound'
<1>1. /\ tx'[s] = NoTx /\ \A r \in Server \ {s} : tx'[r] = tx[r]
      /\ issued \in Nat /\ issued' \in Nat /\ issued <= issued'
    BY DEF Answers, Remembering, Revocations, AccessTyped
<1>2. AllBonded /\ IdleBlank /\ AllSound
    BY DEF Remembering
<1>3. \A r \in Server : Bonded(Copy(r)')
    BY <1>1, <1>2, Blank DEF AllBonded, Copy
<1>4. IdleBlank'
    BY <1>1, <1>2 DEF IdleBlank, Busy
<1>5. ASSUME NEW r \in Server PROVE Sound(tx[r])'
    <2>1. PICK u : u = tx'[r]
        OBVIOUS
    <2>2. Sound(u)
        BY <1>1, <1>2, <2>1, Blank DEF AllSound
    <2>3. Sound(u)'
        BY <1>1, <2>2, SoundStays
    <2>4. QED
        BY <2>1, <2>3
<1>6. QED
    BY <1>3, <1>4, <1>5 DEF AllSound

\* What a statement leaves alone, and what its operation is after it.
LEMMA DeletesFacts ==
    ASSUME Remembering, NEW s \in Server, Deletes(s)
    PROVE  /\ AccessTyped /\ store = "postgres" /\ store' = store
           /\ issued' = issued /\ issued \in Nat
           /\ Sound(tx[s]) /\ tx[s].pc = "drop" /\ Busy(s)
           /\ \A r \in Server \ {s} : tx'[r] = tx[r]
           /\ \/ tx'[s] = NoTx
              \/ /\ tx'[s].doc = tx[s].doc /\ tx'[s].ends = tx[s].ends
                 /\ tx'[s].joins = tx[s].joins /\ tx'[s].makes = tx[s].makes
                 /\ tx'[s].leaves = tx[s].leaves
           /\ made' = made /\ late' = late /\ ended' = ended
           /\ granted \subseteq granted'
           /\ \A i \in Slot : db'.sessions[i] \in {db.sessions[i], NoSession}
           /\ \A k \in Key : db'.members[k].present => db.members[k].present
           /\ LegacyFlatPool(db') = LegacyFlatPool(db)
<1>1. /\ AccessTyped /\ Sound(tx[s]) /\ issued \in Nat
    BY DEF Remembering, Revocations, AccessTyped, AllSound
<1>2. /\ tx[s].pc = "drop" /\ UNCHANGED <<store, issued, begun>>
      /\ \A i \in Slot : db'.sessions[i] = IF Deleted(s, i) THEN NoSession ELSE db.sessions[i]
      /\ \A k \in Key : db'.members[k].present <=>
                           k \notin tx[s].drop.keys /\ db.members[k].present
      /\ db'.workspaces = db.workspaces /\ db'.accounts = db.accounts
      /\ db'.workspaceMigrated = db.workspaceMigrated
      /\ \/ tx[s].drop.keys # {} /\ Answers(s)
         \/ tx[s].drop.keys = {} /\ Proceeds(s)
    BY Zenon DEF Deletes
<1>3. store = "postgres" /\ store' = store /\ issued' = issued /\ Busy(s)
    BY <1>1, <1>2 DEF Sound, Busy
<1>4. LegacyFlatPool(db') = LegacyFlatPool(db)
    BY <1>2 DEF LegacyFlatPool
<1>5. CASE tx[s].drop.keys # {} /\ Answers(s)
    <2>1. tx[s].makes = {} /\ tx[s].ends = {}
        BY <1>1, <1>5 DEF Sound
    <2>2. made' = made /\ late' = late /\ ended' = ended /\ granted \subseteq granted'
        BY <1>5, <2>1 DEF Answers
    <2>3. tx'[s] = NoTx /\ \A r \in Server \ {s} : tx'[r] = tx[r]
        BY <1>5 DEF Answers
    <2>4. QED
        BY <1>1, <1>2, <1>3, <1>4, <2>2, <2>3
<1>6. CASE tx[s].drop.keys = {} /\ Proceeds(s)
    BY <1>1, <1>2, <1>3, <1>4, <1>6 DEF Proceeds, history
<1>7. QED
    BY <1>2, <1>5, <1>6

\* A statement opens no reference, and what is known of the operation stays.
LEMMA DeletesScoped ==
    ASSUME Remembering, NEW s \in Server, Deletes(s)
    PROVE  Scoped' /\ AllBonded' /\ LoginsKnown' /\ IdleBlank' /\ FileCopies' /\ AllSound'
<1>1. /\ AccessTyped /\ store = "postgres" /\ store' = store
      /\ issued' = issued /\ issued \in Nat /\ Sound(tx[s])
      /\ \A i \in Slot : db'.sessions[i] \in {db.sessions[i], NoSession}
      /\ \A k \in Key : db'.members[k].present => db.members[k].present
    BY DeletesFacts
<1>2. /\ begun' = begun /\ db'.users = db.users /\ db'.workspaces = db.workspaces
      /\ exposed' \in [tokens : SUBSET (1..issued), keys : SUBSET Key]
      /\ \A c \in Client : /\ db'.clients[c].present = db.clients[c].present
                           /\ db'.clients[c].user = db.clients[c].user
      /\ \/ tx[s].drop.keys # {} /\ Answers(s)
         \/ tx[s].drop.keys = {} /\ Proceeds(s)
    BY Zenon DEF Deletes
<1>3. FileCopies'
    BY <1>1 DEF FileCopies
<1>4. Bonded(db')
    <2>1. Bonded(db) /\ \A k \in Key : k[2] \in User \/ k[2] \in Client
        BY DEF Remembering, AllBonded, Key, Principal
    <2>2. BondedClients(db')
        BY <1>2, <2>1 DEF Bonded, BondedClients
    <2>3. BondedSessions(db')
        BY <1>1, <1>2, <2>1 DEF Bonded, BondedSessions
    <2>4. BondedMembers(db')
        BY <1>1, <1>2, <2>1 DEF Bonded, BondedMembers
    <2>5. QED
        BY <2>2, <2>3, <2>4 DEF Bonded
<1>5. LoginsKnown /\ IdleBlank /\ AllSound /\ AllBonded /\ Scoped
    BY DEF Remembering
<1>6. CASE tx[s].drop.keys # {} /\ Answers(s)
    <2>1. Scoped'
        BY <1>1, <1>2, <1>6, AnswersScoped
    <2>2. /\ \A r \in Server : Bonded(Copy(r)')
          /\ IdleBlank' /\ AllSound'
        BY <1>1, <1>6, AnswersCopies
    <2>3. tx[s].signs = NoUser
        BY <1>1, <1>6 DEF Sound
    <2>4. LoginsKnown'
        BY <1>2, <1>5, <1>6, <2>3 DEF LoginsKnown, Answers
    <2>5. QED
        BY <1>3, <1>4, <2>1, <2>2, <2>4 DEF AllBonded
<1>7. CASE tx[s].drop.keys = {} /\ Proceeds(s)
    <2>1. /\ tx'[s].pc = "save" /\ tx'[s].doc = tx[s].doc /\ tx'[s].drop = tx[s].drop
          /\ tx'[s].ends = tx[s].ends /\ tx'[s].leaves = tx[s].leaves
          /\ tx'[s].joins = tx[s].joins /\ tx'[s].makes = tx[s].makes
          /\ tx'[s].signs = tx[s].signs
          /\ \A r \in Server \ {s} : tx'[r] = tx[r]
          /\ UNCHANGED <<login, history>>
        BY <1>7 DEF Proceeds
    <2>2. Scoped'
        BY <1>1, <1>2, <1>5, <2>1 DEF Scoped, history
    <2>3. \A r \in Server : Copy(r)' = Copy(r)
        BY <2>1 DEF Copy
    <2>4. AllBonded'
        BY <1>4, <1>5, <2>3 DEF AllBonded
    <2>5. LoginsKnown'
        BY <1>2, <1>5, <2>1 DEF LoginsKnown
    <2>6. IdleBlank'
        BY <1>5, <2>1 DEF IdleBlank, Busy
    <2>7. ASSUME NEW r \in Server PROVE Sound(tx[r])'
        <3>1. PICK u : u = tx'[r]
            OBVIOUS
        <3>2. CASE r = s
            <4>1. /\ u.pc = "save" /\ tx[s].pc = "drop" /\ u.drop.keys = {}
                  /\ u.doc = tx[s].doc /\ u.drop = tx[s].drop
                  /\ u.ends = tx[s].ends /\ u.leaves = tx[s].leaves
                  /\ u.joins = tx[s].joins /\ u.makes = tx[s].makes
                  /\ u.signs = tx[s].signs
                BY <1>7, <2>1, <3>1, <3>2, DeletesFacts
            <4>2. Sound(u)
                BY <1>1, <4>1 DEF Sound
            <4>3. Sound(u)'
                BY <1>1, <4>2, SoundStays
            <4>4. QED
                BY <3>1, <4>3
        <3>3. CASE r # s
            <4>1. Sound(u)
                BY <1>5, <2>1, <3>1, <3>3 DEF AllSound
            <4>2. Sound(u)'
                BY <1>1, <4>1, SoundStays
            <4>3. QED
                BY <3>1, <4>2
        <3>4. QED
            BY <3>2, <3>3
    <2>8. QED
        BY <1>3, <2>2, <2>4, <2>5, <2>6, <2>7 DEF AllSound
<1>8. QED
    BY <1>2, <1>6, <1>7

\* What a copy is after a statement, or an answer, is nothing or what it was.
LEMMA CopiesLess ==
    ASSUME NEW s \in Server, \A r \in Server \ {s} : tx'[r] = tx[r],
           \/ tx'[s] = NoTx
           \/ /\ tx'[s].doc = tx[s].doc /\ tx'[s].ends = tx[s].ends
              /\ tx'[s].joins = tx[s].joins /\ tx'[s].makes = tx[s].makes
              /\ tx'[s].leaves = tx[s].leaves,
           NEW r \in Server
    PROVE  /\ \A c \in Client : /\ Copy(r)'.clients[c].present => Copy(r).clients[c].present
                                /\ Copy(r)'.clients[c].user \in {Copy(r).clients[c].user, NoUser}
           /\ \A k \in Key : Copy(r)'.members[k].present => Copy(r).members[k].present
           /\ \A i \in Slot : Copy(r)'.sessions[i] \in {Copy(r).sessions[i], NoSession}
           /\ tx'[r].ends \subseteq tx[r].ends /\ tx'[r].makes \subseteq tx[r].makes
           /\ \/ tx'[r] = NoTx
              \/ /\ Copy(r)' = Copy(r) /\ tx'[r].joins = tx[r].joins
                 /\ tx'[r].makes = tx[r].makes
<1>1. CASE tx'[r] = NoTx
    BY <1>1, Blank DEF Copy
<1>2. CASE tx'[r] # NoTx
    BY <1>2 DEF Copy
<1>3. QED
    BY <1>1, <1>2

\* A statement takes no client away, and enrols none.
LEMMA DeletesClients ==
    ASSUME Remembering, NEW s \in Server, Deletes(s)
    PROVE  Foreseen' /\ Unfitted' /\ MembersKnown' /\ PoolMigrated' /\ Enrolments'
<1>1. /\ AccessTyped /\ Busy(s)
      /\ \A r \in Server \ {s} : tx'[r] = tx[r]
      /\ \/ tx'[s] = NoTx
         \/ /\ tx'[s].doc = tx[s].doc /\ tx'[s].ends = tx[s].ends
            /\ tx'[s].joins = tx[s].joins /\ tx'[s].makes = tx[s].makes
            /\ tx'[s].leaves = tx[s].leaves
      /\ made' = made /\ late' = late
      /\ granted \subseteq granted'
      /\ \A k \in Key : db'.members[k].present => db.members[k].present
      /\ LegacyFlatPool(db') = LegacyFlatPool(db)
    BY DeletesFacts
<1>2. /\ \A c \in Client : /\ db'.clients[c].present = db.clients[c].present
                           /\ db'.clients[c].user = db.clients[c].user
      /\ db'.workspaceMigrated = db.workspaceMigrated
      /\ db'.userDeviceMigrated = db.userDeviceMigrated
    BY Zenon DEF Deletes
<1>3. /\ Foreseen /\ Unfitted /\ MembersKnown /\ PoolMigrated /\ Enrolments /\ IdleBlank
    BY DEF Remembering
<1>4. ASSUME NEW r \in Server
      PROVE  /\ \A c \in Client :
                   /\ Copy(r)'.clients[c].present => Copy(r).clients[c].present
                   /\ Copy(r)'.clients[c].user \in {Copy(r).clients[c].user, NoUser}
             /\ \A k \in Key : Copy(r)'.members[k].present => Copy(r).members[k].present
             /\ tx'[r].makes \subseteq tx[r].makes
             /\ \/ tx'[r] = NoTx
                \/ /\ Copy(r)' = Copy(r) /\ tx'[r].joins = tx[r].joins
                   /\ tx'[r].makes = tx[r].makes
    BY <1>1, CopiesLess
<1>5. \A r \in Server : tx'[r] = NoTx =>
         /\ ~ Busy(r)' /\ tx'[r].makes = {}
         /\ \A c \in Client : ~ Copy(r)'.clients[c].present
         /\ \A k \in Key : ~ Copy(r)'.members[k].present
    BY Blank DEF Busy, Copy
<1>6. Foreseen'
    <2> SUFFICES ASSUME NEW r \in Server, NEW c \in Client \ Device, Copy(r)'.clients[c].present
                 PROVE  db.clients[c].present \/ c \in tx'[r].makes
        BY <1>2 DEF Foreseen
    <2>1. Copy(r).clients[c].present /\ tx'[r].makes = tx[r].makes
        BY <1>4, <1>5
    <2>2. QED
        BY <1>3, <2>1 DEF Foreseen
<1>7. \A c \in Client : Making(c)' => Making(c)
    BY <1>1, <1>4 DEF Making
<1>8. Unfitted'
    BY <1>2, <1>3, <1>4, <1>7 DEF Unfitted
<1>9. MembersKnown'
    BY <1>2, <1>3, <1>4 DEF MembersKnown
<1>10. PoolMigrated'
    <2> SUFFICES ASSUME NEW r \in Server, Busy(r)'
                 PROVE  /\ Copy(r)'.workspaceMigrated =>
                              db'.workspaceMigrated \/ LegacyFlatPool(db')
                        /\ LegacyFlatPool(db') => /\ Copy(r)'.workspaceMigrated
                              /\ \A c \in tx'[r].makes : ~ db'.clients[c].present
        BY DEF PoolMigrated
    <2>1. Copy(r)' = Copy(r) /\ tx'[r].makes = tx[r].makes
        BY <1>4, <1>5
    <2>2. Busy(r)
        BY <1>1 DEF Busy
    <2>3. tx[r].makes \subseteq Client
        BY <1>1 DEF AccessTyped, TxState
    <2>4. QED
        BY <1>1, <1>2, <1>3, <2>1, <2>2, <2>3 DEF PoolMigrated
<1>11. ASSUME NEW c \in Client, Settled(c)' PROVE Settled(c)
    <2>1. CASE c \in late'
        BY <1>1, <2>1 DEF Settled
    <2>2. CASE c \notin late'
        <3>1. PICK r \in Server : c \in tx'[r].makes /\ Copy(r)'.workspaceMigrated
            BY <1>11, <2>2 DEF Settled
        <3>2. Copy(r)' = Copy(r) /\ c \in tx[r].makes
            BY <1>4, <1>5, <3>1
        <3>3. QED
            BY <3>1, <3>2 DEF Settled
    <2>3. QED
        BY <2>1, <2>2
<1>12. ASSUME NEW c \in Client, Settled(c)', NEW k, k = <<DefaultWorkspace, c>>
       PROVE  /\ c \in late' => db'.workspaceMigrated
              /\ db'.members[k].present => k \in granted'
              /\ \A r \in Server :
                    /\ Copy(r)'.members[k].present => k \in granted' \cup tx'[r].joins
                    /\ Copy(r)'.clients[c].present /\ ~ Copy(r)'.workspaceMigrated =>
                          c \in tx'[r].makes
    <2>1. k \in Key
        BY <1>12, PartyAssumption DEF Key, Principal
    <2>2. /\ c \in late => db.workspaceMigrated
          /\ db.members[k].present => k \in granted
          /\ \A r \in Server :
                /\ Copy(r).members[k].present => k \in granted \cup tx[r].joins
                /\ Copy(r).clients[c].present /\ ~ Copy(r).workspaceMigrated =>
                      c \in tx[r].makes
        BY <1>3, <1>11, <1>12 DEF Enrolments
    <2>3. ASSUME NEW r \in Server
          PROVE  /\ Copy(r)'.members[k].present => k \in granted' \cup tx'[r].joins
                 /\ Copy(r)'.clients[c].present /\ ~ Copy(r)'.workspaceMigrated =>
                       c \in tx'[r].makes
        <3>1. CASE tx'[r] = NoTx
            BY <1>5, <2>1, <3>1
        <3>2. CASE /\ Copy(r)' = Copy(r) /\ tx'[r].joins = tx[r].joins
                   /\ tx'[r].makes = tx[r].makes
            BY <1>1, <2>2, <3>2
        <3>3. QED
            BY <1>4, <3>1, <3>2
    <2>4. QED
        BY <1>1, <1>2, <2>1, <2>2, <2>3
<1>13. Enrolments'
    BY <1>12 DEF Enrolments
<1>14. QED
    BY <1>6, <1>8, <1>9, <1>10, <1>13

\* A statement deletes what its operation ends, and notes the rows that another
\* copy still has.
LEMMA DeletesSessions ==
    ASSUME Remembering, NEW s \in Server, Deletes(s)
    PROVE  Numbered' /\ Agreed' /\ Unended' /\ Covered' /\ EndedGone'
<1>1. /\ AccessTyped /\ store' = store /\ issued' = issued /\ issued \in Nat
      /\ Sound(tx[s]) /\ tx[s].pc = "drop" /\ Busy(s)
      /\ \A r \in Server \ {s} : tx'[r] = tx[r]
      /\ \/ tx'[s] = NoTx
         \/ /\ tx'[s].doc = tx[s].doc /\ tx'[s].ends = tx[s].ends
            /\ tx'[s].joins = tx[s].joins /\ tx'[s].makes = tx[s].makes
            /\ tx'[s].leaves = tx[s].leaves
      /\ ended' = ended
    BY DeletesFacts
<1>2. /\ \A i \in Slot : db'.sessions[i] = IF Deleted(s, i) THEN NoSession ELSE db.sessions[i]
      /\ exposed.tokens \subseteq exposed'.tokens
      /\ \A i \in Slot, r \in Server \ {s} :
            Deleted(s, i) /\ Busy(r) /\ Has(Copy(r), db.sessions[i].token) =>
                db.sessions[i].token \in exposed'.tokens
      /\ \/ tx[s].drop.keys # {} /\ Answers(s)
         \/ tx[s].drop.keys = {} /\ Proceeds(s)
    BY Zenon DEF Deletes
<1>3. /\ Numbered /\ Agreed /\ Unended /\ Covered /\ EndedGone /\ IdleBlank /\ Scoped
    BY DEF Remembering
<1>4. NoSession.token = 0
    BY Blank
<1>5. ASSUME NEW r \in Server
      PROVE  /\ \A i \in Slot : Copy(r)'.sessions[i] \in {Copy(r).sessions[i], NoSession}
             /\ tx'[r].ends \subseteq tx[r].ends
    BY <1>1, CopiesLess
<1>6. \A i \in Slot : Seen(i)' \subseteq Seen(i) \cup {NoSession}
    BY <1>2, <1>5 DEF Seen
<1>7. Numbered' /\ Agreed'
    BY <1>1, <1>6, SeenLess
<1>8. \A x \in 1..issued : Has(db', x) => Has(db, x)
    BY <1>2, <1>4 DEF Has
<1>9. Unended'
    <2> SUFFICES ASSUME NEW r \in Server, NEW x \in (1..issued) \ exposed'.tokens,
                        Has(Copy(r)', x), ~ Has(db', x)
                 PROVE  x \notin ended /\ \A q \in Server : x \notin tx'[q].ends
        BY <1>1 DEF Unended
    <2>1. PICK j \in Slot : Copy(r)'.sessions[j].token = x
        BY DEF Has
    <2>2. Copy(r).sessions[j].token = x /\ Has(Copy(r), x)
        BY <1>4, <1>5, <2>1 DEF Has
    <2>3. Has(db, x) => FALSE
        <3> SUFFICES ASSUME Has(db, x) PROVE FALSE
            OBVIOUS
        <3>1. PICK i \in Slot : db.sessions[i].token = x /\ Deleted(s, i)
            BY <1>2 DEF Has
        <3>2. CASE r = s
            <4>1. db.sessions[i] \in Seen(i) /\ Copy(s).sessions[j] \in Seen(j)
                BY DEF Seen
            <4>2. i = j /\ Copy(s).sessions[i] = db.sessions[i]
                BY <1>3, <2>2, <3>1, <3>2, <4>1 DEF Agreed
            <4>3. /\ tx[s].doc.sessions[i] # NoSession
                  /\ \/ i \in tx[s].drop.slots
                     \/ tx[s].doc.sessions[i].user = tx[s].drop.user
                BY <3>1, <4>2 DEF Deleted, Copy
            <4>4. QED
                BY <1>1, <4>3 DEF Sound
        <3>3. CASE r # s
            <4>1. Busy(r)
                BY <1>3, <1>4, <2>2, Blank DEF IdleBlank, Copy
            <4>2. QED
                BY <1>2, <2>2, <3>1, <3>3, <4>1
        <3>4. QED
            BY <3>2, <3>3
    <2>4. x \notin exposed.tokens
        BY <1>2
    <2>5. x \notin ended /\ \A q \in Server : x \notin tx[q].ends
        BY <1>3, <2>2, <2>3, <2>4 DEF Unended
    <2>6. QED
        BY <1>5, <2>5
<1>10. Covered'
    <2> SUFFICES ASSUME NEW r \in Server, NEW x \in tx'[r].ends \ exposed'.tokens
                 PROVE  /\ tx'[r].pc = "drop" => \A i \in Slot : db'.sessions[i].token = x =>
                              i \in tx'[r].drop.slots \/ db'.sessions[i].user = tx'[r].drop.user
                        /\ store = "postgres" /\ tx'[r].pc = "save" => ~ Has(db', x)
        BY <1>1 DEF Covered
    <2>1. x \in tx[r].ends /\ x \notin exposed.tokens
        BY <1>2, <1>5
    <2>2. x \in 1..issued
        BY <2>1 DEF Remembering, AllSound, Sound
    <2>3. \A i \in Slot : db'.sessions[i].token = x =>
             db'.sessions[i] = db.sessions[i] /\ ~ Deleted(s, i)
        BY <1>2, <1>4, <2>2
    <2>4. CASE r # s
        BY <1>1, <1>3, <1>8, <2>1, <2>2, <2>3, <2>4 DEF Covered
    <2>5. CASE r = s
        <3>1. tx'[s].pc # "drop"
            BY <1>2, Blank DEF Answers, Proceeds
        <3>2. ASSUME NEW i \in Slot, db'.sessions[i].token = x PROVE FALSE
            <4>1. db.sessions[i].token = x /\ ~ Deleted(s, i)
                BY <2>3, <3>2
            <4>2. db.sessions[i] # NoSession
                BY <1>4, <2>2, <4>1
            <4>3. i \in tx[s].drop.slots \/ db.sessions[i].user = tx[s].drop.user
                BY <1>1, <1>3, <2>1, <2>5, <4>1 DEF Covered
            <4>4. QED
                BY <4>1, <4>2, <4>3 DEF Deleted
        <3>3. QED
            BY <2>5, <3>1, <3>2 DEF Has
    <2>6. QED
        BY <2>4, <2>5
<1>11. EndedGone'
    BY <1>1, <1>2, <1>3, <1>8 DEF EndedGone, Scoped
<1>12. QED
    BY <1>7, <1>9, <1>10, <1>11

\* A statement notes the memberships that it cannot take away for good.
LEMMA DeletesMembers ==
    ASSUME Remembering, NEW s \in Server, Deletes(s)
    PROVE  RemovedGone'
<1>1. /\ AccessTyped /\ Sound(tx[s]) /\ \A r \in Server \ {s} : tx'[r] = tx[r]
    BY DeletesFacts
<1>2. /\ \A k \in Key : db'.members[k].present <=>
                           k \notin tx[s].drop.keys /\ db.members[k].present
      /\ db'.workspaces = db.workspaces /\ exposed.keys \subseteq exposed'.keys
      /\ tx[s].leaves \ tx[s].drop.keys \subseteq exposed'.keys
      /\ \A k \in tx[s].drop.keys :
            \/ ~ db.members[k].present
            \/ \E r \in Server \ {s} : Busy(r) /\ normalizeState(Copy(r)).members[k].present
            => k \in exposed'.keys
      /\ \/ tx[s].drop.keys # {} /\ Answers(s)
         \/ tx[s].drop.keys = {} /\ Proceeds(s)
    BY Zenon DEF Deletes
<1>3. RemovedGone /\ removed \subseteq Key /\ Bonded(db)
    BY DEF Remembering, Scoped, AllBonded
<1>4. tx[s].drop.keys \subseteq Key
    BY <1>1 DEF AccessTyped, TxState, Drop
<1>5. CASE tx[s].drop.keys # {} /\ Answers(s)
    <2>1. tx'[s] = NoTx /\ removed' \subseteq removed \cup tx[s].leaves
        BY <1>5 DEF Answers
    <2>2. ~ Busy(s)'
        BY <2>1, Blank DEF Busy
    <2>3. ASSUME NEW k \in removed' \ exposed'.keys
          PROVE  /\ ~ db'.members[k].present /\ db'.workspaces # {}
                 /\ \A r \in Server : Busy(r)' => ~ normalizeState(Copy(r)').members[k].present
                                                 \/ k \in tx'[r].joins
        <3>1. CASE k \in removed
            <4>1. /\ k \in Key /\ ~ db.members[k].present /\ db.workspaces # {}
                  /\ \A r \in Server : Busy(r) /\ normalizeState(Copy(r)).members[k].present =>
                        k \in tx[r].joins
                BY <1>2, <1>3, <2>3, <3>1 DEF RemovedGone
            <4>2. ASSUME NEW r \in Server, Busy(r)'
                  PROVE ~ normalizeState(Copy(r)').members[k].present \/ k \in tx'[r].joins
                <5>1. tx'[r] = tx[r] /\ Copy(r)' = Copy(r) /\ Busy(r)
                    BY <1>1, <2>2, <4>2 DEF Copy, Busy
                <5>2. QED
                    BY <4>1, <5>1
            <4>3. QED
                BY <1>2, <4>1, <4>2
        <3>2. CASE k \notin removed
            <4>1. k \in tx[s].drop.keys /\ k \in Key
                BY <1>2, <1>4, <2>1, <2>3, <3>2
            <4>2. /\ db.members[k].present
                  /\ \A r \in Server \ {s} :
                        Busy(r) => ~ normalizeState(Copy(r)).members[k].present
                BY <1>2, <2>3, <4>1
            <4>3. db.workspaces # {}
                BY <1>3, <4>1, <4>2 DEF Bonded, BondedMembers
            <4>4. ASSUME NEW r \in Server, Busy(r)'
                  PROVE ~ normalizeState(Copy(r)').members[k].present
                <5>1. r # s /\ tx'[r] = tx[r] /\ Copy(r)' = Copy(r) /\ Busy(r)
                    BY <1>1, <2>2, <4>4 DEF Copy, Busy
                <5>2. QED
                    BY <4>2, <5>1
            <4>5. QED
                BY <1>2, <4>1, <4>3, <4>4
        <3>3. QED
            BY <3>1, <3>2
    <2>4. QED
        BY <2>3 DEF RemovedGone
<1>6. CASE tx[s].drop.keys = {} /\ Proceeds(s)
    <2>1. /\ removed' = removed /\ tx[s].pc # "idle"
          /\ \A r \in Server : tx'[r].doc = tx[r].doc /\ tx'[r].joins = tx[r].joins
          /\ \A r \in Server : Busy(r)' => Busy(r)
        BY <1>6, DeletesFacts DEF Proceeds, history, Busy
    <2>2. ASSUME NEW k \in removed' \ exposed'.keys
          PROVE  /\ ~ db'.members[k].present /\ db'.workspaces # {}
                 /\ \A r \in Server : Busy(r)' => ~ normalizeState(Copy(r)').members[k].present
                                                 \/ k \in tx'[r].joins
        <3>1. /\ k \in Key /\ ~ db.members[k].present /\ db.workspaces # {}
              /\ \A r \in Server : Busy(r) /\ normalizeState(Copy(r)).members[k].present =>
                    k \in tx[r].joins
            BY <1>2, <1>3, <2>1, <2>2 DEF RemovedGone
        <3>2. ASSUME NEW r \in Server, Busy(r)'
              PROVE ~ normalizeState(Copy(r)').members[k].present \/ k \in tx'[r].joins
            <4>1. tx'[r].joins = tx[r].joins /\ Copy(r)' = Copy(r) /\ Busy(r)
                BY <2>1, <3>2 DEF Copy
            <4>2. QED
                BY <3>1, <4>1
        <3>3. QED
            BY <1>2, <3>1, <3>2
    <2>3. QED
        BY <2>2 DEF RemovedGone
<1>7. QED
    BY <1>2, <1>5, <1>6

\* A statement keeps the invariant.
LEMMA DeletesKeeps ==
    ASSUME Remembering, Revocations', NEW s \in Server, Deletes(s)
    PROVE  Remembering'
    BY DeletesFacts, DeletesScoped, DeletesClients, DeletesSessions, DeletesMembers
       DEF Remembering

-----------------------------------------------------------------------------
(* A Save keeps the invariant                                              *)

\* With files no other server is at work (stateMu).
LEMMA FileAlone ==
    ASSUME Remembering, store = "file", NEW s \in Server, Busy(s),
           NEW r \in Server, r # s
    PROVE  ~ Busy(r) /\ tx[r] = NoTx
    BY DEF Remembering, Revocations, CopiesRevoked, IdleBlank, Busy

\* What a Save stores: nothing that neither had, but the clients of a flat pool
\* in its workspace; with Postgres all that was stored, and no flat pool.
LEMMA SavesFacts ==
    ASSUME Remembering, NEW s \in Server, Saves(s), NEW n, n = normalizeState(Copy(s))
    PROVE  /\ Grown(db, db') /\ Grown(Copy(s), db') /\ Bonded(db')
           /\ db'.userDeviceMigrated
           /\ \A c \in Client :
                 /\ db'.clients[c].present => db.clients[c].present \/ Copy(s).clients[c].present
                 /\ db'.clients[c].user \in {db.clients[c].user, Copy(s).clients[c].user}
           /\ \A i \in Slot : db'.sessions[i] \in {db.sessions[i], Copy(s).sessions[i]}
           /\ \A k \in Key :
                 /\ db'.members[k].present => db.members[k].present \/ n.members[k].present
                 /\ store = "file" => db'.members[k] = Copy(s).members[k]
                 /\ n.members[k].present <=>
                       \/ Copy(s).members[k].present
                       \/ /\ LegacyFlatPool(Copy(s)) /\ k[1] = DefaultWorkspace
                          /\ k[2] \in Client /\ Copy(s).clients[k[2]].present
           /\ store = "postgres" => ~ LegacyFlatPool(db')
           /\ store = "postgres" => \A i \in Slot :
                 db.sessions[i] # NoSession => db'.sessions[i] = db.sessions[i]
           /\ store = "file" => \A i \in Slot : db'.sessions[i] = Copy(s).sessions[i]
<1>1. /\ db \in State /\ Copy(s) \in State /\ tx[s].pc = "save" /\ Busy(s)
      /\ Sound(tx[s]) /\ Bonded(db) /\ Bonded(Copy(s))
      /\ store \in {"file", "postgres"}
    BY DEF Remembering, Revocations, AccessTyped, TxState, AllSound, AllBonded, Saves, Busy, Copy
<1>2. Copy(s).userDeviceMigrated
    BY <1>1 DEF Sound, Copy
<1>3. /\ n \in State /\ Grown(Copy(s), n)
      /\ n.sessions = Copy(s).sessions /\ n.accounts = Copy(s).accounts
      /\ n.workspaces = PoolWorkspaces(Copy(s))
      /\ n.workspaceMigrated = (Copy(s).workspaceMigrated \/ LegacyFlatPool(Copy(s)))
      /\ n.userDeviceMigrated
      /\ \A c \in Client : /\ n.clients[c].present = Copy(s).clients[c].present
                           /\ \/ n.clients[c].user = Copy(s).clients[c].user
                              \/ ~ Copy(s).userDeviceMigrated
      /\ \A k \in Key : n.members[k].present <=>
            \/ Copy(s).members[k].present
            \/ /\ LegacyFlatPool(Copy(s)) /\ k[1] = DefaultWorkspace
               /\ k[2] \in Client /\ Copy(s).clients[k[2]].present
    BY <1>1, Normalized
<1>4. Bonded(n)
    BY <1>1, NormalizedBonded
<1>5. CASE store = "file"
    <2>1. db' = Copy(s)
        BY <1>5 DEF Saves
    <2>2. Grown(db, Copy(s))
        BY <1>1, <1>5 DEF Remembering, FileCopies
    <2>3. Grown(Copy(s), Copy(s))
        BY DEF Grown
    <2>4. QED
        BY <1>1, <1>2, <1>3, <1>5, <2>1, <2>2, <2>3
<1>6. CASE store = "postgres"
    <2>1. PICK m : m = Merged(n)
        OBVIOUS
    <2>2. db' = m
        BY <1>6, <2>1 DEF Saves
    <2>3. /\ Grown(db, m) /\ Grown(n, m)
          /\ m.workspaces = db.workspaces \cup n.workspaces
          /\ m.accounts = (db.accounts \/ n.accounts)
          /\ m.workspaceMigrated = (db.workspaceMigrated \/ n.workspaceMigrated)
          /\ m.userDeviceMigrated = (db.userDeviceMigrated \/ n.userDeviceMigrated)
          /\ \A c \in Client :
                /\ m.clients[c].present = (db.clients[c].present \/ n.clients[c].present)
                /\ m.clients[c].user \in {db.clients[c].user, n.clients[c].user}
          /\ \A i \in Slot : m.sessions[i] = IF db.sessions[i] = NoSession
                                             THEN n.sessions[i] ELSE db.sessions[i]
          /\ \A k \in Key :
                m.members[k].present = (db.members[k].present \/ n.members[k].present)
        BY <1>1, <1>3, <2>1, MergedFacts
    <2>4. Bonded(m)
        BY <1>1, <1>3, <1>4, <2>1, MergedBonded
    <2>5. Grown(Copy(s), m)
        BY <1>3, <2>3, GrownOn
    <2>6. m.userDeviceMigrated
        BY <1>3, <2>3
    <2>7. ~ LegacyFlatPool(m)
        <3>1. CASE n.accounts
            <4>1. DefaultWorkspace \in m.workspaces
                BY <1>3, <2>3, <3>1 DEF PoolWorkspaces
            <4>2. QED
                BY <4>1 DEF LegacyFlatPool
        <3>2. CASE ~ n.accounts
            <4>1. LegacyFlatPool(m) => LegacyFlatPool(db)
                BY <1>1, <2>3, <3>2 DEF LegacyFlatPool, Grown, State
            <4>2. LegacyFlatPool(db) => Copy(s).workspaceMigrated
                BY <1>1 DEF Remembering, PoolMigrated
            <4>3. Copy(s).workspaceMigrated => m.workspaceMigrated
                BY <2>5 DEF Grown
            <4>4. QED
                BY <4>1, <4>2, <4>3 DEF LegacyFlatPool
        <3>3. QED
            BY <3>1, <3>2
    <2>8. \A c \in Client :
             /\ m.clients[c].present => db.clients[c].present \/ Copy(s).clients[c].present
             /\ m.clients[c].user \in {db.clients[c].user, Copy(s).clients[c].user}
        BY <1>1, <1>2, <1>3, <2>3 DEF State, ClientRow
    <2>9. \A k \in Key : m.members[k].present => db.members[k].present \/ n.members[k].present
        BY <1>1, <1>3, <2>3 DEF State, MemberRow
    <2>10. QED
        BY <1>3, <1>6, <2>2, <2>3, <2>4, <2>5, <2>6, <2>7, <2>8, <2>9
<1>7. QED
    BY <1>1, <1>5, <1>6

\* A Save brings the rows that its own refer to, and a user who has registered.
LEMMA SavesScoped ==
    ASSUME Remembering, NEW s \in Server, Saves(s)
    PROVE  Scoped' /\ AllBonded' /\ LoginsKnown' /\ IdleBlank' /\ FileCopies' /\ AllSound'
<1>1. /\ Grown(db, db') /\ Grown(Copy(s), db') /\ Bonded(db')
    BY SavesFacts
<1>2. /\ Answers(s) /\ issued' = issued /\ begun' = begun /\ exposed' = exposed
      /\ store' = store /\ tx[s].pc = "save" /\ Busy(s)
    BY DEF Saves, Busy
<1>3. /\ Scoped /\ LoginsKnown /\ AccessTyped /\ Sound(tx[s])
    BY DEF Remembering, Revocations, AllSound
<1>4. Scoped'
    BY <1>2, <1>3, AnswersScoped DEF Scoped
<1>5. /\ \A r \in Server : Bonded(Copy(r)')
      /\ IdleBlank' /\ AllSound'
    BY <1>2, AnswersCopies
<1>6. LoginsKnown'
    <2> SUFFICES ASSUME NEW r \in Server, login'[r] # NoUser
                 PROVE  db'.users[login'[r]].present
        BY DEF LoginsKnown
    <2>1. CASE login'[r] = login[r]
        <3>1. login[r] \in User /\ db.users[login[r]].present
            BY <1>3, <2>1 DEF AccessTyped, LoginsKnown
        <3>2. QED
            BY <1>1, <2>1, <3>1 DEF Grown
    <2>2. CASE tx[s].signs # NoUser /\ login'[r] = tx[s].signs
        <3>1. tx[s].signs \in User /\ Copy(s).users[tx[s].signs].present
            BY <1>3, <2>2 DEF AccessTyped, TxState, Sound, Copy
        <3>2. QED
            BY <1>1, <2>2, <3>1 DEF Grown
    <2>3. QED
        BY <1>2, <2>1, <2>2 DEF Answers
<1>7. FileCopies'
    <2> SUFFICES ASSUME store = "file", NEW r \in Server PROVE ~ Busy(r)'
        BY <1>2 DEF FileCopies
    <2>1. CASE r = s
        BY <1>2, <2>1, Blank DEF Answers, Busy
    <2>2. CASE r # s
        BY <1>2, <2>2, FileAlone DEF Answers, Busy
    <2>3. QED
        BY <2>1, <2>2
<1>8. QED
    BY <1>1, <1>4, <1>5, <1>6, <1>7 DEF AllBonded

\* A Save stores no user of a client that this version made, and enrols none.
LEMMA SavesClients ==
    ASSUME Remembering, NEW s \in Server, Saves(s)
    PROVE  Foreseen' /\ Unfitted' /\ MembersKnown' /\ PoolMigrated' /\ Enrolments'
<1>1. PICK n : n = normalizeState(Copy(s))
    OBVIOUS
<1>2. /\ Grown(db, db') /\ Grown(Copy(s), db') /\ db'.userDeviceMigrated
      /\ \A c \in Client :
            db'.clients[c].user \in {db.clients[c].user, Copy(s).clients[c].user}
      /\ \A k \in Key :
            /\ db'.members[k].present => db.members[k].present \/ n.members[k].present
            /\ n.members[k].present <=>
                  \/ Copy(s).members[k].present
                  \/ /\ LegacyFlatPool(Copy(s)) /\ k[1] = DefaultWorkspace
                     /\ k[2] \in Client /\ Copy(s).clients[k[2]].present
      /\ store = "postgres" => ~ LegacyFlatPool(db')
    BY <1>1, SavesFacts
<1>3. /\ tx'[s] = NoTx /\ \A r \in Server \ {s} : tx'[r] = tx[r]
      /\ granted' = granted \cup tx[s].joins /\ made' = made \cup tx[s].makes
      /\ late' = IF Copy(s).workspaceMigrated THEN late \cup tx[s].makes ELSE late
      /\ Busy(s) /\ store' = store /\ Sound(tx[s]) /\ AccessTyped
    BY DEF Saves, Answers, Busy, Remembering, AllSound, Revocations
<1>4. /\ Foreseen /\ Unfitted /\ MembersKnown /\ PoolMigrated /\ Enrolments
    BY DEF Remembering
<1>5. /\ ~ Busy(s)' /\ tx'[s].makes = {}
      /\ \A c \in Client : ~ Copy(s)'.clients[c].present /\ Copy(s)'.clients[c].user = NoUser
      /\ \A k \in Key : ~ Copy(s)'.members[k].present
    BY <1>3, Blank DEF Busy, Copy
<1>6. \A r \in Server \ {s} : Copy(r)' = Copy(r)
    BY <1>3 DEF Copy
<1>7. Foreseen'
    BY <1>2, <1>3, <1>4, <1>5, <1>6 DEF Foreseen, Grown
<1>8. \A c \in Client : Making(c)' => Making(c)
    BY <1>3, <1>5 DEF Making
<1>9. Unfitted'
    <2> SUFFICES ASSUME NEW c \in Client, Making(c)'
                 PROVE  /\ db'.clients[c].user = NoUser
                        /\ \A r \in Server : Copy(r)'.clients[c].user = NoUser
        BY <1>2 DEF Unfitted
    <2>1. /\ db.clients[c].user = NoUser
          /\ \A r \in Server : Copy(r).clients[c].user = NoUser
        BY <1>4, <1>8 DEF Unfitted
    <2>2. QED
        BY <1>2, <1>5, <1>6, <2>1
<1>10. MembersKnown'
    BY <1>2, <1>4, <1>5, <1>6 DEF MembersKnown, Grown
<1>11. PoolMigrated'
    <2> SUFFICES ASSUME NEW r \in Server, Busy(r)'
                 PROVE  /\ Copy(r)'.workspaceMigrated =>
                              db'.workspaceMigrated \/ LegacyFlatPool(db')
                        /\ LegacyFlatPool(db') => /\ Copy(r)'.workspaceMigrated
                              /\ \A c \in tx'[r].makes : ~ db'.clients[c].present
        BY DEF PoolMigrated
    <2>1. r # s /\ Busy(r) /\ Copy(r)' = Copy(r)
        BY <1>3, <1>5, <1>6 DEF Busy
    <2>2. store = "postgres"
        BY <1>3, <2>1, FileAlone DEF AccessTyped
    <2>3. /\ Copy(r).workspaceMigrated => db.workspaceMigrated \/ LegacyFlatPool(db)
          /\ LegacyFlatPool(db) => Copy(s).workspaceMigrated
        BY <1>3, <1>4, <2>1 DEF PoolMigrated
    <2>4. QED
        BY <1>2, <2>1, <2>2, <2>3 DEF Grown
<1>12. ASSUME NEW c \in Client, Settled(c)' PROVE Settled(c)
    BY <1>3, <1>5, <1>6, <1>12 DEF Settled
<1>13. ASSUME NEW c \in Client, Settled(c)', NEW k, k = <<DefaultWorkspace, c>>
       PROVE  /\ c \in late' => db'.workspaceMigrated
              /\ db'.members[k].present => k \in granted'
              /\ \A r \in Server :
                    /\ Copy(r)'.members[k].present => k \in granted' \cup tx'[r].joins
                    /\ Copy(r)'.clients[c].present /\ ~ Copy(r)'.workspaceMigrated =>
                          c \in tx'[r].makes
    <2>1. k \in Key /\ k[1] = DefaultWorkspace /\ k[2] = c
        BY <1>13, PartyAssumption DEF Key, Principal
    <2>2. /\ c \in late => db.workspaceMigrated
          /\ db.members[k].present => k \in granted
          /\ \A r \in Server :
                /\ Copy(r).members[k].present => k \in granted \cup tx[r].joins
                /\ Copy(r).clients[c].present /\ ~ Copy(r).workspaceMigrated =>
                      c \in tx[r].makes
        BY <1>4, <1>12, <1>13 DEF Enrolments
    <2>3. c \in late' => db'.workspaceMigrated
        BY <1>2, <1>3, <2>2 DEF Grown
    <2>4. ~ (LegacyFlatPool(Copy(s)) /\ Copy(s).clients[c].present)
        BY <1>3, <2>2 DEF LegacyFlatPool, Sound, Copy
    <2>5. db'.members[k].present => k \in granted'
        BY <1>2, <1>3, <2>1, <2>2, <2>4
    <2>6. ASSUME NEW r \in Server
          PROVE  /\ Copy(r)'.members[k].present => k \in granted' \cup tx'[r].joins
                 /\ Copy(r)'.clients[c].present /\ ~ Copy(r)'.workspaceMigrated =>
                       c \in tx'[r].makes
        <3>1. CASE r = s
            BY <1>5, <2>1, <3>1
        <3>2. CASE r # s
            BY <1>3, <1>6, <2>2, <3>2
        <3>3. QED
            BY <3>1, <3>2
    <2>7. QED
        BY <2>3, <2>5, <2>6
<1>14. Enrolments'
    BY <1>13 DEF Enrolments
<1>15. QED
    BY <1>7, <1>9, <1>10, <1>11, <1>14

\* A Save stores no session that was ended, but those seen to come too early.
LEMMA SavesSessions ==
    ASSUME Remembering, NEW s \in Server, Saves(s)
    PROVE  Numbered' /\ Agreed' /\ Unended' /\ Covered' /\ EndedGone'
<1>1. /\ \A i \in Slot : db'.sessions[i] \in {db.sessions[i], Copy(s).sessions[i]}
      /\ store = "postgres" => \A i \in Slot :
            db.sessions[i] # NoSession => db'.sessions[i] = db.sessions[i]
      /\ store = "file" => \A i \in Slot : db'.sessions[i] = Copy(s).sessions[i]
    BY SavesFacts
<1>2. /\ tx'[s] = NoTx /\ \A r \in Server \ {s} : tx'[r] = tx[r]
      /\ ended' = ended \cup tx[s].ends
      /\ tx[s].pc = "save" /\ Busy(s) /\ store' = store /\ Sound(tx[s]) /\ AccessTyped
      /\ issued' = issued /\ exposed' = exposed
    BY DEF Saves, Answers, Busy, Remembering, AllSound, Revocations
<1>3. /\ Numbered /\ Agreed /\ Unended /\ Covered /\ EndedGone /\ IdleBlank /\ Scoped
      /\ AllSound
    BY DEF Remembering
<1>4. /\ NoSession.token = 0 /\ tx'[s].ends = {} /\ ~ Busy(s)'
      /\ \A i \in Slot : Copy(s)'.sessions[i] = NoSession
    BY <1>2, Blank DEF Busy, Copy
<1>5. \A r \in Server \ {s} : Copy(r)' = Copy(r)
    BY <1>2 DEF Copy
<1>6. \A i \in Slot : /\ db.sessions[i] \in Seen(i) /\ db'.sessions[i] \in Seen(i)
                      /\ \A r \in Server : Copy(r).sessions[i] \in Seen(i)
    BY <1>1 DEF Seen
<1>7. \A i \in Slot : Seen(i)' \subseteq Seen(i) \cup {NoSession}
    BY <1>4, <1>5, <1>6 DEF Seen
<1>8. Numbered' /\ Agreed'
    BY <1>2, <1>7, SeenLess
<1>9. ASSUME NEW x \in (1..issued) \ exposed.tokens, Has(db', x), ~ Has(db, x)
      PROVE  /\ Has(Copy(s), x)
             /\ x \notin ended /\ \A r \in Server : x \notin tx[r].ends
    <2>1. Has(Copy(s), x)
        BY <1>1, <1>9 DEF Has
    <2>2. QED
        BY <1>3, <1>9, <2>1 DEF Unended
<1>10. ASSUME NEW r \in Server, NEW x \in tx'[r].ends
       PROVE  x \in 1..issued /\ r # s /\ x \in tx[r].ends /\ store = "postgres"
    <2>1. r # s /\ x \in tx[r].ends
        BY <1>2, <1>4, <1>10
    <2>2. x \in 1..issued
        BY <1>3, <2>1 DEF AllSound, Sound
    <2>3. store # "file"
        BY <1>2, <2>1, FileAlone, Blank
    <2>4. QED
        BY <1>2, <2>1, <2>2, <2>3 DEF AccessTyped
<1>11. Unended'
    <2> SUFFICES ASSUME NEW r \in Server, NEW x \in (1..issued) \ exposed.tokens,
                        Has(Copy(r)', x), ~ Has(db', x)
                 PROVE  x \notin ended' /\ \A q \in Server : x \notin tx'[q].ends
        BY <1>2 DEF Unended
    <2>1. PICK j \in Slot : Copy(r)'.sessions[j].token = x
        BY DEF Has
    <2>2. r # s /\ Has(Copy(r), x)
        BY <1>4, <1>5, <2>1 DEF Has
    <2>3. tx[r] # NoTx
        BY <1>4, <2>2, Blank DEF Has, Copy
    <2>4. store = "postgres"
        BY <1>2, <2>2, <2>3, FileAlone DEF AccessTyped
    <2>5. ~ Has(db, x)
        BY <1>1, <1>4, <2>4 DEF Has
    <2>6. x \notin ended /\ \A q \in Server : x \notin tx[q].ends
        BY <1>3, <2>2, <2>5 DEF Unended
    <2>7. QED
        BY <1>2, <1>10, <2>6
<1>12. Covered'
    <2> SUFFICES ASSUME NEW r \in Server, NEW x \in tx'[r].ends \ exposed.tokens
                 PROVE  /\ tx'[r].pc = "drop" => \A i \in Slot : db'.sessions[i].token = x =>
                              i \in tx'[r].drop.slots \/ db'.sessions[i].user = tx'[r].drop.user
                        /\ store = "postgres" /\ tx'[r].pc = "save" => ~ Has(db', x)
        BY <1>2 DEF Covered
    <2>1. x \in 1..issued /\ r # s /\ x \in tx[r].ends /\ tx'[r] = tx[r]
        BY <1>2, <1>10
    <2>2. Has(db', x) => Has(db, x)
        BY <1>9, <2>1
    <2>3. ASSUME NEW i \in Slot, db'.sessions[i].token = x
          PROVE  db'.sessions[i] = db.sessions[i]
        <3>1. PICK j \in Slot : db.sessions[j].token = x
            BY <2>2, <2>3 DEF Has
        <3>2. QED
            BY <1>3, <1>6, <2>1, <2>3, <3>1 DEF Agreed
    <2>4. QED
        BY <1>3, <2>1, <2>2, <2>3 DEF Covered
<1>13. EndedGone'
    <2> SUFFICES ASSUME NEW x \in (ended \cup tx[s].ends) \ exposed.tokens, Has(db', x)
                 PROVE  FALSE
        BY <1>2 DEF EndedGone
    <2>1. x \in 1..issued
        BY <1>2, <1>3 DEF Scoped, Sound
    <2>2. CASE x \in ended
        BY <1>3, <1>9, <2>1, <2>2 DEF EndedGone
    <2>3. CASE x \in tx[s].ends
        <3>1. ~ Has(Copy(s), x)
            BY <1>2, <2>3 DEF Sound, Has, Copy
        <3>2. Has(db, x)
            BY <1>9, <2>1, <3>1
        <3>3. store = "file"
            BY <1>2, <1>3, <2>3, <3>2 DEF Covered, AccessTyped
        <3>4. QED
            BY <1>1, <3>1, <3>3 DEF Has
    <2>4. QED
        BY <2>2, <2>3
<1>14. QED
    BY <1>8, <1>11, <1>12, <1>13

\* A Save stores no membership that was taken away, but those seen to come too
\* early and those that it gives.
LEMMA SavesMembers ==
    ASSUME Remembering, NEW s \in Server, Saves(s)
    PROVE  RemovedGone'
<1>1. PICK n : n = normalizeState(Copy(s))
    OBVIOUS
<1>2. /\ Grown(db, db') /\ Grown(Copy(s), db')
      /\ \A k \in Key :
            /\ db'.members[k].present => db.members[k].present \/ n.members[k].present
            /\ store = "file" => db'.members[k] = Copy(s).members[k]
    BY <1>1, SavesFacts
<1>3. /\ tx'[s] = NoTx /\ \A r \in Server \ {s} : tx'[r] = tx[r]
      /\ removed' = (removed \cup tx[s].leaves) \ tx[s].joins
      /\ tx[s].pc = "save" /\ Busy(s) /\ store' = store /\ Sound(tx[s]) /\ AccessTyped
      /\ exposed' = exposed /\ tx[s].leaves \in SUBSET Key
    BY DEF Saves, Answers, Busy, Remembering, AllSound, Revocations, AccessTyped, TxState
<1>4. RemovedGone /\ removed \subseteq Key
    BY DEF Remembering, Scoped
<1>5. ~ Busy(s)'
    BY <1>3, Blank DEF Busy
<1>6. \A r \in Server : Busy(r)' => /\ r # s /\ tx'[r] = tx[r] /\ Copy(r)' = Copy(r) /\ Busy(r)
                                    /\ store = "postgres"
    BY <1>3, <1>5, FileAlone DEF Copy, Busy, AccessTyped
<1>7. ASSUME NEW k \in removed' \ exposed.keys
      PROVE  /\ ~ db'.members[k].present /\ db'.workspaces # {}
             /\ \A r \in Server : Busy(r)' => ~ normalizeState(Copy(r)').members[k].present
                                             \/ k \in tx'[r].joins
    <2>1. CASE k \in removed
        <3>1. /\ k \in Key /\ ~ db.members[k].present /\ db.workspaces # {}
              /\ \A r \in Server : Busy(r) /\ normalizeState(Copy(r)).members[k].present =>
                    k \in tx[r].joins
            BY <1>4, <1>7, <2>1 DEF RemovedGone
        <3>2. ~ n.members[k].present
            BY <1>1, <1>3, <1>7, <3>1
        <3>3. db'.workspaces # {}
            BY <1>2, <3>1 DEF Grown
        <3>4. ASSUME NEW r \in Server, Busy(r)'
              PROVE ~ normalizeState(Copy(r)').members[k].present \/ k \in tx'[r].joins
            <4>1. tx'[r] = tx[r] /\ Copy(r)' = Copy(r) /\ Busy(r)
                BY <1>6, <3>4
            <4>2. QED
                BY <3>1, <4>1
        <3>5. QED
            BY <1>2, <3>1, <3>2, <3>3, <3>4
    <2>2. CASE k \notin removed
        <3>1. k \in tx[s].leaves /\ k \in Key
            BY <1>3, <1>7, <2>2
        <3>2. ~ Copy(s).members[k].present /\ Copy(s).workspaces # {} /\ tx[s].drop.keys # {}
            BY <1>3, <3>1 DEF Sound, Copy
        <3>3. store = "file"
            BY <1>3, <3>2 DEF Sound, AccessTyped
        <3>4. ~ db'.members[k].present /\ db'.workspaces # {}
            BY <1>2, <3>1, <3>2, <3>3 DEF Grown
        <3>5. QED
            BY <1>6, <3>3, <3>4
    <2>3. QED
        BY <2>1, <2>2
<1>8. QED
    BY <1>3, <1>7 DEF RemovedGone

\* A Save keeps the invariant.
LEMMA SavesKeeps ==
    ASSUME Remembering, Revocations', NEW s \in Server, Saves(s)
    PROVE  Remembering'
    BY SavesScoped, SavesClients, SavesSessions, SavesMembers DEF Remembering, Saves

-----------------------------------------------------------------------------
(* The theorems                                                            *)

\* A login, and a step of something else, keep the invariant.
LEMMA EntersKeeps ==
    ASSUME Remembering, Revocations',
           UNCHANGED <<store, db, tx, issued, begun, exposed, history>>,
           \A r \in Server : \/ login'[r] = login[r]
                             \/ login'[r] \in User /\ db.users[login'[r]].present
    PROVE  Remembering'
<1>1. /\ store' = store /\ db' = db /\ tx' = tx /\ issued' = issued /\ begun' = begun
      /\ exposed' = exposed /\ ended' = ended /\ removed' = removed /\ made' = made
      /\ late' = late /\ granted' = granted
    BY DEF history
<1>2. /\ Scoped /\ AllBonded /\ LoginsKnown /\ IdleBlank /\ FileCopies /\ AllSound
      /\ Foreseen /\ Unfitted /\ MembersKnown /\ PoolMigrated /\ Enrolments
      /\ Numbered /\ Agreed /\ Unended /\ Covered /\ EndedGone /\ RemovedGone
      /\ store \in Stores
    BY DEF Remembering
<1>3. Scoped' /\ AllBonded' /\ IdleBlank' /\ FileCopies' /\ Foreseen' /\ MembersKnown'
    BY <1>1, <1>2 DEF Scoped, AllBonded, IdleBlank, FileCopies, Foreseen, MembersKnown,
       Busy, Copy
<1>4. LoginsKnown'
    BY <1>1, <1>2 DEF LoginsKnown
<1>5. AllSound'
    BY <1>1, <1>2 DEF AllSound, Sound
<1>6. Unfitted' /\ PoolMigrated' /\ Enrolments'
    BY <1>1, <1>2 DEF Unfitted, Making, PoolMigrated, Enrolments, Settled, Busy, Copy
<1>7. Numbered' /\ Agreed'
    BY <1>1, <1>2 DEF Numbered, Agreed, Seen, Copy
<1>8. Unended' /\ Covered' /\ EndedGone'
    BY <1>1, <1>2 DEF Unended, Covered, EndedGone, Has, Copy
<1>9. RemovedGone'
    BY <1>1, <1>2 DEF RemovedGone, Busy, Copy
<1>10. QED
    BY <1>1, <1>2, <1>3, <1>4, <1>5, <1>6, <1>7, <1>8, <1>9 DEF Remembering

\* The states that an older version can have left remember nothing.
LEMMA InitRemembering == Init => Remembering
<1> SUFFICES ASSUME Init PROVE Remembering
    OBVIOUS
<1>1. Revocations
    BY InitRevocations
<1>2. PICK cs \in SUBSET Legacy, accounts \in BOOLEAN : db = LegacyState(cs, accounts)
    BY DEF Init
<1>3. /\ store \in Stores /\ issued = 0 /\ begun = 0
      /\ \A s \in Server : tx[s] = NoTx /\ login[s] = NoUser
      /\ ended = {} /\ removed = {} /\ made = {} /\ late = {} /\ granted = {}
      /\ exposed = [tokens |-> {}, keys |-> {}]
    BY DEF Init
<1>4. /\ \A c \in Client : db.clients[c].user = NoUser
      /\ \A i \in Slot : db.sessions[i] = NoSession
      /\ \A k \in Key : ~ db.members[k].present
    BY <1>2, Blank DEF LegacyState, EmptyState, NoClientRow
<1>5. /\ \A s \in Server : ~ Busy(s) /\ Copy(s) = EmptyState
      /\ \A s \in Server : tx[s].ends = {} /\ tx[s].makes = {}
      /\ \A c \in Client : ~ Making(c) /\ ~ Settled(c)
    BY <1>3, Blank DEF Busy, Copy, Making, Settled
<1>6. Scoped
    BY <1>3, BoundAssumption DEF Scoped
<1>7. AllBonded
    BY <1>4, <1>5, Blank DEF AllBonded, Bonded, BondedClients, BondedSessions, BondedMembers
<1>8. LoginsKnown /\ IdleBlank /\ FileCopies
    BY <1>3, <1>5 DEF LoginsKnown, IdleBlank, FileCopies
<1>9. AllSound
    BY <1>3, Blank DEF AllSound
<1>10. Foreseen /\ MembersKnown
    BY <1>5, Blank DEF Foreseen, MembersKnown
<1>11. Unfitted /\ PoolMigrated /\ Enrolments
    BY <1>5 DEF Unfitted, PoolMigrated, Enrolments
<1>12. \A i \in Slot : \A x \in Seen(i) : x = NoSession
    BY <1>4, <1>5, Blank DEF Seen
<1>13. Numbered /\ Agreed
    BY <1>3, <1>12, Blank DEF Numbered, Agreed
<1>14. Unended /\ Covered /\ EndedGone /\ RemovedGone
    BY <1>3, <1>5 DEF Unended, Covered, EndedGone, RemovedGone
<1>15. QED
    BY <1>1, <1>3, <1>6, <1>7, <1>8, <1>9, <1>10, <1>11, <1>13, <1>14 DEF Remembering

\* Every step keeps the invariant.
LEMMA NextRemembering == Remembering /\ [Next]_vars => Remembering'
<1> SUFFICES ASSUME Remembering, [Next]_vars PROVE Remembering'
    OBVIOUS
<1>1. Revocations'
    BY NextRevocations DEF Remembering
<1>2. CASE Next
    <2>1. PICK s \in Server : Opens(s) \/ Enters(s) \/ Deletes(s) \/ Saves(s)
        BY <1>2, StepKinds
    <2>2. CASE Opens(s)
        BY <1>1, <2>2, OpensKeeps
    <2>3. CASE Enters(s)
        BY <1>1, <2>3, EntersKeeps DEF Enters
    <2>4. CASE Deletes(s)
        BY <1>1, <2>4, DeletesKeeps
    <2>5. CASE Saves(s)
        BY <1>1, <2>5, SavesKeeps
    <2>6. QED
        BY <2>1, <2>2, <2>3, <2>4, <2>5
<1>3. CASE UNCHANGED vars
    <2>1. UNCHANGED <<store, db, tx, issued, begun, exposed, history>> /\ login' = login
        BY <1>3 DEF vars, history
    <2>2. QED
        BY <1>1, <2>1, EntersKeeps
<1>4. QED
    BY <1>2, <1>3

\* The invariant holds in every reachable state.
LEMMA Remembered == Spec => []Remembering
    BY InitRemembering, NextRemembering, PTL DEF Spec

\* Every variable keeps to its type, and a stored row refers only to rows that
\* are stored, although the tables have no foreign keys and servers save copies
\* that others have overtaken (savePostgresState brings each copy's own rows).
THEOREM RowsReferToRows == Spec => []AccessTypeOK
<1>1. Remembering => AccessTypeOK
    <2> SUFFICES ASSUME Remembering PROVE AccessTypeOK
        OBVIOUS
    <2>1. /\ store \in Stores /\ AccessTyped /\ revoked \subseteq Client /\ Scoped /\ Bonded(db)
        BY DEF Remembering, Revocations, AllBonded
    <2>2. /\ \A c \in Client : db.clients[c].user # NoUser =>
                db.users[db.clients[c].user].present
          /\ \A i \in Slot : db.sessions[i] # NoSession =>
                db.users[db.sessions[i].user].present
          /\ \A k \in Key : db.members[k].present =>
                /\ k[1] \in db.workspaces
                /\ IF k[2] \in User THEN db.users[k[2]].present
                   ELSE db.clients[k[2]].present
        BY <2>1 DEF Bonded, BondedClients, BondedSessions, BondedMembers
    <2>3. QED
        BY <2>1, <2>2 DEF AccessTypeOK, AccessTyped, Scoped
<1>2. QED
    BY <1>1, Remembered, PTL

\* manager.go:557: a client that this version has made is never given a made up
\* user, on whichever server the first state is migrated, and whatever servers
\* loaded before that.
THEOREM NoUserMadeUpLater == Spec => []NeverRetrofitted
<1>1. Remembering => NeverRetrofitted
    BY DEF Remembering, Scoped, Unfitted, Making, NeverRetrofitted
<1>2. QED
    BY <1>1, Remembered, PTL

\* manager.go:496: a client made when the flat pool was migrated is a member of
\* the default workspace only if an administrator has made it one.
THEOREM EnrolmentIsOver == Spec => []EnrolledOnce
<1>1. Remembering => EnrolledOnce
    BY DEF Remembering, Scoped, Enrolments, Settled, EnrolledOnce
<1>2. QED
    BY <1>1, Remembered, PTL

\* workspace.go:178, users.go:116: a session that was ended and a membership
\* that was taken away do not come back, but for the cases that exposed names.
THEOREM TakenAwayForGood == Spec => []GoneForGood
<1>1. Remembering => GoneForGood
    BY DEF Remembering, EndedGone, RemovedGone, Has, GoneForGood
<1>2. QED
    BY <1>1, Remembered, PTL
=============================================================================
