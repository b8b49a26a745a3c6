------------------------------ MODULE PgStore ------------------------------
(***************************************************************************)
(* Several cube servers on one Postgres database (store_postgres.go): what *)
(* an operation of the manager does when Load and Save are transactions of *)
(* a shared database instead of one file under a lock.                     *)
(*                                                                         *)
(* An operation holds the stateMu of its own server from its Load to its   *)
(* Save; the operations on leases hold an advisory lock of the database as *)
(* well.  It works on the rows it has loaded and then writes all of them   *)
(* back; a row is written unless it has been changed since under a later   *)
(* time.  A quota result is written into its row with neither lock, and a  *)
(* GET request loads, which rewrites the auth.json files of the server.    *)
(*                                                                         *)
(* The rules for leases, quota and eligibility are in LeaseManager; the    *)
(* quota cache, the round robin and the dispatch history are left out here.*)
(***************************************************************************)
EXTENDS Naturals, FiniteSets

CONSTANTS
    Server, NoServer,
    Account, NoAccount,
    Prober,           \* the servers that probe quota or are sent reports
    Operations,       \* the operations that servers perform: a subset of Operation
    AdminStatus,      \* what an operator may set a status to
    Reporting,        \* whether clients report quota for accounts they do not lease
    MayDelete,        \* whether an operator deletes accounts
    MaxStamp, MaxLeases, MaxGeneration, MaxVersion   \* bounds of the model

Status == {"ready", "recovering", "drain", "disabled"}
OwnerMode == {"cloud", "client"}

\* The operations that take the advisory lock: push is UpsertProfileSnapshot,
\* which loads and saves twice, and settings is the second half of it ...
LeaseOperation == {"claim", "touch", "upload", "release", "recover",
                   "push", "settings"}
\* ... and those that hold only stateMu: SetStatus, which stands for the setters
\* of labels and workspaces too, SetOwner, AddAccount, UpsertJSONProfile,
\* ListAccounts, and those that touch no account, like TouchClient.
Operation == LeaseOperation \cup
    {"setStatus", "setOwner", "add", "import", "list", "other"}

ASSUME PartyAssumption == NoServer \notin Server /\ NoAccount \notin Account
ASSUME ScopeAssumption ==
    /\ Prober \subseteq Server
    /\ Operations \subseteq Operation /\ AdminStatus \subseteq Status
    /\ Reporting \in BOOLEAN /\ MayDelete \in BOOLEAN
ASSUME BoundAssumption ==
    /\ MaxStamp \in Nat /\ MaxLeases \in Nat
    /\ MaxGeneration \in Nat /\ MaxVersion \in Nat

VARIABLES
    db,        \* the rows of cube_accounts
    disk,      \* per server: the auth.json in each account's home; 0 for none
    tx,        \* per server: the operation that holds its stateMu
    lock,      \* the server that holds the advisory lock
    job,       \* per server: a quota probe or report under way
    clock,     \* the last time a server has read from its clock
    issued,    \* lease ids handed out so far: 1..issued
    held,      \* what each client that was handed a lease goes by
    lapsed,    \* leases whose term is over
    current,   \* per account: the last auth.json the provider has issued
    accepted,  \* history: the uploads that a server has accepted, as they were sent
    ended,     \* history: leases that were cleared from their row
    revoked,   \* history: those of them that an operator took from their client
    raced      \* history: accounts that an operation changed after another had

vars == <<db, disk, tx, lock, job, clock, issued, held, lapsed, current,
          accepted, ended, revoked, raced>>

\* stamp is updated_at; auth is auth_json, named by its version.
Row == [present : BOOLEAN, status : Status, owner : OwnerMode, generation : Nat,
        lease : Nat, stamp : Nat, auth : Nat]

NoRow == [present |-> FALSE, status |-> "ready", owner |-> "cloud",
          generation |-> 0, lease |-> 0, stamp |-> 0, auth |-> 0]

\* loaded: it has its rows; decided: it has changed them and will save them;
\* again: it has saved them and will load once more.
\* overtaken: the accounts whose row another step has written since the Load,
\* other than an operation under the same advisory lock.
\* account, generation and auth are those of the request.
TxState == [pc : {"idle", "loaded", "decided", "again"}, op : Operation,
            lease : Nat, account : Account \cup {NoAccount}, generation : Nat,
            auth : Nat, rows : [Account -> Row], now : Nat,
            overtaken : SUBSET Account]

NoTx == [pc |-> "idle", op |-> "other", lease |-> 0, account |-> NoAccount,
         generation |-> 0, auth |-> 0, rows |-> [a \in Account |-> NoRow],
         now |-> 0, overtaken |-> {}]

Answer == {"supported", "unsupported", "refresh_invalid"}
JobState == [pc : {"idle", "asked", "refreshed", "answered"},
             account : Account \cup {NoAccount}, before : Nat,
             answer : Answer, changed : BOOLEAN, flip : BOOLEAN, stamp : Nat]

NoJob == [pc |-> "idle", account |-> NoAccount, before |-> 0,
          answer |-> "supported", changed |-> FALSE, flip |-> FALSE, stamp |-> 0]

\* A lease as its client knows it; its copy of the auth is what Codex runs on.
Hold == [account : Account \cup {NoAccount}, generation : Nat, auth : Nat]
NoHold == [account |-> NoAccount, generation |-> 0, auth |-> 0]
Held == {l \in 1..MaxLeases : held[l] # NoHold}

Init ==
    /\ db = [a \in Account |-> [NoRow EXCEPT !.present = TRUE, !.generation = 1,
                                             !.auth = 1]]
    /\ disk = [s \in Server |-> [a \in Account |-> 1]]
    /\ tx = [s \in Server |-> NoTx]
    /\ lock = NoServer
    /\ job = [s \in Server |-> NoJob]
    /\ clock = 0
    /\ issued = 0
    /\ held = [l \in 1..MaxLeases |-> NoHold]
    /\ lapsed = {}
    /\ current = [a \in Account |-> 1]
    /\ accepted = {}
    /\ ended = {}
    /\ revoked = {}
    /\ raced = {}

-----------------------------------------------------------------------------
(* Load and Save                                                           *)

\* materializeAuth: every Load rewrites the auth.json files that differ from
\* the database; a file the database knows nothing of stays.
Materialized(s, rows) ==
    [disk EXCEPT ![s] = [a \in Account |->
        IF rows[a].present /\ rows[a].auth # 0 THEN rows[a].auth ELSE @[a]]]

\* Defect: the upsert has no condition on updated_at.
Wins_Unconditional(rows, a) == rows[a].present

\* The condition of the upsert in savePostgresState; a row that is gone is
\* inserted again.
Wins(rows, a) ==
    /\ rows[a].present
    /\ db[a].present => db[a].stamp <= rows[a].stamp

\* The rows after the save by server s; each one takes its auth_json from the
\* file on that server, whatever it was when the rows were loaded.
Saved(s, rows) ==
    [a \in Account |-> IF Wins(rows, a) THEN [rows[a] EXCEPT !.auth = disk[s][a]]
                       ELSE db[a]]

\* The accounts whose row this step has written or deleted.
Overwritten(rows) ==
    {a \in Account : rows[a].stamp # db[a].stamp \/ rows[a].present # db[a].present}

\* What a step that changes the rows does to the operations under way, ...
Overtake(ops, rows) ==
    [s \in Server |->
        IF tx[s].pc # "idle" /\ tx[s].op \in ops
        THEN [tx[s] EXCEPT !.overtaken = @ \cup Overwritten(rows)] ELSE tx[s]]

\* ... and the leases that it takes from their row.
Cleared(rows) ==
    {db[a].lease : a \in {b \in Account : db[b].lease \notin {0, rows[b].lease}}}

\* The accounts that the operation of s changes after somebody else has.
Races(s) ==
    {a \in tx[s].overtaken :
        tx[s].rows[a].present /\ (tx[s].rows[a].stamp = tx[s].now \/ ~ db[a].present)}

\* A server that only reads: a dashboard page, any GET.  It holds nothing.
Read(s) ==
    /\ disk' = Materialized(s, db)
    /\ UNCHANGED <<db, tx, lock, job, clock, issued, held, lapsed, current,
                   accepted, ended, revoked, raced>>

\* Defect: two servers hold the advisory lock at once.
LockFree_Ignored(op) == TRUE

LockFree(op) == op \in LeaseOperation => lock = NoServer

\* loadPostgresState, for a request on a lease, or with the auth of an account.
Load(s, op, lease, request) ==
    /\ disk' = Materialized(s, db)
    /\ tx' = [tx EXCEPT ![s] = [NoTx EXCEPT
                 !.pc = "loaded", !.op = op, !.lease = lease, !.rows = db,
                 !.account = request.account, !.generation = request.generation,
                 !.auth = request.auth]]
    /\ UNCHANGED <<db, job, clock, issued, lapsed, current, accepted, ended,
                   revoked, raced>>

\* stateMu, the advisory lock and the Load under them.
Begin(s, op, lease, request) ==
    /\ tx[s].pc = "idle"
    /\ op \in Operations
    /\ LockFree(op)
    /\ lock' = IF op \in LeaseOperation THEN s ELSE lock
    /\ Load(s, op, lease, request)

Start(s) ==
    \/ /\ \E op \in Operation \ {"touch", "upload", "release",
                                "push", "settings", "import"} : Begin(s, op, 0, NoHold)
       /\ UNCHANGED held
    \* The auth.json of an account, from wherever its owner logged in.
    \/ /\ \E op \in {"push", "import"}, a \in Account : \E auth \in 1..current[a] :
             Begin(s, op, 0, [account |-> a, generation |-> 0, auth |-> auth])
       /\ UNCHANGED held
    \/ /\ \E l \in Held : Begin(s, "touch", l, NoHold)
       /\ UNCHANGED held
    \/ /\ \E l \in Held : Begin(s, "upload", l, held[l])
       /\ UNCHANGED held
    \* The client has stopped Codex before it asks for the release.
    \/ \E l \in Held : /\ Begin(s, "release", l, NoHold)
                       /\ held' = [held EXCEPT ![l] = NoHold]

\* UpsertProfileSnapshot keeps both locks for its second Load.
LoadAgain(s) ==
    /\ tx[s].pc = "again"
    /\ Load(s, "settings", 0, [NoHold EXCEPT !.account = tx[s].account])
    /\ UNCHANGED <<lock, held>>

-----------------------------------------------------------------------------
(* What the operations do to the rows they have loaded                     *)

\* expireAccountLeases.
Swept(rows, now) ==
    [a \in Account |->
        IF rows[a].lease \in lapsed
        THEN [rows[a] EXCEPT !.lease = 0, !.stamp = now,
                             !.status = IF @ = "ready" THEN "recovering" ELSE @]
        ELSE rows[a]]

\* loadBalanceEligibility, but for the quota.
Eligible(row, auth) ==
    /\ row.present /\ row.owner = "cloud" /\ row.status = "ready"
    /\ row.lease = 0
    /\ auth # 0

\* The rows to save.  An operation reads the clock after its Load.
Decided(s, rows, lease) ==
    /\ clock < MaxStamp
    /\ clock' = clock + 1
    /\ tx' = [tx EXCEPT ![s].pc = "decided", ![s].rows = rows,
                        ![s].now = clock + 1, ![s].lease = lease]
    /\ UNCHANGED <<db, lock, job, held, lapsed, current, accepted, ended, revoked, raced>>

\* It answers without a Save.
Finish(s) ==
    /\ tx' = [tx EXCEPT ![s] = NoTx]
    /\ lock' = IF lock = s THEN NoServer ELSE lock
    /\ UNCHANGED <<db, disk, job, clock, issued, held, lapsed, current,
                   accepted, ended, revoked, raced>>

\* ClaimLease: the account is any eligible one, or none when no quota is left.
DecideClaim(s, rows) ==
    \/ /\ Decided(s, rows, 0)
       /\ UNCHANGED <<disk, issued>>
    \/ /\ issued < MaxLeases
       /\ \E a \in Account :
             /\ Eligible(rows[a], disk[s][a])
             /\ Decided(s, [rows EXCEPT ![a].lease = issued + 1,
                                        ![a].stamp = clock + 1], issued + 1)
       /\ issued' = issued + 1
       /\ UNCHANGED disk

\* TouchLease, ReleaseLease and UpdateLeasedProfileSnapshot of a lease that is
\* on row a.  An upload puts the file in place now, and carries the status that
\* the client was given at the claim.
DecideHeld(s, rows, a) ==
    /\ UNCHANGED issued
    /\ \/ /\ tx[s].op = "touch"
          /\ Decided(s, [rows EXCEPT ![a].stamp = clock + 1], tx[s].lease)
          /\ UNCHANGED disk
       \/ /\ tx[s].op = "release"
          /\ Decided(s, [rows EXCEPT ![a].stamp = clock + 1, ![a].lease = 0],
                     tx[s].lease)
          /\ UNCHANGED disk
       \/ /\ tx[s].op = "upload" /\ tx[s].generation = rows[a].generation
          /\ rows[a].generation < MaxGeneration
          /\ Decided(s, [rows EXCEPT ![a].stamp = clock + 1, ![a].status = "ready",
                                     ![a].generation = @ + 1], tx[s].lease)
          /\ disk' = [disk EXCEPT ![s][a] = tx[s].auth]

\* AddAccount and syncManagedAccounts: rows without a generation for accounts
\* that have none.
Added(s, accounts) ==
    [a \in Account |->
        IF a \in accounts THEN [NoRow EXCEPT !.present = TRUE, !.stamp = clock + 1]
        ELSE tx[s].rows[a]]

\* The homes on this server that no row is for, such as that of an account that
\* another server has deleted.
Found(s) == {a \in Account : ~ tx[s].rows[a].present /\ disk[s][a] # 0}

\* upsertJSONProfileLocked counts up the generation, and keeps a lease whose
\* term is over.  An account that is not there is added with its first
\* generation; the save of addAccountLocked and the one after it are one here.
Counted(row) ==
    IF row.present THEN [row EXCEPT !.generation = @ + 1, !.stamp = clock + 1]
    ELSE [NoRow EXCEPT !.present = TRUE, !.generation = 1, !.stamp = clock + 1]

DecideProfile(s) ==
    LET a == tx[s].account
        row == tx[s].rows[a]
    IN  \/ /\ row.lease \notin {0} \cup lapsed
           /\ Finish(s)
        \/ /\ row.lease \in {0} \cup lapsed
           /\ row.generation < MaxGeneration
           /\ Decided(s, [tx[s].rows EXCEPT ![a] = Counted(row)], 0)
           /\ disk' = [disk EXCEPT ![s][a] = tx[s].auth]
           /\ UNCHANGED issued

\* SetOwner: an account that goes to a client loses its lease.
OwnerSet(row, owner) ==
    [row EXCEPT !.owner = owner, !.lease = IF owner = "client" THEN 0 ELSE @]

\* What the setters make of the row of account a.
Settings(s, a) ==
    LET row == tx[s].rows[a]
    IN  CASE tx[s].op = "setStatus" ->
               {[row EXCEPT !.status = status] : status \in AdminStatus}
          [] tx[s].op = "setOwner" -> {OwnerSet(row, owner) : owner \in OwnerMode}
          [] tx[s].op = "settings" /\ a = tx[s].account ->
               {[row EXCEPT !.status = new[1], !.owner = new[2]] :
                  new \in (AdminStatus \cup {row.status}) \X OwnerMode}
          [] OTHER -> {}

Decide(s) ==
    LET rows == Swept(tx[s].rows, clock + 1)
        holder == {a \in Account : rows[a].lease = tx[s].lease}
    IN  /\ tx[s].pc = "loaded"
        /\ \/ tx[s].op = "claim" /\ DecideClaim(s, rows)
           \/ /\ tx[s].op = "recover" /\ rows # tx[s].rows
              /\ Decided(s, rows, 0)
              /\ UNCHANGED <<disk, issued>>
           \/ /\ tx[s].op = "recover" /\ rows = tx[s].rows
              /\ Finish(s)
           \/ /\ tx[s].lease # 0 /\ \E a \in holder : DecideHeld(s, rows, a)
           \* A lease that is gone: the sweep alone is saved.
           \/ /\ tx[s].lease # 0 /\ holder = {}
              /\ Decided(s, rows, 0)
              /\ UNCHANGED <<disk, issued>>
           \* A generation conflict.
           \/ /\ tx[s].op = "upload"
              /\ \E a \in holder : rows[a].generation # tx[s].generation
              /\ Finish(s)
           \/ /\ \E a \in Account : \E row \in Settings(s, a) :
                    /\ row.present
                    /\ Decided(s, [tx[s].rows EXCEPT
                                      ![a] = [row EXCEPT !.stamp = clock + 1]], 0)
              /\ UNCHANGED <<disk, issued>>
           \/ /\ \/ /\ tx[s].op = "add"
                    /\ \E a \in Account : /\ ~ tx[s].rows[a].present
                                          /\ Decided(s, Added(s, {a}), 0)
                 \/ /\ tx[s].op = "list" /\ Found(s) # {}
                    /\ Decided(s, Added(s, Found(s)), 0)
              /\ UNCHANGED <<disk, issued>>
           \/ tx[s].op \in {"push", "import"} /\ DecideProfile(s)
           \* An account that is not there, or is there already; nothing to add.
           \/ /\ \/ /\ tx[s].op \in {"setStatus", "setOwner"}
                    /\ \E a \in Account : ~ tx[s].rows[a].present
                 \/ tx[s].op = "add" /\ \E a \in Account : tx[s].rows[a].present
                 \/ tx[s].op = "list" /\ Found(s) = {}
              /\ Finish(s)
           \* TouchClient and the like save the rows as they were loaded, and so
           \* does a push whose account was deleted under it.
           \/ /\ \/ tx[s].op = "other"
                 \/ tx[s].op = "settings" /\ ~ tx[s].rows[tx[s].account].present
              /\ tx' = [tx EXCEPT ![s].pc = "decided"]
              /\ UNCHANGED <<db, disk, lock, job, clock, issued, held, lapsed,
                             current, accepted, ended, revoked, raced>>

-----------------------------------------------------------------------------
(* savePostgresState, and the answer to the client                         *)

\* What the client goes by when the answer reaches it: ExportProfileSnapshot
\* reads the file after one more Load.
Answered(s, files) ==
    LET l == tx[s].lease
        a == CHOOSE b \in Account : tx[s].rows[b].lease = l
    IN  CASE l # 0 /\ tx[s].op = "claim" ->
               [held EXCEPT ![l] = [account |-> a, auth |-> files[s][a],
                                    generation |-> tx[s].rows[a].generation]]
          [] l # 0 /\ tx[s].op = "upload" /\ held[l] # NoHold ->
               [held EXCEPT ![l].generation = tx[s].rows[a].generation]
          [] OTHER -> held

\* What is left to do after a save: a push goes on, still under both locks.
Saves(s) == IF tx[s].op = "push"
            THEN [NoTx EXCEPT !.pc = "again", !.op = "settings",
                              !.account = tx[s].account]
            ELSE NoTx

Save(s) ==
    LET rows == Saved(s, tx[s].rows)
        files == IF tx[s].op = "claim" THEN Materialized(s, rows) ELSE disk
        others == IF tx[s].op \in LeaseOperation THEN Operation \ LeaseOperation
                  ELSE Operation
    IN  /\ tx[s].pc = "decided"
        /\ db' = rows
        /\ tx' = [Overtake(others, rows) EXCEPT ![s] = Saves(s)]
        /\ lock' = IF lock = s /\ Saves(s) = NoTx THEN NoServer ELSE lock
        /\ disk' = files
        /\ held' \in {held, Answered(s, files)}
        /\ accepted' = accepted \cup
             {[account |-> a, generation |-> tx[s].generation, auth |-> tx[s].auth] :
                a \in {b \in Account : /\ tx[s].op = "upload" /\ tx[s].lease # 0
                                       /\ tx[s].rows[b].lease = tx[s].lease}}
        /\ ended' = ended \cup Cleared(rows)
        /\ revoked' = IF tx[s].op = "setOwner" THEN revoked \cup Cleared(rows)
                      ELSE revoked
        /\ raced' = raced \cup Races(s)
        /\ UNCHANGED <<job, clock, issued, lapsed, current>>

\* DeleteAccount: stateMu from its Load to the deletion of the row.  What was
\* uploaded for the account is no history of one that is added under its name.
Delete(s, a) ==
    LET rows == [db EXCEPT ![a] = NoRow]
    IN  /\ MayDelete
        /\ tx[s].pc = "idle" /\ db[a].present
        /\ db' = rows
        /\ disk' = [Materialized(s, db) EXCEPT ![s][a] = 0]
        /\ tx' = Overtake(Operation, rows)
        /\ accepted' = {u \in accepted : u.account # a}
        /\ ended' = ended \cup Cleared(rows)
        /\ revoked' = revoked \cup Cleared(rows)
        /\ UNCHANGED <<lock, job, clock, issued, held, lapsed, current, raced>>

-----------------------------------------------------------------------------
(* Quota probes and reports: no stateMu and no advisory lock               *)

Record(s, result) ==
    /\ clock < MaxStamp
    /\ clock' = clock + 1
    /\ job' = [job EXCEPT ![s] = [result EXCEPT !.pc = "answered", !.stamp = clock + 1]]
    /\ UNCHANGED <<db, tx, lock, issued, held, lapsed, accepted, ended, revoked, raced>>

\* FetchQuota up to the request: the last look at the lease, and the digest.
ProbeStart(s, a) ==
    /\ job[s].pc = "idle"
    /\ db[a].present /\ db[a].owner = "cloud" /\ db[a].lease \in {0} \cup lapsed
    /\ disk' = Materialized(s, db)
    /\ disk'[s][a] # 0
    /\ job' = [job EXCEPT ![s] = [NoJob EXCEPT !.pc = "asked", !.account = a,
                                               !.before = disk'[s][a]]]
    /\ UNCHANGED <<db, tx, lock, clock, issued, held, lapsed, current,
                   accepted, ended, revoked, raced>>

\* The access token has run out: the provider issues a new auth.json, which is
\* written into the home on this server and nowhere else.
ProbeRefresh(s) ==
    LET a == job[s].account
    IN  /\ job[s].pc = "asked" /\ job[s].before = current[a]
        /\ current[a] < MaxVersion
        /\ current' = [current EXCEPT ![a] = @ + 1]
        /\ disk' = [disk EXCEPT ![s][a] = current[a] + 1]
        /\ job' = [job EXCEPT ![s].pc = "refreshed"]
        /\ UNCHANGED <<db, tx, lock, clock, issued, held, lapsed, accepted,
                       ended, revoked, raced>>

\* The answer, the digest after it, and the clock read for the result.
ProbeAnswer(s) ==
    LET changed == disk[s][job[s].account] \notin {0, job[s].before}
    IN  /\ job[s].pc \in {"asked", "refreshed"}
        /\ \E answer \in {"supported", "unsupported"} :
              Record(s, [job[s] EXCEPT !.answer = answer, !.changed = changed])
        /\ UNCHANGED <<disk, current>>

\* The refresh token was used before: somebody else holds a later auth.json.
ProbeRefused(s) ==
    LET a == job[s].account
    IN  /\ job[s].pc = "asked" /\ job[s].before # current[a]
        /\ Record(s, [job[s] EXCEPT !.answer = "refresh_invalid",
                                    !.changed = disk[s][a] \notin {0, job[s].before}])
        /\ UNCHANGED <<disk, current>>

\* RecordLeasedQuota: the windows in a heartbeat, after verifyLeaseHolder;
\* heartbeatLease records them as supported.
HolderReport(s, l) ==
    LET a == held[l].account
    IN  /\ job[s].pc = "idle"
        /\ held[l] # NoHold /\ db[a].lease = l /\ l \notin lapsed
        /\ Record(s, [NoJob EXCEPT !.account = a])
        /\ disk' = Materialized(s, db)
        /\ UNCHANGED current

\* RecordQuotaReport: it makes the account the client's, whatever it reports.
OwnerReport(s, a) ==
    /\ Reporting
    /\ job[s].pc = "idle"
    /\ \E answer \in Answer :
          Record(s, [NoJob EXCEPT !.account = a, !.answer = answer, !.flip = TRUE])
    /\ UNCHANGED <<disk, current>>

\* The CASE expressions of the two UPDATEs.
StatusAfter(status, answer) ==
    CASE answer = "refresh_invalid" /\ status \in {"ready", "recovering"} -> "drain"
      [] answer = "supported" /\ status = "recovering" -> "ready"
      [] OTHER -> status

\* recordPostgresQuotaResult: the UPDATEs take no heed of updated_at, and none
\* of them writes a lease or the auth.
Commit(s) ==
    LET j == job[s]
        a == j.account
        result == [db[a] EXCEPT
                     !.owner = IF j.flip THEN "client" ELSE @,
                     !.status = StatusAfter(@, j.answer),
                     !.generation = IF j.changed /\ j.answer # "refresh_invalid"
                                    THEN @ + 1 ELSE @,
                     !.stamp = j.stamp]
        rows == IF db[a].present /\ (j.flip \/ j.changed \/ j.answer # "unsupported")
                THEN [db EXCEPT ![a] = result] ELSE db
    IN  /\ j.pc = "answered"
        /\ rows[a].generation <= MaxGeneration
        /\ db' = rows
        /\ tx' = Overtake(Operation, rows)
        /\ raced' = IF rows[a].stamp < db[a].stamp THEN raced \cup {a} ELSE raced
        /\ job' = [job EXCEPT ![s] = NoJob]
        /\ UNCHANGED <<disk, lock, clock, issued, held, lapsed, current,
                       accepted, ended, revoked>>

-----------------------------------------------------------------------------
(* Time, clients and crashes                                               *)

\* A term is long against an operation: it does not run out while the claim or
\* the renewal that sets it is being saved.
Lapse(l) ==
    /\ l \in 1..issued /\ l \notin lapsed
    /\ \A s \in Server : ~ (tx[s].pc = "decided" /\ tx[s].lease = l)
    /\ lapsed' = lapsed \cup {l}
    /\ UNCHANGED <<db, disk, tx, lock, job, clock, issued, held, current,
                   accepted, ended, revoked, raced>>

\* External: Codex has the provider renew the auth that its client was given.
CodexRotates(l) ==
    LET a == held[l].account
    IN  /\ held[l] # NoHold /\ held[l].auth = current[a]
        /\ current[a] < MaxVersion
        /\ current' = [current EXCEPT ![a] = @ + 1]
        /\ held' = [held EXCEPT ![l].auth = current[a] + 1]
        /\ UNCHANGED <<db, disk, tx, lock, job, clock, issued, lapsed,
                       accepted, ended, revoked, raced>>

\* A server stops: Postgres frees the advisory lock with its connection, and
\* what it has not committed is gone.
Crash(s) ==
    /\ tx' = [tx EXCEPT ![s] = NoTx]
    /\ job' = [job EXCEPT ![s] = NoJob]
    /\ lock' = IF lock = s THEN NoServer ELSE lock
    /\ UNCHANGED <<db, disk, clock, issued, held, lapsed, current, accepted,
                   ended, revoked, raced>>

Next ==
    \/ \E s \in Server :
          \/ Start(s) \/ LoadAgain(s) \/ Decide(s) \/ Save(s) \/ Read(s) \/ Crash(s)
          \/ \E a \in Account : Delete(s, a)
    \/ \E s \in Prober :
          \/ ProbeRefresh(s) \/ ProbeAnswer(s) \/ ProbeRefused(s) \/ Commit(s)
          \/ \E a \in Account : ProbeStart(s, a) \/ OwnerReport(s, a)
          \/ \E l \in Held : HolderReport(s, l)
    \/ \E l \in 1..MaxLeases : Lapse(l) \/ CodexRotates(l)

Spec == Init /\ [][Next]_vars

-----------------------------------------------------------------------------
(* Properties                                                              *)

\* Every variable keeps to its type, and the advisory lock is held by the one
\* server that is working on the leases.
PgTypeOK ==
    /\ db \in [Account -> Row]
    /\ disk \in [Server -> [Account -> Nat]]
    /\ tx \in [Server -> TxState]
    /\ lock \in Server \cup {NoServer}
    /\ job \in [Server -> JobState]
    /\ clock \in Nat /\ issued \in Nat
    /\ held \in [1..MaxLeases -> Hold]
    /\ lapsed \in SUBSET (1..issued)
    /\ current \in [Account -> Nat] /\ accepted \in SUBSET Hold
    /\ ended \in SUBSET (1..issued) /\ revoked \subseteq ended
    /\ raced \in SUBSET Account
    /\ \A s \in Server :
          lock = s <=> tx[s].pc # "idle" /\ tx[s].op \in LeaseOperation

Live == Held \ lapsed

\* A lease that a client was given, that has not run out and that no operator
\* has taken back (SetOwner, DeleteAccount) is on the row of its account: the
\* advisory lock keeps lease operations apart, and updated_at protects the row
\* from saves of older copies.  The exception is an account in raced, whose row
\* one step changed between the Load and the Save of an operation that changes
\* it too, without a lock that keeps the two apart.
HoldersRecorded ==
    \A l \in Live \ revoked :
        held[l].account \notin raced => db[held[l].account].lease = l

\* A lease that was taken off its row (a release, an expiry, an operator) does
\* not come back, and a generation that was counted is not lost, when a server
\* saves the rows it has loaded before: updated_at protects them.  The same
\* exception, and it is needed: a setter that has loaded the row before a
\* release and decides after it writes the lease back, and so does a save that
\* inserts a deleted row again.
NothingRevived ==
    [][\A a \in Account \ raced' :
          /\ db'[a].lease \notin ended
          /\ db[a].present /\ db'[a].present => db'[a].generation >= db[a].generation]_vars

\* README.md:174: an upload comes with the generation it replaces, and a late
\* one is refused: of two uploads of the same generation, one sent again after
\* its answer was lost, at most one is accepted, on whatever servers they
\* arrive, until the account is deleted.  The same exception.
UploadsInTurn ==
    \A u, v \in accepted :
        /\ u.account = v.account /\ u.account \notin raced
        /\ u.generation = v.generation
        => u = v

\* README.md:115: with the advisory lock, several server processes do not hand
\* out the same account.  The save of a claim is skipped when a quota result
\* got a later updated_at into the row, and the claim is answered all the same.
OneHolder ==
    \A k, l \in Live : held[k].account = held[l].account => k = l

\* README.md:175, 180: an older auth never overwrites a newer one, and recovery
\* verifies the last uploaded auth.  Any GET between
\* the moment an upload puts the file in place and its save puts the old one
\* back, and the save stores that.
LastUploadStored ==
    \A u \in accepted :
        LET row == db[u.account]
        IN  row.present /\ row.generation = u.generation + 1 => row.auth = u.auth
=============================================================================
