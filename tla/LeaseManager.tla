---------------------------- MODULE LeaseManager ----------------------------
(***************************************************************************)
(* The account pool of one cube server that keeps its state in files:      *)
(* leases (lease.go), quota probes and reports (quota.go and               *)
(* quota/codex.go), the background quota worker (web/quota_worker.go), the *)
(* round robin cursor and the operator's account actions (accounts.go).    *)
(*                                                                         *)
(* Every manager method that changes the state holds stateMu from its Load *)
(* to its Save, so it is one action here; a quota probe holds no lock      *)
(* while it talks to the provider, so it is a process of several steps.    *)
(* Time is relative: a lease carries the ticks left until it expires.      *)
(***************************************************************************)
EXTENDS LoadBalance

CONSTANTS
    Account,          \* account ids, numbered in their order
    Client,           \* device tokens; each runs at most one claim at a time
    Worker,           \* the background quota worker: one process, or none
    Viewer,           \* GET requests for the quota of an account
    NoClient,         \* a request of the admin token, which names no client
    Token, NoToken,   \* contents of an auth.json; NoToken when there is none
    Workspace, DefaultWorkspace,
    Answers,          \* what the provider's usage endpoint may answer
    Reports,          \* what a client may report
    InitialQuota,     \* what is cached when the run starts
    AdminStatus,      \* what an operator or an upload may set a status to
    AdminOwner,       \* what an operator may set an owner mode to
    MayDelete,        \* whether an operator deletes accounts
    TTL,              \* the lease terms clients ask for
    MinTTL, DefaultTTL, MaxTTL,
    ProbeMax,         \* ticks a probe can take: every request has a timeout
    MaxLeases, MaxGeneration   \* bounds of the model

Status == {"ready", "recovering", "drain", "disabled"}
OwnerMode == {"cloud", "client"}
Caller == Client \cup {NoClient}
Prober == Client \cup Worker \cup Viewer

ASSUME AccountAssumption == Account \subseteq Nat \ {0}
ASSUME ClientAssumption == IsFiniteSet(Client)
ASSUME ProcessAssumption ==
    /\ NoClient \notin Client
    /\ Client \cap Worker = {} /\ Client \cap Viewer = {}
    /\ Worker \cap Viewer = {}
ASSUME TokenAssumption == NoToken \notin Token
ASSUME WorkspaceAssumption == DefaultWorkspace \in Workspace
ASSUME ResultAssumption ==
    /\ Answers \cup Reports \cup {InitialQuota} \subseteq Result
    /\ \A r \in Answers : r.status \in {"supported", "unsupported"}
    /\ \A r \in Reports : r.status # ""
ASSUME AdminAssumption == AdminStatus \subseteq Status /\ AdminOwner \subseteq OwnerMode
ASSUME TermAssumption ==
    /\ TTL \subseteq Nat
    /\ MinTTL \in Nat \ {0} /\ DefaultTTL \in Nat /\ MaxTTL \in Nat
    /\ MinTTL <= DefaultTTL /\ DefaultTTL <= MaxTTL
    /\ ProbeMax \in Nat
ASSUME BoundAssumption == MaxLeases \in Nat /\ MaxGeneration \in Nat

VARIABLES
    acct,        \* the account rows of state.json
    auth,        \* auth.json in each account's managed home
    cache,       \* the quota cache: the last result stored and who sent it
    last,        \* the round robin cursor, 0 when there is none
    dispatches,  \* the dispatch history
    issued,      \* lease ids handed out so far: 1..issued
    probe,       \* what each prober is doing
    suspect,     \* history: accounts whose lease expired, not vouched for since
    crossed      \* history: probers whose account was leased since they checked

vars == <<acct, auth, cache, last, dispatches, issued, probe, suspect, crossed>>
history == <<suspect, crossed>>

\* A lease id is a number from 1, in the order they were issued; 0 is none.
AccountRow ==
    [present : BOOLEAN, status : Status, owner : OwnerMode, generation : Nat,
     workspace : Workspace, lease : Nat, client : Caller, left : Nat]

\* The row of an account that is not there.
Absent == [present |-> FALSE, status |-> "ready", owner |-> "cloud",
           generation |-> 0, workspace |-> DefaultWorkspace,
           lease |-> 0, client |-> NoClient, left |-> 0]
\* The row of an imported one: UpsertJSONProfile leaves it at generation 1.
Imported == [Absent EXCEPT !.present = TRUE, !.generation = 1]

Event == {"claimed", "released", "expired"}
DispatchEvent == [lease : Nat, account : Account, client : Caller, event : Event]

Source == {"", "cloud", "client"}
CacheEntry == [result : Result, source : Source]

\* A prober works through todo, one FetchQuota at a time.
ProbePC == {"next", "recheck", "send", "asked", "refreshed", "record"}
Job == {"none", "claim", "fetch"}
ProbeState ==
    [job : Job, todo : SUBSET Account, pc : ProbePC, account : Account \cup {0},
     before : Token \cup {NoToken}, result : Result, changed : BOOLEAN, age : Nat]

Idle == [job |-> "none", todo |-> {}, pc |-> "next", account |-> 0,
         before |-> NoToken, result |-> NotChecked, changed |-> FALSE, age |-> 0]

Init ==
    /\ acct = [a \in Account |-> Imported]
    /\ auth \in [Account -> Token]
    /\ cache = [a \in Account |->
                   [result |-> InitialQuota,
                    source |-> IF InitialQuota = NotChecked THEN "" ELSE "cloud"]]
    /\ last = 0
    /\ dispatches = {}
    /\ issued = 0
    /\ probe = [p \in Prober |-> Idle]
    /\ suspect = {}
    /\ crossed = {}

-----------------------------------------------------------------------------
(* Rows, leases and the expiry sweep                                       *)

\* accountLeaseActive: not the same as the row naming a lease.
Active(row) == row.lease # 0 /\ row.left > 0

\* A lease whose time is over and that no sweep has cleared yet.
Lapsed(row) == row.lease # 0 /\ row.left = 0

clearAccountLease(row) ==
    [row EXCEPT !.lease = 0, !.client = NoClient, !.left = 0]

\* Defect: a term below the minimum is granted as asked.
normalizeLeaseTTL_NoFloor(ttl) == IF ttl > MaxTTL THEN MaxTTL ELSE ttl

normalizeLeaseTTL(ttl) ==
    CASE ttl < MinTTL -> DefaultTTL
      [] ttl > MaxTTL -> MaxTTL
      [] OTHER -> ttl

LapsedAccounts == {a \in Account : Lapsed(acct[a])}

\* Defect: the sweep leaves the lease on the row.
Swept_KeepsLease ==
    [a \in Account |->
        IF Lapsed(acct[a]) /\ acct[a].status = "ready"
        THEN [acct[a] EXCEPT !.status = "recovering"] ELSE acct[a]]

\* Defect: the account goes straight back into the pool.
Swept_StaysReady ==
    [a \in Account |->
        IF Lapsed(acct[a]) THEN clearAccountLease(acct[a]) ELSE acct[a]]

\* expireAccountLeases: the rows after the sweep ...
Swept ==
    [a \in Account |->
        IF Lapsed(acct[a])
        THEN [clearAccountLease(acct[a]) EXCEPT
                 !.status = IF @ = "ready" THEN "recovering" ELSE @]
        ELSE acct[a]]

\* dispatchEventFromAccount, of the lease that account a's row names.
DispatchOf(row, a, event) ==
    [lease |-> row.lease, account |-> a, client |-> row.client, event |-> event]

\* ... and the dispatch history.
SweptDispatches ==
    dispatches \cup {DispatchOf(acct[a], a, "expired") : a \in LapsedAccounts}

SweptSuspects == suspect \cup {a \in LapsedAccounts : acct[a].status = "ready"}

\* A handler that finds nothing to do still saves the sweep it began with.
SaveSweep ==
    /\ acct' = Swept
    /\ dispatches' = SweptDispatches
    /\ suspect' = SweptSuspects

\* validateLease's client check; it lets a request without a client through.
MayUse(c, row) == c = NoClient \/ row.client = NoClient \/ row.client = c

\* findLeaseAccount and validateLease on the swept rows.
Holds(c, l, a) == Swept[a].lease = l /\ MayUse(c, Swept[a])

\* Defect: the lease on the row is not looked at.
Eligible_IgnoresLease(row, token, result) ==
    /\ row.present /\ row.owner = "cloud" /\ row.status = "ready"
    /\ token # NoToken
    /\ QuotaUsable(result)

\* loadBalanceEligibility.
Eligible(row, token, result) ==
    /\ row.present /\ row.owner = "cloud" /\ row.status = "ready"
    /\ token # NoToken
    /\ ~ Active(row)
    /\ QuotaUsable(result)

Quota == [a \in Account |-> cache[a].result]

\* What a claim in a workspace may choose from, after its sweep.
Candidates(workspace) ==
    {a \in Account : /\ Swept[a].workspace = workspace
                     /\ Eligible(Swept[a], auth[a], cache[a].result)}

\* The probers between their lease check of account a and their result.
Probing(a) == {p \in Prober : probe[p].account = a /\ probe[p].pc # "recheck"}

\* Bound of the model: leave a generation to every probe that may count one.
GenerationLeft(a) ==
    acct[a].generation
      + Cardinality({p \in Prober : probe[p].account = a}) < MaxGeneration

-----------------------------------------------------------------------------
(* Claiming: ClaimLease and the round robin                                *)

\* RecoverExpiredLeases: sweep, then probe every account whose lease expired.
ClaimStart(c) ==
    /\ probe[c].job = "none"
    /\ issued + Cardinality({d \in Client : probe[d].job = "claim"}) < MaxLeases
    /\ SaveSweep
    /\ probe' = [probe EXCEPT ![c].job = "claim", ![c].todo = LapsedAccounts]
    /\ UNCHANGED <<auth, cache, last, issued, crossed>>

\* The rest of ClaimLease: sweep again, pick, lease, and move the cursor.
Claim(c, workspace, ttl) ==
    LET rows == Swept
        available == Candidates(workspace)
        lease == issued + 1
    IN  /\ probe[c].job = "claim" /\ probe[c].pc = "next" /\ probe[c].todo = {}
        /\ probe' = [probe EXCEPT ![c] = Idle]
        /\ suspect' = SweptSuspects
        /\ \/ /\ available = {}
              /\ acct' = rows
              /\ dispatches' = SweptDispatches
              /\ UNCHANGED <<last, issued, crossed>>
           \/ \E a \in Picks(Quota, available, last) :
              /\ acct' = [rows EXCEPT ![a].lease = lease, ![a].client = c,
                                      ![a].left = normalizeLeaseTTL(ttl)]
              /\ dispatches' = SweptDispatches
                                 \cup {[lease |-> lease, account |-> a,
                                        client |-> c, event |-> "claimed"]}
              /\ last' = a
              /\ issued' = lease
              /\ crossed' = crossed \cup Probing(a)
        /\ UNCHANGED <<auth, cache>>

\* The pick endpoint: it moves the cursor, without a sweep and without a lease.
SelectAccountForRun ==
    LET available == {a \in Account : Eligible(acct[a], auth[a], cache[a].result)}
    IN  /\ last' \in Picks(Quota, available, last)
        /\ UNCHANGED <<acct, auth, cache, dispatches, issued, probe, history>>

ResetRoundRobin ==
    /\ last' = 0
    /\ UNCHANGED <<acct, auth, cache, dispatches, issued, probe, history>>

-----------------------------------------------------------------------------
(* What a client does with a lease.  Any client may send any lease id that *)
(* was ever issued: a late or a repeated request is one of these.          *)

\* TouchLease, UpdateLeasedProfileSnapshot and ReleaseLease of a lease that
\* the sweep has just ended, or that ended long ago: only the sweep is saved.
\* A generation conflict, or the release of a foreign lease, saves nothing.
RefusedLeaseCall ==
    /\ SaveSweep
    /\ UNCHANGED <<auth, cache, last, issued, probe, crossed>>

\* TouchLease.
Touch(c, l, a, ttl) ==
    /\ Holds(c, l, a)
    /\ acct' = [Swept EXCEPT ![a].left = normalizeLeaseTTL(ttl)]
    /\ dispatches' = SweptDispatches
    /\ suspect' = SweptSuspects
    /\ UNCHANGED <<auth, cache, last, issued, probe, crossed>>

\* UpdateLeasedProfileSnapshot: an upload of the auth.json of a leased account.
\* The handlers renew the lease for the default term, whatever was asked for.
Upload(c, l, a, generation, token, status) ==
    /\ Holds(c, l, a)
    /\ generation = acct[a].generation
    /\ GenerationLeft(a)
    /\ auth' = [auth EXCEPT ![a] = token]
    /\ acct' = [Swept EXCEPT ![a].status = IF status = "" THEN @ ELSE status,
                             ![a].generation = @ + 1,
                             ![a].left = normalizeLeaseTTL(DefaultTTL)]
    /\ dispatches' = SweptDispatches
    /\ suspect' = SweptSuspects
    /\ UNCHANGED <<cache, last, issued, probe, crossed>>

\* ReleaseLease.
Release(c, l, a) ==
    /\ Holds(c, l, a)
    /\ acct' = [Swept EXCEPT ![a] = clearAccountLease(@)]
    /\ dispatches' = SweptDispatches \cup {DispatchOf(acct[a], a, "released")}
    /\ suspect' = SweptSuspects
    /\ UNCHANGED <<auth, cache, last, issued, probe, crossed>>

-----------------------------------------------------------------------------
(* Quota results: writeQuotaResultLocked and its callers                   *)

\* Defect: a refused refresh token is stored as the account's status.
StatusAfter_Verbatim(status, answer) ==
    CASE answer = "refresh_invalid" -> answer
      [] answer = "supported" /\ status = "recovering" -> "ready"
      [] OTHER -> status

\* Defect: any answer but a refusal ends the recovery.
StatusAfter_AnyAnswer(status, answer) ==
    CASE answer = "refresh_invalid" -> "drain"
      [] status = "recovering" -> "ready"
      [] OTHER -> status

StatusAfter(status, answer) ==
    CASE answer = "refresh_invalid" /\ status \in {"ready", "recovering"} -> "drain"
      [] answer = "supported" /\ status = "recovering" -> "ready"
      [] OTHER -> status

\* The row after a result: a missing account has none to change.
Recorded(row, answer, authChanged, flipOwner) ==
    IF ~ row.present THEN row
    ELSE [row EXCEPT !.owner = IF flipOwner THEN "client" ELSE @,
                     !.status = StatusAfter(@, answer),
                     !.generation = IF authChanged /\ answer # "refresh_invalid"
                                    THEN @ + 1 ELSE @]

\* The cache is written first, for a missing account too.
WriteQuotaResult(a, result, authChanged, source, flipOwner) ==
    /\ cache' = [cache EXCEPT ![a] = [result |-> result, source |-> source]]
    /\ acct' = [acct EXCEPT ![a] = Recorded(@, result.status, authChanged, flipOwner)]
    /\ suspect' = IF result.status = "supported" THEN suspect \ {a} ELSE suspect

\* RecordLeasedQuota: the report in a heartbeat.  No sweep: an exact holder.
RecordLeasedQuota(c, l, a, result) ==
    /\ Active(acct[a]) /\ acct[a].lease = l /\ acct[a].client = c
    /\ WriteQuotaResult(a, result, FALSE, "client", FALSE)
    /\ UNCHANGED <<auth, last, dispatches, issued, probe, crossed>>

\* RecordQuotaReport: a report outside a lease makes the account the client's,
\* and leaves a lease that is on it where it is.
RecordQuotaReport(a, result) ==
    /\ WriteQuotaResult(a, result, FALSE, "client", TRUE)
    /\ UNCHANGED <<auth, last, dispatches, issued, probe, crossed>>

-----------------------------------------------------------------------------
(* A quota probe: FetchQuota and the requests of quota/codex.go            *)

\* Defect: the account is not taken off the list.
Returned_KeepsTodo(p, a) ==
    [Idle EXCEPT !.job = probe[p].job, !.todo = probe[p].todo]

\* The prober is through with account a.
Returned(p, a) ==
    LET todo == probe[p].todo \ {a}
    IN  IF probe[p].job = "fetch" /\ todo = {} THEN Idle
        ELSE [Idle EXCEPT !.job = probe[p].job, !.todo = todo]

\* GetAccount, and the answers that need no request.
FetchLoad(p, a) ==
    /\ probe[p].job # "none" /\ probe[p].pc = "next" /\ a \in probe[p].todo
    /\ probe' = [probe EXCEPT ![p] =
           IF ~ acct[a].present \/ acct[a].owner = "client" \/ Active(acct[a])
           THEN Returned(p, a)
           ELSE [@ EXCEPT !.pc = "recheck", !.account = a]]
    /\ UNCHANGED <<acct, auth, cache, last, dispatches, issued, history>>

\* Defect: the lease is not looked up again.
FetchRecheck_Skipped(p) ==
    /\ probe[p].pc = "recheck"
    /\ probe' = [probe EXCEPT ![p].pc = "send"]
    /\ UNCHANGED <<acct, auth, cache, last, dispatches, issued, history>>

\* leaseActiveFresh: the lease, and nothing else, is looked up again.
FetchRecheck(p) ==
    LET a == probe[p].account
    IN  /\ probe[p].pc = "recheck"
        /\ probe' = [probe EXCEPT ![p] =
               IF Active(acct[a]) THEN Returned(p, a) ELSE [@ EXCEPT !.pc = "send"]]
        /\ UNCHANGED <<acct, auth, cache, last, dispatches, issued, history>>

\* Digest and read auth.json; without one there is nothing to ask.
FetchSend(p) ==
    LET a == probe[p].account
    IN  /\ probe[p].pc = "send"
        /\ probe' = [probe EXCEPT ![p] =
               IF auth[a] = NoToken
               THEN [@ EXCEPT !.pc = "record", !.result = Failure("not_configured")]
               ELSE [@ EXCEPT !.pc = "asked", !.before = auth[a]]]
        /\ UNCHANGED <<acct, auth, cache, last, dispatches, issued, history>>

\* The probe ends with result; auth.json is digested again.
Answered(p, result, token) ==
    probe' = [probe EXCEPT ![p].pc = "record", ![p].result = result,
                           ![p].changed = token \notin {probe[p].before, NoToken}]

\* The usage endpoint answered, or the request failed or timed out.
FetchAnswer(p) ==
    /\ probe[p].pc \in {"asked", "refreshed"}
    /\ \E result \in Answers \cup {Failure("error")} :
          Answered(p, result, auth[probe[p].account])
    /\ UNCHANGED <<acct, auth, cache, last, dispatches, issued, history>>

\* The access token was unauthorized and the refresh token was accepted:
\* persistRefreshedAuth renames a new auth.json over whatever is there now,
\* and fails when the account's home is gone.
FetchRefresh(p, token) ==
    LET a == probe[p].account
    IN  /\ probe[p].pc = "asked"
        /\ token # probe[p].before
        /\ \/ /\ auth[a] # NoToken
              /\ GenerationLeft(a)
              /\ auth' = [auth EXCEPT ![a] = token]
              /\ probe' = [probe EXCEPT ![p].pc = "refreshed"]
           \/ /\ auth[a] = NoToken
              /\ Answered(p, Failure("error"), NoToken)
              /\ UNCHANGED auth
        /\ UNCHANGED <<acct, cache, last, dispatches, issued, history>>

\* The refresh token was refused.
FetchRefused(p) ==
    /\ probe[p].pc = "asked"
    /\ Answered(p, Failure("refresh_invalid"), auth[probe[p].account])
    /\ UNCHANGED <<acct, auth, cache, last, dispatches, issued, history>>

\* recordQuotaResult: the result is stored whatever happened meanwhile.
FetchRecord(p) ==
    LET a == probe[p].account
    IN  /\ probe[p].pc = "record"
        /\ WriteQuotaResult(a, probe[p].result, probe[p].changed, "cloud", FALSE)
        /\ probe' = [probe EXCEPT ![p] = Returned(p, a)]
        /\ crossed' = crossed \ {p}
        /\ UNCHANGED <<auth, last, dispatches, issued>>

\* quotaWorkerShouldRefresh, on the queue RefreshQueue builds: it goes by the
\* reset of the binding window.
ShouldRefresh(a) ==
    LET result == cache[a].result
    IN  /\ acct[a].present /\ acct[a].owner = "cloud" /\ acct[a].status = "ready"
        /\ auth[a] # NoToken
        /\ ~ Active(acct[a])
        /\ \/ result.status = ""
           \/ bindingWindow(result).reset \in {Unknown, 0}

\* One round of the quota worker: the queue is decided before the first probe.
WorkerStart(w) ==
    LET queue == {a \in Account : ShouldRefresh(a)}
    IN  /\ probe[w].job = "none"
        /\ queue # {}
        /\ probe' = [probe EXCEPT ![w].job = "fetch", ![w].todo = queue]
        /\ UNCHANGED <<acct, auth, cache, last, dispatches, issued, history>>

\* A GET of an account's quota, or a pull, which refreshes before it exports.
ViewerStart(v, a) ==
    /\ probe[v].job = "none"
    /\ probe' = [probe EXCEPT ![v].job = "fetch", ![v].todo = {a}]
    /\ UNCHANGED <<acct, auth, cache, last, dispatches, issued, history>>

-----------------------------------------------------------------------------
(* Operator actions.  None of them runs the sweep.                         *)

SetStatus(a, status) ==
    /\ acct[a].present
    /\ acct' = [acct EXCEPT ![a].status = status]
    /\ suspect' = suspect \ {a}
    /\ UNCHANGED <<auth, cache, last, dispatches, issued, probe, crossed>>

\* Giving an account to a client drops its lease and records no dispatch.
SetOwner(a, owner) ==
    /\ acct[a].present
    /\ acct' = [acct EXCEPT ![a] =
           [(IF owner = "client" THEN clearAccountLease(@) ELSE @)
               EXCEPT !.owner = owner]]
    /\ UNCHANGED <<auth, cache, last, dispatches, issued, probe, history>>

SetAccountWorkspace(a, workspace) ==
    /\ acct[a].present
    /\ acct' = [acct EXCEPT ![a].workspace = workspace]
    /\ UNCHANGED <<auth, cache, last, dispatches, issued, probe, history>>

\* Leased or not; what the cache holds about the account stays.
DeleteAccount(a) ==
    /\ MayDelete
    /\ acct[a].present
    /\ acct' = [acct EXCEPT ![a] = Absent]
    /\ auth' = [auth EXCEPT ![a] = NoToken]
    /\ last' = IF last = a THEN 0 ELSE last
    /\ suspect' = suspect \ {a}
    /\ UNCHANGED <<cache, dispatches, issued, probe, crossed>>

\* UpsertProfileSnapshot: import or replace an account.  The import is saved
\* before the status is looked at, so a bad one leaves the first half done.
Push(a, token, status, owner) ==
    LET row == IF acct[a].present THEN [acct[a] EXCEPT !.generation = @ + 1]
               ELSE Imported
    IN  /\ ~ Active(acct[a])
        /\ GenerationLeft(a)
        /\ auth' = [auth EXCEPT ![a] = token]
        /\ suspect' = suspect \ {a}
        /\ \/ /\ status = "unknown"
              /\ acct' = [acct EXCEPT ![a] = row]
           \/ /\ status # "unknown"
              /\ acct' = [acct EXCEPT ![a] =
                     [row EXCEPT !.status = IF status = "" THEN @ ELSE status,
                                 !.owner = IF owner = "" THEN @ ELSE owner]]
        /\ UNCHANGED <<cache, last, dispatches, issued, probe, crossed>>

-----------------------------------------------------------------------------
(* Time and crashes                                                        *)

\* One tick.  A probe's requests time out, so none lasts beyond ProbeMax.
Tick ==
    /\ \A p \in Prober : probe[p].pc # "next" => probe[p].age < ProbeMax
    /\ acct' = [a \in Account |->
                   [acct[a] EXCEPT !.left = IF @ > 0 THEN @ - 1 ELSE 0]]
    /\ cache' = [a \in Account |-> [cache[a] EXCEPT !.result = Aged(@)]]
    /\ probe' = [p \in Prober |->
                    IF probe[p].pc = "next" THEN probe[p]
                    ELSE [probe[p] EXCEPT !.age = @ + 1, !.result = Aged(@)]]
    /\ UNCHANGED <<auth, last, dispatches, issued, history>>

\* The process dies: probes and claims in progress are gone, the files stay.
Restart ==
    /\ probe' = [p \in Prober |-> Idle]
    /\ crossed' = {}

Crash ==
    /\ \E p \in Prober : probe[p].job # "none"
    /\ Restart
    /\ UNCHANGED <<acct, auth, cache, last, dispatches, issued, suspect>>

\* The same between the write of auth.json, or the removal of the account's
\* home, and the save of state.json: in an upload by its holder, in a push when
\* it is not leased, in a deletion.
CrashBeforeSave(a, token) ==
    /\ acct[a].present
    /\ token = NoToken => MayDelete
    /\ auth' = [auth EXCEPT ![a] = token]
    /\ Restart
    /\ UNCHANGED <<acct, cache, last, dispatches, issued, suspect>>

-----------------------------------------------------------------------------

ClientStep(c) ==
    \/ ClaimStart(c)
    \/ \E workspace \in Workspace, ttl \in TTL : Claim(c, workspace, ttl)

LeaseCall(c, l, a) ==
    \/ \E ttl \in TTL : Touch(c, l, a, ttl)
    \/ \E generation \in 0..MaxGeneration, token \in Token,
          status \in AdminStatus \cup {""} :
          Upload(c, l, a, generation, token, status)
    \/ Release(c, l, a)
    \/ \E result \in Reports : RecordLeasedQuota(c, l, a, result)

Fetch(p) ==
    \/ \E a \in Account : FetchLoad(p, a)
    \/ FetchRecheck(p)
    \/ FetchSend(p)
    \/ FetchAnswer(p)
    \/ \E token \in Token : FetchRefresh(p, token)
    \/ FetchRefused(p)
    \/ FetchRecord(p)

Operator(a) ==
    \/ \E status \in AdminStatus : SetStatus(a, status)
    \/ \E owner \in AdminOwner : SetOwner(a, owner)
    \/ \E workspace \in Workspace : SetAccountWorkspace(a, workspace)
    \/ DeleteAccount(a)
    \/ \E token \in Token, status \in AdminStatus \cup {"", "unknown"},
          owner \in AdminOwner \cup {""} : Push(a, token, status, owner)
    \/ \E result \in Reports : RecordQuotaReport(a, result)

Next ==
    \/ \E c \in Client : ClientStep(c)
    \/ \E c \in Caller, l \in 1..issued, a \in Account : LeaseCall(c, l, a)
    \/ RefusedLeaseCall
    \/ \E p \in Prober : Fetch(p)
    \/ \E w \in Worker : WorkerStart(w)
    \/ \E v \in Viewer, a \in Account : ViewerStart(v, a)
    \/ \E a \in Account : Operator(a)
    \/ SelectAccountForRun
    \/ ResetRoundRobin
    \/ Tick
    \/ Crash
    \/ \E a \in Account, token \in Token \cup {NoToken} : CrashBeforeSave(a, token)

Spec == Init /\ [][Next]_vars

\* A request that has begun goes on by itself, the worker's ticker fires again
\* and time passes.  Nobody is obliged to call.
FairSpec ==
    /\ Spec
    /\ \A p \in Prober : WF_vars(Fetch(p))
    /\ \A c \in Client :
          WF_vars(\E workspace \in Workspace, ttl \in TTL : Claim(c, workspace, ttl))
    /\ \A w \in Worker : WF_vars(WorkerStart(w))
    /\ WF_vars(Tick)

\* Clients keep asking for accounts.
BusyClients == \A c \in Client : WF_vars(ClaimStart(c))

BusySpec == FairSpec /\ BusyClients

-----------------------------------------------------------------------------
(* Properties                                                              *)

TypeOK ==
    /\ acct \in [Account -> AccountRow]
    /\ auth \in [Account -> Token \cup {NoToken}]
    /\ cache \in [Account -> CacheEntry]
    /\ last \in Account \cup {0}
    /\ dispatches \subseteq DispatchEvent
    /\ issued \in Nat
    /\ probe \in [Prober -> ProbeState]
    /\ suspect \subseteq Account
    /\ crossed \subseteq Prober

Final(l) == {d \in dispatches : d.lease = l /\ d.event # "claimed"}

\* The dispatch history and the account rows tell the same story, whoever
\* changed them: every lease was claimed once, by one client on one account,
\* and ended at most once; the lease a row names was claimed for that account
\* by that client and has not ended.  Hence no two accounts share a lease.
LedgerMatchesLeases ==
    /\ \A d \in dispatches : d.lease \in 1..issued
    /\ \A l \in 1..issued : \E d \in dispatches : d.lease = l /\ d.event = "claimed"
    /\ \A d, e \in dispatches : d.lease = e.lease =>
          /\ d.account = e.account /\ d.client = e.client
          /\ {d, e} \subseteq Final(d.lease) => d = e
    /\ \A a \in Account : acct[a].lease # 0 =>
          /\ DispatchOf(acct[a], a, "claimed") \in dispatches
          /\ Final(acct[a].lease) = {}

\* An account whose lease ran out stays out of the pool until somebody vouches
\* for it (a supported quota result, a new login, an operator): it carries no
\* lease and is recovering, or in drain when the refresh token was refused.
Quarantine ==
    \A a \in suspect : acct[a].lease = 0 /\ acct[a].status \in {"recovering", "drain"}

\* No probe begins on an account that is leased: one that is under way while
\* its account is leased looked the lease up before that lease was granted.
\* A lease that lapsed in between never comes back to life.
ProbesPredateLeases ==
    \A p \in Prober :
        /\ probe[p].pc \in {"send", "asked", "refreshed", "record"}
        /\ Active(acct[probe[p].account])
        => p \in crossed

\* A recovery check vouches for the account as its last holder left it: the
\* probe that returns an account to ready after its lease ran out did not begin
\* before that lease.  It holds only because a probe is shorter than a lease.
VerifiedAfterExpiry ==
    [][\A p \in Prober :
          LET a == probe[p].account
          IN  /\ probe[p].pc = "record" /\ probe'[p].pc # "record"
              /\ a \in suspect /\ acct[a].status = "recovering"
              /\ acct'[a].status = "ready"
              => p \notin crossed]_vars

\* Whatever the cursor says, and whoever moved it, a claim leases the best
\* account of its workspace: one that could be leased, and such that no other
\* one scores higher by more than the epsilon.  The latter fails where the
\* scores cannot be sorted.
ServesBest ==
    [][\A a \in Account :
          LET candidates == Candidates(acct[a].workspace)
          IN  issued' # issued /\ acct'[a].lease = issued' =>
                /\ a \in candidates
                /\ Sortable(Quota, candidates) =>
                     \A b \in candidates :
                        Score(Quota[b]) - Score(Quota[a]) <= NearResetWindow]_vars

\* The accounts of a workspace that score the same take turns: the one the
\* cursor is at is not leased while another could have been.
TakesTurns ==
    [][\A a \in Account :
          LET candidates == Candidates(acct[a].workspace)
          IN  /\ issued' # issued /\ acct'[a].lease = issued' /\ a = last
              /\ Sortable(Quota, candidates)
              => \A b \in candidates :
                    sameLoadBalanceScore(Score(Quota[b]), Score(Quota[a])) => b = a]_vars

\* A claim is answered: it waits for no other client, and every probe it
\* waits for ends.
ClaimAnswered ==
    \A c \in Client : probe[c].job = "claim" ~> probe[c].job = "none"

\* The promise to the holders, read off account rows, a history and a count of
\* leases: a lease that no row names any more ended as the history says, or an
\* operator took its account away.
EndedAs(log, l) ==
    CASE \E d \in log : d.lease = l /\ d.event = "released" -> "released"
      [] \E d \in log : d.lease = l /\ d.event = "expired" -> "expired"
      [] OTHER -> "revoked"
LeasedAs(rows, l) == {a \in Account : rows[a].lease = l}

PhaseOf(rows, log, n) ==
    [l \in 1..MaxLeases |->
        IF l > n THEN "free"
        ELSE IF LeasedAs(rows, l) # {} THEN "held" ELSE EndedAs(log, l)]
AccountOf(log, n) ==
    [l \in 1..MaxLeases |->
        IF l > n THEN 0 ELSE (CHOOSE d \in log : d.lease = l).account]
LeftOf(rows) ==
    [l \in 1..MaxLeases |->
        IF LeasedAs(rows, l) = {} THEN 0
        ELSE rows[CHOOSE a \in Account : rows[a].lease = l].left]
LendableOf(rows) == {a \in Account : rows[a].present /\ rows[a].owner = "cloud"}

Pool == INSTANCE LeasePool WITH
    LeaseId <- 1..MaxLeases,
    phase <- PhaseOf(acct, dispatches, issued),
    on <- AccountOf(dispatches, issued),
    left <- LeftOf(acct),
    lendable <- LendableOf(acct)

\* The manager keeps the pool's promise: no account is lent twice, a lease is
\* never cut short except by its holder or an operator, and how it ended is on
\* record.
KeepsThePromise == Pool!PoolSpec

-----------------------------------------------------------------------------
(* Claims of the repository's documents that the code does not live up to  *)

\* The recovery of an account is decided: it returns to ready or is drained.
RecoveryDecided ==
    \A a \in Account : acct[a].status = "recovering" ~> acct[a].status # "recovering"
=============================================================================
