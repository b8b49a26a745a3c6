# A verification project for cube20

cube20 lends Codex accounts out of a pool. A *server* keeps the accounts (each
with its managed `auth.json`), probes their quota, and leases them to *clients*;
a client runs `codex` with the leased account, renews the lease with heartbeats,
uploads the `auth.json` whenever codex changed it, and gives the lease back. A
lease that is not renewed expires, and its account has to be vouched for before
it is lent again.

This directory holds TLA+ modules of that system, the TLC configurations that
check them on small instances and theorems that TLAPS proves for all instances.

| file | what it is |
| --- | --- |
| `LoadBalance.tla` | pure rules: eligibility, score, round robin pick, swap hint |
| `LeaseManager.tla` | the account pool of one server in file mode: leases, probes, reports, operators, crashes |
| `LeasePool.tla` | what the pool promises to a borrower, without rows or locks |
| `CloudRun.tla` | the client `cube run` against that pool, over calls that are lost or late |
| `PgStore.tla` | several servers on one Postgres database: accounts, leases, auth, quota results |
| `Access.tla` | users, sessions, devices, clients, workspaces and memberships, with files and with Postgres |
| `MC*.tla`, `*.cfg` | values and bounds for TLC |
| `LeasePoolProofs.tla` | the pool lends exclusively, for every value of the constants |
| `AccessProofs.tla` | revocations last (`RevokedForGood`), for every value of the constants |
| `AccessHistoryProofs.tla` | the other properties of `Access`, on top of it |
| `LeaseManagerProofs.tla` | type correctness, for every value of the constants |
| `LeaseSafetyProofs.tla` | the three safety invariants of `LeaseManager`, that recoveries are verified, and what the pick promises |
| `LeasePromiseProofs.tla` | `LeaseManager` implements `LeasePool` |
| `PgStoreProofs.tla` | types and every safety property of `PgStore` |
| `CloudRunProofs.tla` | types and every safety property of `CloudRun`; its pool is `LeaseManager`'s |
| `PROJECT.json` | runs, mutants, source map, findings, hazards, theorems |

## 1. Inventory

Paths are under `src/`; `manager` is `internal/manager`.

| component | state it keeps | operations | what makes it correct |
| --- | --- | --- | --- |
| lease manager (`manager/lease.go`) | lease fields of the account rows, dispatch events | claim, renew, upload, release, sweep, pick | an account is lent to one client at a time; a lease ends only by its holder, the clock or an operator, and its end is on record; an expired account is quarantined; a claim is answered |
| quota probes (`manager/quota.go`, `internal/quota/codex.go`) | quota cache, status, generation, `auth.json` | `FetchQuota`, `RecordLeasedQuota`, `RecordQuotaReport` | no probe begins on a leased account; a result says something about the account as it is; a token in use is not rotated; the holder's report is kept |
| quota worker (`internal/web/quota_worker.go`) | none | one round per tick | whatever needs a fresh quota gets one |
| load balancer (`manager/loadbalance.go`, `roundrobin.go`) | the cursor | eligibility, score, next | only usable accounts; turns within the top group |
| accounts (`manager/accounts.go`) | account rows, managed homes | import, push, status, owner, workspace, delete | a leased account is not replaced; generations count the changes of `auth.json` |
| dispatch history (`manager/usage.go`) | the last 200 events | append, list | tells who had which account |
| state file and lock (`manager/manager.go`, `fsutil.go`) | `state.json`, flock | load, save by rename | no lost update; a crash leaves a readable state |
| Postgres store (`manager/store_postgres.go`) | tables, advisory locks | load, whole-state save, row deletes | the same as file mode, with several servers |
| sync API and web server (`internal/web/server.go`) | none | handlers | calls the manager with the caller's identity; composes several calls |
| cloud run client (`cmd/cube/main.go`) | the lease it holds, its copy of `auth.json` and generation | claim, heartbeat, upload, swap, cleanup | never works on without a lease for long; every lease is released; the newest auth wins |
| users, sessions, devices (`users.go`, `sessions.go`, `clients.go`, `devices.go`) | accounts of people and their machines | login, revoke, disable | a revoked credential stays revoked |
| workspaces (`workspace.go`) | pools and memberships | create, join, resolve | a member claims only from its pools |
| usage accounting (`usage_events.go`, `internal/usage`) | token counts | aggregate | a repeated report is counted once |
| identity and codex files, settings, local commands, dashboard | files | read, write, display | sequential input and output; not worth a model |

How they interact. Every request of a client or of the dashboard ends in a
method of the manager. Methods that change the state hold `stateMu` (one
process) and, for leases and quota results, a flock on `run-round-robin.lock`
(several processes), from their `Load` to their `Save`. The exceptions make the
system hard:

- `FetchQuota` holds no lock while it talks to the provider. It decides on a
  lease check made before, and its result is stored whatever happened since. It
  is started by the worker, by dashboard requests, by pulls, and by a claim for
  the accounts the claim found expired.
- `ClaimLease` waits for those probes, then starts over under the locks.
- The sweep of expired leases runs inside other operations (claim, renew,
  upload, release), and only the claim does anything about what it found.
- `auth.json` is written before the row that counts the change is saved.
- The client holds a copy of the row (generation, status, `auth.json`) that ages
  while the server's changes; its calls and their answers may be lost.
- In Postgres mode the lock does not cover everything, and a save writes the
  whole state back under a guard per row.

`PROJECT.json` lists these hazards one by one, at the line where each bites.

## 2. The plan

1. **Done.** `LoadBalance`, `LeaseManager`, `LeasePool`; their runs and theorems.
2. **Done.** `CloudRun`: the client against the actions of `LeaseManager`, and its
   runs and theorems.
3. **Done.** `PgStore`: load and save of the Postgres store by two servers, with
   the `updated_at` guard, the deletions outside of `Save` and the `auth.json` written
   by every load. Left: the dispatch and usage tables.
4. **Done.** `Access`: users, devices, sessions, memberships; stale saves; the
   migrations of older states. Left: what a handler checks before it calls the manager.
5. **Done.** `LoadBalance`: who is served (`ServesBest`, `TakesTurns`), checked and
   proved. Left: a run with scores within the epsilon of each other, and within how many
   turns an account is served.
6. **FileLocks**: two processes on one directory, `stateMu` and the flock as
   resources, the two second timeout.
7. Proofs. **Done:** every safety property of `LeaseManager`, that it implements `LeasePool`,
   that `LeasePool` lends exclusively; every safety property of `CloudRun`, of `Access`
   and of `PgStore`; that `CloudRun` uses the pool as `LeaseManager` has it.

Runs are kept to one per question.

## 3. The models

### LoadBalance

Times are relative and counted in ticks: a window carries the ticks left until
its reset, 0 when the reset has passed, `Unknown` when the time is missing or
does not parse. `QuotaUsable` is the quota part of `evaluateLoadBalanceFields`,
`Score` the score of the binding window in integers (scaled by the length of the
near-reset window), `sameLoadBalanceScore` its comparison up to an epsilon. The
comparison is not transitive, so the Go sort may have no defined outcome: `Sortable` says
when it has one, and then `Leaders` holds the candidate that comes first, and the
others of its score follow by their ids. `Picks` is the set of accounts `ClaimLease`
may select; where the candidates cannot be sorted, that is any of them.

### LeaseManager

| TLA+ | code |
| --- | --- |
| `acct` | `State.Accounts`: presence, status, owner mode, generation, workspace, lease |
| `auth` | `auth.json` in each managed home |
| `cache` | `State.QuotaCache`: the last result and who sent it |
| `last` | `run-round-robin.json` |
| `dispatches`, `issued` | `State.Dispatches`; lease ids, numbered as they are issued |
| `probe` | the goroutines that run `FetchQuota`: which account, how far, since when |
| `suspect`, `crossed` | history variables; no action reads them |

A method that holds its locks from load to save is one action, sweep included:
`Touch`, `Upload`, `Release` and `Claim` act on the swept rows (`Swept`). A call
that is refused after the sweep saves the sweep (`RefusedLeaseCall`). A claim is two
actions with probes between them: `ClaimStart` is `RecoverExpiredLeases` up to its
save, `Claim` the rest. Calls of a holder are free to come from any client, with any
lease id ever issued and any generation, so that late and repeated requests are
covered; `NoClient` is a request of the admin token, which passes the client check.

`FetchQuota` is a process: `FetchLoad` (owner and lease check), `FetchRecheck`
(`leaseActiveFresh`), `FetchSend` (digest and read `auth.json`), then the provider
answers (`FetchAnswer`), or accepts the refresh token and a new `auth.json` is
renamed into place (`FetchRefresh`), or refuses it (`FetchRefused`); `FetchRecord`
stores the result. Anything may happen between these steps.

A lease carries the ticks it has left, and `Tick` takes one from every lease and
every window. A probe's requests have timeouts, so `Tick` waits for a probe that has
lasted `ProbeMax`. `Crash` drops the probes and claims in progress; `CrashBeforeSave`
is a crash after `auth.json` was written, or an account's home removed, and before
`state.json` was replaced.

Abstractions, beside those of the data:

- Locks are always obtained. The flock's two second timeout is left to FileLocks.
- All of the state is files; the Postgres store is the subject of `PgStore`.
- `auth.json` always holds an OAuth access token; one without is answered
  like an unsupported one. `Failure("error")` stands for every failed request.
- `syncLiveAuthToManaged` (only for the operator's own live profile), labels, plans,
  error texts and `ownerClientID` are left out. Accounts are matched by id when
  pushed. Input and output errors are left out, except for crashes.
- The new-account push is saved three times by the code and once here.
- The dispatch history is not cut at 200 events.
- The order in which a prober takes the accounts of its list is left open.

### LeasePool

The abstract specification. A lease is free, held on one account, then released,
expired or revoked for good; an account is lent only while an operator leaves it to
the pool and nobody holds it; only the clock and renewals change the time left; a
lease is not renewed or released when its time is over. `LeaseManager` reads these
off the rows and the history (`Pool` in `LeaseManager.tla`, by `PhaseOf`, `AccountOf`,
`LeftOf` and `LendableOf`): a lease that no row names any more is what its final dispatch
event says, or revoked when there is none.

### CloudRun

Extends `LeaseManager`: every call of a client is a record in `calls`, and the server
serves a call by one or two of `LeaseManager`'s actions, with the arguments the
handlers of `internal/web/server.go` derive from the call.

| TLA+ | code |
| --- | --- |
| `run[c].pc` | where `runCloudRun`'s main goroutine is |
| `run[c].beat` | where the heartbeat goroutine of `runCommandWithLease` is, `"off"` when it has returned |
| `run[c].held`, `.next` | the lease at work (`lease`, with `snapshot.Generation`), and the one a swap has just claimed |
| `.known`, `.hint`, `.swap`, `.authErr`, `.canceled` | `lastDigest`, `shouldSwap`, `swapRequested`, `authErr`, `ctx.Err() != nil` |
| `.call` | the call the client waits for |
| `home`, `limits` | `auth.json` and the newest rate limits in the run's `CODEX_HOME` |
| `minted` | the newest version of an account's auth at the provider: codex or a probe can refresh from that one only |
| `silent` | history: the ticks since the client heard that its lease was renewed |

`Start`, `Setup`, `SetupFails`, `Join`, `Finish`, `ReleaseOld` and `Cleanup` are the
main goroutine, `Beat`, `Check` and `Decide` the other one. `Ask` sends a call, `Answer`
lets the client go on with the response, `AfterError` is how each place in the code
goes on after an error. `Fail` is a call that fails for the client: it is lost, or it is
still under way and will be served later (at most `MaxLate` such calls at a time).
Once Ctrl-C has canceled the context (`Cancel`), every call but those of `cleanupRun`
fails unsent. A heartbeat is two actions on the server, as it takes the locks twice:
`ServeReport`, then `ServeBeat`.

An `auth.json` is a pair of the account it belongs to and a version, so that a mix-up
of accounts and an older version over a newer one can be told.

Abstractions:

- One `cube run` per client. What a killed run leaves on disk, and a codex that
  outlives it, reach nobody; `pruneOldRuns` is left out.
- The usage upload of `cleanupRun` is left out: its outcome only shows in messages.
- The swap hint is read in the same step as the renewal, not after it.
- `auth.json` is digested and read for an upload in one step.
- codex is started before the first tick of the heartbeat's ticker.
- Two identical calls of one client that are both late are one element of `calls`.
- Operators only give accounts away (`GiveAway`).

### PgStore

With Postgres, `stateMu` is one per server, the flock becomes an advisory lock of the
database, and a save is an upsert of every row the server has loaded. What was one
step in `LeaseManager` is now three, with other servers in between.

| TLA+ | code |
| --- | --- |
| `db` | `cube_accounts`; `stamp` is `updated_at`, `auth` is `auth_json` |
| `disk` | the `auth.json` files of each server |
| `tx` | the operation that holds a server's `stateMu`: what it has loaded, what it will save |
| `lock` | the advisory lock of `acquirePostgresLock` |
| `job` | a quota probe or report of a server, which takes neither lock |
| `clock` | the order in which servers have read their clocks |
| `held` | the lease, generation and auth that each client goes by |
| `accepted`, `ended`, `revoked`, `raced`, `tx[s].overtaken` | history variables |

`Start` takes the locks and loads (`Begin`), which rewrites the files that differ from
the database (`Materialized`). `Decide` reads the clock and changes the loaded rows as
the operation does (`DecideClaim`, `DecideHeld`, a sweep with each). `Save` writes every
row whose `updated_at` is not later in the database (`Wins`), with the `auth.json` the
server then has on its disk, and gives the locks back; the answer reaches the client or
is lost. `Read` is any request that only loads. `Commit` is
`recordPostgresQuotaResult`: its time is read first (`Record`) and not compared; a report of
an owner (`OwnerReport`) comes with any answer and makes the account the client's.
`Delete` takes a row away under `stateMu` only. `Crash` ends what a server was doing.

The operations under the advisory lock are those on leases and the push of a profile
(`UpsertProfileSnapshot`), which saves the profile, loads once more (`LoadAgain`) and saves
the settings, all under both locks. The others hold `stateMu` only: `setStatus` stands for the
setters of labels and workspaces too; `setOwner` is `SetOwner`, which takes a running lease off
the row when the account goes to a client; `add` is `AddAccount`, `import`
`UpsertJSONProfile` (and `ImportLiveProfile`, which only imports what is not there),
`list` `ListAccounts`, which adds a row for every home that none is for, such as the one that a
server still has of an account that another has deleted; `other` is any save
that touches no account. A deleted account may be added again under its name, and its generation
starts again: `accepted` forgets what was uploaded before.

A client learns of the end of its lease only when it calls. `revoked` collects the leases that an
operator took (`SetOwner`, `DeleteAccount`) while the client may still work with them: nothing
keeps the account from the next claim then, by intention, and the invariants do not
speak of these leases. An operator's change or a quota result takes no advisory lock, so it can come
between the load and the save of an operation that changes the same row, and one of the two is
lost, or what one has ended comes back: `raced` collects the accounts this has happened to, and
the invariants speak of the others. `double_lease` and `lost_upload` show what such
races do where a document promises otherwise.

Abstractions: a `Load` is one step, although the queries of `loadPostgresState` share no
transaction; servers' clocks agree; the advisory lock is always obtained (the code gives up
after five seconds, before it has changed anything); no two saves carry the same time; a
term does not run out between a claim's decision and its save; an account that a push or an
import makes is saved once (the code saves it before its file and again with its generation; the
row between the two is what `add` leaves); a profile is matched by the account's id only, not by
its identity; a holder's report is always `supported`, as `heartbeatLease` makes it; quota, round
robin, dispatches and `ownerClientID` are left out (`LeaseManager` has them); only `cloud` accounts
exist at first.

### Access

One module for all the rows that say who may use the server, because one `Load` migrates
them together and one `Save` stores them together.

| TLA+ | code |
| --- | --- |
| `store` | `file` or `postgres` (`DatabaseURL`) |
| `db` | `State`: users, clients and devices, sessions, workspaces, memberships, the two markers |
| `tx` | per server: the changed copy, what is to be deleted in Postgres, and what the answer will say |
| `login` | between `AuthenticateUser` and `CreateSession`, which are separate calls of a handler |
| `ended`, `removed`, `revoked`, `made`, `late`, `granted`, `exposed` | history variables |

`Loaded` is the stored state after `normalizeState`, that is `migrateDefaultWorkspace`
(`Enrolled`) and `migrateUsersAndDevices` (`UsersMigrated`). Each operation takes it, changes
it and begins a `tx`; `DeleteRows` executes the statement that goes before the save in
Postgres, and `Save` replaces the file or merges the copy into the tables: `Merged`
has one rule per table, as the upserts of `savePostgresState` have. With files only the
primary server acts, and nothing comes between load and save but the login.

Initial states are new ones and those of a version before workspaces and users, with
or without clients and accounts.

`exposed` collects what a deletion cannot reach: sessions and memberships that another
server has loaded when they are deleted, and memberships that leave the copy of the server
without a row of theirs being deleted in Postgres, which deletes one row per request.

Abstractions: a user's role in a workspace, times, token texts, passwords, labels and the
login limiter are left out; a session slot is the id, a token a number; an account is only
known to be there; expired sessions are as good as live ones; two servers never register
one username at the same time with different passwords (which the second save would
replace); a `Load` is one step.

## 4. The runs

One tick stands for 45 seconds: the minimal term of 30 seconds is 1 tick, the default
of 90 seconds is 2, a probe (at most five requests of 8 seconds) takes at most 1; the
maximal term of 30 minutes is cut to 3 ticks, enough to differ from the default.

| run | instance | checks | distinct states |
| --- | --- | --- | --- |
| `lease_core` | 2 accounts, 2 interchangeable clients, 2 leases, terms below and at the minimum, deletion, giving away, push, crashes | `TypeOK`, `LedgerMatchesLeases`, `Quarantine`, `KeepsThePromise`, `ServesBest`, `TakesTurns` | 374 676 |
| `quota_probes` | 1 account, 1 client, the worker, 2 auth contents, 4 generations, client reports, operator | `ProbesPredateLeases`, `Quarantine`, `VerifiedAfterExpiry` | 776 978 |
| `claim_liveness` | 1 account, 2 clients, a dashboard request | `ClaimAnswered` | 48 676 |
| `cloud_run` | 1 run on 2 accounts, 2 leases, 1 version of an auth, low limits, one late call, Ctrl-C, SIGKILL, crashes of the server, the probes of its claims | `RunTypeOK`, `StaysLeased`, `AuthBelongs` | 325 491 |
| `run_ends` | 1 run on 1 account, 2 leases, 2 versions, 3 generations, low limits, an operator who gives the account away; fairness | `RunEnds`, `SwapMovesOn` | 32 649 |
| `pg_leases` | 2 servers, 1 account, 2 leases, 3 clock readings, 2 generations; every operation but the push, deletion, quota results and reports, crashes | `PgTypeOK`, `HoldersRecorded`, `NothingRevived` | 4 668 348 |
| `pg_auth` | 2 servers, 1 account, 2 leases, 5 clock readings, claims, uploads and pushes on both, deletion, auth that Codex and a probe renew | `UploadsInTurn` | 5 418 492 |
| `access` | both stores, 2 servers, 1 user, 1 old and 1 new client, 1 device, 2 workspaces, 4 operations of any kind | `AccessTypeOK`, `RevokedForGood`, `NeverRetrofitted`, `EnrolledOnce`, `GoneForGood` | 338 372 |
| `recovery_stuck` | 1 account, 1 client, the worker | `RecoveryDecided`, violated | |
| `double_lease`, `lost_upload` | 2 servers, 1 account | `OneHolder`, `LastUploadStored`, violated | |
| `member_back` | 2 servers with Postgres, 1 user | `RemovedStaysRemoved`, violated | |

What the bounds have to allow, and do: two leases that overlap, follow each other on
one account, or are held by two clients (`MaxLeases` 2; two accounts for exclusion);
a lease that lapses, is swept by somebody else's call and by a claim; a probe that
starts before a lease, lasts through it and ends after it (`ProbeMax` 1 against terms
of 1 to 3); a generation counted by a push, an upload and a probe in a row
(`MaxGeneration`). A third client or account adds no interaction that is not
between two of them. `lease_core` has one auth content and no reports, because its
properties do not need them: the two accounts have one score until the probe of a
recovery renews the window of one, and then two that differ by the bonus for a near reset.
`quota_probes` has one account, because probes of
different accounts share nothing but the worker. `MaxLeases` and `MaxGeneration`
appear in guards (`ClaimStart`, `GenerationLeft`) and nowhere else. Deadlock is not
checked: with every lease of the bound handed out the model may stop.

For the runs of `CloudRun`: two accounts and two leases are one swap, with the old
lease still held when the next is claimed; two generations in `cloud_run` are one upload,
by the heartbeat goroutine or after codex; three and two versions in `run_ends` are
both. One late call is enough for a request of the first lease to be served during the
second. `run_ends` has one account, where a swap has nowhere to go: it is refused, or
granted the same account again when its lease ran out and was recovered. Both probe what a
claim finds expired. `HeartbeatInterval` 1 is 45 seconds, half of the 90 seconds an upload
grants; four intervals are asked for and cut to 3 ticks.

For `PgStore`: every race of the store is between two operations on one row, so two
servers and one account suffice for it; a second account shares nothing but the
advisory lock. `MaxStamp` bounds the clock, and with it how many operations change a row.
`pg_leases` stops exploring where every account is in `raced` (`CONSTRAINT SomeUnraced`):
its properties say nothing of such states, and no step leads back. Three readings of the clock in `pg_leases` are
a claim and two more changes of the row, one of them of an older copy; five in `pg_auth`
are a claim, an upload and its retry with a push and a probe between or after them, or
the same once more on the account that a push has made again. For `Access`:
`MaxOperations` 4 lets a row be made, loaded by one server, deleted or revoked by the other
and something else be saved after that; the migrations take place within any of these.

What the passing runs show:

- `LedgerMatchesLeases`: whoever changes the rows, history and rows agree; hence no
  two accounts carry one lease and none ends twice.
- `KeepsThePromise`: the manager implements `LeasePool`.
- `ServesBest`: wherever the cursor is, and whoever moved it (the pick endpoint, a reset, a
  deletion), a claim leases an account that could be leased and that no other account of
  the workspace outscores by more than the epsilon, unless the scores cannot be sorted.
- `TakesTurns`: accounts that score the same alternate: the one the cursor is at is leased
  only when there is no other. The cursor is one for all workspaces: when claims of two
  of them alternate, each starts over with its leader, and `TakesTurns` says nothing of that.
- `Quarantine`: an expired account is `recovering` or `drain`, without a lease, until
  a supported result, a push, or an operator vouches for it.
- `ProbesPredateLeases`: the two lease checks leave only probes that were under way
  before the lease. This is what the code achieves of "no probe of a leased account".
- `VerifiedAfterExpiry`: the probe that turns `recovering` into `ready` began after
  the lease that ran out. It rests on timing alone: a lease lasts longer than a
  probe. The command line client asks for 90 seconds or more; the API grants 30,
  which a slow probe of 40 seconds can outlive.
- `ClaimAnswered`: a claim ends under weak fairness.
- `StaysLeased`: a run that has heard of a renewal within one heartbeat interval holds
  its lease on the server, with crashes of the server, late calls and uploads beside.
- `AuthBelongs`: a swap never leaves the auth of one account in the home of a run that
  holds another, and no upload, late or not, stores it under another account.
- `SwapMovesOn`: claiming the next lease before the old one is released keeps a swap off
  the account it leaves, as long as the run's heartbeats got through.
- `RunEnds`: neither the join of the two goroutines nor a failing call keeps a run whose
  codex has exited.

- `HoldersRecorded`: with the advisory lock, no operation of one server takes a running lease
  off its row in another's back; only an operator does (`revoked`), and the races named above.
- `NothingRevived`: where nothing raced, a save from old rows brings no ended lease and no old
  generation back. Where something did, it may: a setter that loaded before a release and
  decides after it writes the lease back, and so does a save that inserts a deleted row again.
- `UploadsInTurn`: of two uploads of one generation at most one is accepted, wherever and
  however late they arrive, until the account is deleted; raced accounts excepted. That an accepted upload
  raised the generation in the table is not claimed: after a quota result its save is
  skipped, which is such a race.
- `RevokedForGood`: no save from old rows undoes the revocation of a client or a device.
- `EnrolledOnce`, `NeverRetrofitted`: the migrations run in every `Load` of every server
  until a marker is stored, and touch nobody who came after them.
- `GoneForGood`: a session that was ended and a membership that was taken away stay away,
  unless another server had the row loaded just then, or the statement did not reach it: it
  had never been stored, or it was the second of two rows that match the person.

What the violated runs show (the quotes are in `PROJECT.json`):

- `RecoveryDecided`: an account swept by anything but a claim stays `recovering`.
- `OneHolder`: a quota result committed inside a claim makes its save skip the row; the
  claim is answered and the account is handed out again.
- `LastUploadStored`: a GET inside an upload puts the old `auth.json` back on the disk, and
  the save stores that one under the new generation.
- `RemovedStaysRemoved`: a request of a client that was loaded before a member was removed
  inserts the membership again.

Known departures the models contain and no run judges, because the documents are silent
or the case is beyond a bound:

- A probe older than a lease overwrites the quota its holder has reported (`FetchRecord`
  after `RecordLeasedQuota`); one that refreshes `auth.json` and counts the generation
  only afterwards lets the holder's upload of the used up auth pass (`FetchRefresh`,
  `Upload`, `FetchRecord`).
- The worker goes by the reset of the binding window, the balancer by the 5h window: an account
  can wait for a refresh that is not queued (`ShouldRefresh`, `QuotaUsable`).
- After a swap the session logs of the account before are still read, and its limits
  reported for the next one.
- After Ctrl-C the last upload fails unsent, and the refreshed `auth.json` is deleted.
- With `--heartbeat` above 90 seconds an upload shortens the lease below the interval,
  although `README.md:153` has the server grant a longer term than the interval.
- A client made on a new server is enrolled into the default workspace when the first
  account arrives, as no marker is set before (`manager.go:498` has this window covered).
- Disabling a user has no guard in the upsert: the save of an old row undoes it in Postgres.
- A person who is a member twice, by name and by client, is removed from the copy twice and from
  Postgres once (`workspace.go:183`): the other row stays. TLC's instance has no such person;
  the proof of `GoneForGood` did not go through until `exposed` counted the row.

### Fairness

`FairSpec` asks for weak fairness of: each prober's next step (a goroutine goes on by
itself, and every request has a timeout), the second half of a claim (the request is
being served), the worker's rounds (its ticker) and the clock. Nobody is obliged to
call: renewals, releases, dashboard requests and operators are not fair. `BusySpec`
adds that clients keep claiming, so that `RecoveryDecided` fails for no lack of claims.

`FairRunSpec` asks for weak fairness of the two goroutines' own steps, of the probes a
claim waits for, and of the end of a call, served or failed (the client's requests have
no timeout of their own, so this is an assumption about the network and the server).
`Join` is strongly fair: when the ticker and the stop channel are ready at once Go's
`select` picks one at random, so a goroutine told to stop may take some more ticks
but not for ever. Codex, the user and the clock owe nothing.

## 5. The proofs

`LeaseManagerProofs.tla` proves, by induction over the steps, `WellFormed`: every
variable keeps to its type and a prober that is not between two accounts names one
(`BusyWithAccount`, needed because results are stored at `probe[p].account`).
`TypeCorrect` is a part of it.

`LeasePoolProofs.tla` proves of the abstract specification that no two leases hold one account
(`LendsExclusively`): an account is lent only when no lease holds it after the sweep, and no
other step makes a lease held or moves it. The invariant is inductive with the types.

`LeasePromiseProofs.tla` proves `PromiseKept`: `LeaseManager` implements `LeasePool`. `FreeLease`,
`HeldLease` and `OverLease` say what the mapping shows of one lease on any rows and any history that satisfy
`Ledger`: the phase, account and time of a lease that was never issued, is on a row, or has
left it. Every action is then a tick, a renewal, an end, a loan or a change of what may be
lent of the pool, or a stutter. The invariant `Promising` adds to `LedgerMatchesLeases` that
a row which is not there carries no lease (`AbsentIsBare`), and that every claim under way has
a lease of the bound reserved (`Reserved`: the model's `MaxLeases` bounds the leases that the
pool has, and the guard of `ClaimStart` counts claims; this is the only place where a proof
needs the set of clients to be finite). With `LendsExclusively` no account of
the manager is lent twice.

`PgStoreProofs.tla` proves all that the runs `pg_leases` and `pg_auth` check, for any number of
servers and accounts, from one invariant, `PgInv`. Its core is `UpToDate`: a row that an operation has
loaded is alike to the row of the database, or differs by what this operation decided; if
another server has written it meanwhile (`overtaken`), the save of it will lose, or is one
of the races. Lease operations and pushes do not interleave (the advisory lock), so only setters, imports,
deletions and quota results can overtake them. An operation that inserts
a row anew does so under a later time than that of any copy from before its deletion (`AddsLater`), so
that such a copy loses or is a race. `ClaimsFresh` says that the lease of a claim is on no other row,
`UploadsCount` that an upload which is about to be saved counts up the generation it came with,
`AcceptedBelow` that a row is past those of the uploads it has accepted, `EndedGone` that an ended
lease is on no row, these three of accounts that are not raced; `Stamped` that no two times
collide. `OneHolderUnlessRaced` follows: what `OneHolder` promises and `double_lease` refutes holds of
accounts that nothing raced and of leases that no operator took back.

`CloudRunProofs.tla` proves the safety of `CloudRun` for any number of runs, accounts, late calls
and faults. The invariant `Proper` needs no time: which call is waited for where (`Expects`); that
a run's leases were handed out and that what is in its home is an `auth.json` of the account it works on,
at every place of the main goroutine (`Leases`); that a call under way is about a lease that was
handed out and an upload brings an `auth.json` of its account (`CallProper`: so it does no
harm when it arrives late). `RunTypeCorrect` and `AuthStaysApart` follow. `ReleasesOver`
says that a release under way, however late, is never one of the lease its run works with:
without it a late release could take the lease away. `Lasts` is what holds a running lease: it is on
its row, its client's, and the time left and the run's silence add up to more than a
heartbeat interval. Every step but a tick either leaves the lease on its row or renews it
(`Goes`), and a tick takes from the time left what it adds to the silence (`LastsTick`).
`RunStaysLeased` and `SwapsMoveOn` follow. Both have the hypothesis
`HeartbeatInterval < DefaultTTL`: an upload renews for the default term whatever the
interval, so with intervals of 90 seconds and more they do not hold (a known departure, above).
Steps of the server are shown once to leave alone the leases that others hold (`Stands`) and are
then used for every call (`AnswerMoves`).

`PoolIsLeaseManager` shows that every behaviour of `CloudRun` is one of `LeaseManager` for the
rows, the history and the probes: each call that is served, each probe with the tokens of the
provider, each crash is one of its actions. So what is proved of the manager holds under
these clients (`PoolKeepsItsPromise`). Its hypothesis `AnyCaller` is about the sets that bound
the inputs of `LeaseManager`: the term that a run asks for is in `TTL`, an upload may say
`ready`, the limits a client has read may be reported, aged or not, and there are finitely many probers.
The configurations of `CloudRun` satisfy it. The invariant beside `Proper` is
`LimitsReported`: what a home or a call under way reports is one of the reports, however old.

`AccessProofs.tla` proves `RevocationsLast`: `RevokedForGood` for any number of servers and
rows. `RevokedForGood` is not inductive, for a file is replaced by whatever copy a server
holds. The invariant `Revocations` adds `CopiesRevoked`: with files only the primary has a
copy under way and that copy has every revocation answered so far (stateMu), with either store
a copy has the revocations it will answer, and what deletes memberships revokes nobody (it
answers without a save). `normalizeStateKeeps` shows that the migrations take back no
revocation, `MergedKeeps` that the upserts of Postgres keep those of the table and those of
the copy. `BeginKeeps` serves all operations: each needs only that its copy undoes none.

`AccessHistoryProofs.tla` proves the rest of `Access` from the invariant `Remembering`. As with
`RevokedForGood`, everything has to be said of the stored state and of every copy that a server
may still save: rows refer to rows of the same document (`Bonded`), with files a copy has
all that is stored (`FileCopies`), what an operation ends or takes is not in its copy (`Sound`).
A client of this version has no made up user anywhere (`Unfitted`); a copy is as far with the
migration of the pool as the stored state, or the pool is the old one and every copy has it migrated
(`PoolMigrated`), and then no copy enrols a client that came after (`Enrolments`). A session token is in one
slot with one row wherever it is (`Agreed`), an ended one in no copy unless it is
`exposed` (`Unended`, `Covered`), and a membership likewise (`RemovedGone`). Every step of `Access` is one
of four kinds: it begins a copy (`Opens`), enters a login (`Enters`), deletes rows (`Deletes`) or
saves (`Saves`); there is one lemma for each kind and part of the invariant.

`LeaseSafetyProofs.tla` proves on top of `WellFormed`:

- `QuarantineHolds`. `Quarantine` is inductive with `WellFormed`: a claim picks only
  ready accounts and a holder's call only touches rows that carry a lease, so neither
  disturbs a suspect; results disturb one only by vouching for it.
- `ProbesPredateLeasesHolds`. `OnlyClaimsActivate` shows that no step but a claim makes
  a lease run, `ProbeProgress` that a probe gets past its check only when the account
  is not leased, and `CrossedKept` that the history variable forgets only probes
  that have ended.
- `LedgerHolds`. Written about arbitrary rows and histories (`Ledger`), the invariant is
  kept by `LeasesEnd` (rows lose leases, each with a final event, or none) and
  `LeaseBegins` (the next lease, on a row); every action is an instance of one or of
  both.
- `RecoveriesVerify` proves the action property `VerifiedAfterExpiry`. A lease can only be
  granted under a probe that has passed its checks, and such a probe must not still run when
  that lease expires. The invariant `LeasesOutlast` says so in numbers: a probe is at most `ProbeMax`
  old, and the time left of the lease on its account and the age of the probe add up to
  more than `ProbeMax`. A claim establishes it (the whole term is left), a renewal restores
  it, a tick takes from one what it adds to the other. The hypothesis `TermsOutlastProbes`, that every
  term granted is longer than a probe may take, is what the code rests on without saying so: the
  command line client's terms of 90 seconds and more meet it, the 30 seconds that
  the API accepts do not.

- `CandidatesServed`, `ClaimsServeBest` and `ClaimsTakeTurns` are about the pick, for any
  number of accounts and any scores. Scores are bounded numbers (`ScoreBound`), so a
  nonempty set of them has a highest one (`HighestScore`, from the library's theorem that
  the numbers are well founded); of the candidates that score the same as it, the one
  with the least id comes before all others (`FirstCandidate`). `PicksServe` shows that the
  pick never comes up empty, even among scores that cannot be sorted; `PicksBest` and
  `PicksInTurn` what is picked, and `IssuedOnPick` that a lease is only ever issued on a pick.

They assume what the `ASSUME`s of the modules say: accounts are positive numbers, the
process sets are disjoint and the clients finitely many, results and operator inputs are well
formed, terms are ordered; no bound is assumed to be of any size. TLC evaluates the
assumptions on every run. Three hypotheses stand in the theorems that need them:
`HeartbeatInterval < DefaultTTL` (`RunStaysLeased`, `SwapsMoveOn`), `TermsOutlastProbes`
(`RecoveriesVerify`) and `AnyCaller` (`PoolIsLeaseManager`, `PoolKeepsItsPromise`); the
configurations of the runs that check these properties satisfy them.

Only model-checked: `ClaimAnswered` and `RunEnds`, for liveness under fairness is out of the
prover's reach.

## 6. Not modelled

- Usage accounting, identity and codex files, settings, the local commands and the dashboard:
  sequential reading, parsing and display, without state that several actors share.
- The dispatch and usage tables of Postgres, which only grow; the cap of 200 events in files.
- Two processes on one state directory, and what follows when the flock or the advisory lock
  is not obtained in time.
- Who may call a handler: roles, tokens and the checks before a manager's method is called.
- The adoption of account directories, imports of the live profile and labels.
- Several `cube run` on one machine, the pruning of old run homes, the cloud push, pull and
  relogin commands.
