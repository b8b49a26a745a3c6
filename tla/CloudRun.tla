------------------------------ MODULE CloudRun ------------------------------
(***************************************************************************)
(* `cube run`, the client (src/cmd/cube/main.go), against the server's     *)
(* account pool (LeaseManager): claim a lease, run codex in a home that    *)
(* holds the leased auth.json, send heartbeats and changed auth from a     *)
(* second goroutine, swap accounts when the quota runs low, upload,        *)
(* release and scrub.  Calls go through a network that delays, loses and   *)
(* outlives them, and each is one or two of LeaseManager's actions.        *)
(***************************************************************************)
EXTENDS LeaseManager

CONSTANTS
    HeartbeatInterval,   \* --heartbeat, in ticks rounded up
    MaxVersion,          \* bound of the model: versions of an account's auth
    MaxLate              \* bound of the model: calls that outlive their caller

ASSUME RunAssumption == /\ HeartbeatInterval \in Nat \ {0}
                        /\ MaxVersion \in Nat \ {0} /\ MaxLate \in Nat
\* An auth.json belongs to an account; each refresh makes its next version.
ASSUME VersionAssumption == Token = [of : Account, version : 1..MaxVersion]

VARIABLES
    run,      \* the state of each client's `cube run`
    calls,    \* the calls the server has not finished
    home,     \* auth.json in the run's CODEX_HOME
    limits,   \* the last rate limits codex logged there, and for which account
    minted,   \* the newest version of each account's auth: the one that works
    silent    \* history: ticks since the server last renewed a run's lease

runVars == <<run, calls, home, limits, minted, silent>>
allVars == <<vars, runVars>>

\* A lease as its client knows it; manager.LeaseSnapshot.
NoGrant == [lease |-> 0, account |-> 0, generation |-> 0, token |-> NoToken]
Grant == [lease : Nat, account : Account \cup {0}, generation : Nat,
          token : Token \cup {NoToken}]

Limits == [of : Account \cup {0}, result : Result]
NoLimits == [of |-> 0, result |-> NotChecked]

\* A heartbeat is a "report" until its quota windows are stored, then a "beat".
Kind == {"none", "claim", "report", "beat", "upload", "release"}
Call == [kind : Kind, client : Client, grant : Grant, limits : Limits]
NoCall(c) ==
    [kind |-> "none", client |-> c, grant |-> NoGrant, limits |-> NoLimits]

\* pc is where the main goroutine is, beat where the heartbeat goroutine is.
PC == {"idle", "claim", "setup", "run", "final", "finished", "swapclaim",
       "swaprelease", "cleanup", "release", "done", "killed"}
BeatPC == {"off", "wait", "beat", "check", "push", "decide"}
Run == [pc : PC, beat : BeatPC, codex : BOOLEAN, held : Grant, next : Grant,
        known : Token \cup {NoToken}, hint : BOOLEAN, swap : BOOLEAN,
        resumed : BOOLEAN, canceled : BOOLEAN, authErr : BOOLEAN, call : Call]

\* A process that is not there, before or after its run.
At(c, pc) == [pc |-> pc, beat |-> "off", codex |-> FALSE, held |-> NoGrant,
              next |-> NoGrant, known |-> NoToken, hint |-> FALSE, swap |-> FALSE,
              resumed |-> FALSE, canceled |-> FALSE, authErr |-> FALSE,
              call |-> NoCall(c)]
Over == {"done", "killed"}

RunInit ==
    /\ auth = [a \in Account |-> [of |-> a, version |-> 1]]
    /\ Init
    /\ run = [c \in Client |-> At(c, "idle")]
    /\ calls = {}
    /\ home = [c \in Client |-> NoToken]
    /\ limits = [c \in Client |-> NoLimits]
    /\ minted = [a \in Account |-> 1]
    /\ silent = [c \in Client |-> 0]

\* Defect: the term is one heartbeat interval.
leaseTTL_OneInterval == HeartbeatInterval

\* leaseTTLSeconds: four heartbeats, at least the default and at most 30 minutes.
leaseTTL ==
    CASE 4 * HeartbeatInterval < DefaultTTL -> DefaultTTL
      [] 4 * HeartbeatInterval > MaxTTL -> MaxTTL
      [] OTHER -> 4 * HeartbeatInterval

swapRemainingThresholdClient == 10

\* swapDecision on the local record; a hard limit is one with nothing left.
LowLimits(c) ==
    /\ limits[c].of # 0
    /\ limits[c].result.fiveHour.remaining < swapRemainingThresholdClient

-----------------------------------------------------------------------------
(* Calls                                                                   *)

Waiting(c) == run[c].call.kind # "none"

\* The client makes a call and goes on as `after`.  Once Ctrl-C has canceled
\* the run's context, calls fail unsent, except the teardown's own.
Ask(c, kind, after) ==
    LET call == [kind |-> kind, client |-> c,
                 limits |-> IF kind = "report" THEN limits[c] ELSE NoLimits,
                 grant |-> [after.held EXCEPT !.token =
                               IF kind = "upload" THEN home[c] ELSE NoToken]]
    IN  /\ run' = [run EXCEPT ![c] = [after EXCEPT !.call = call]]
        /\ calls' = IF after.canceled /\ after.pc # "release"
                    THEN calls ELSE calls \cup {call}

Awaited(call) == run[call.client].call = call

\* The server is through with a call; its client, if it still waits, goes on
\* as `after`.
Answer(call, after) ==
    /\ calls' = calls \ {call}
    /\ run' = IF Awaited(call)
              THEN [run EXCEPT ![call.client] =
                       [after EXCEPT !.call = NoCall(call.client)]]
              ELSE run

\* Defect: a failed last upload leaves the run where it is.
AfterError_Stuck(r) ==
    CASE r.pc = "claim" -> At(r.call.client, "done")
      [] r.pc = "run" /\ r.beat = "beat" -> [r EXCEPT !.beat = "check", !.hint = FALSE]
      [] r.pc = "run" /\ r.beat = "push" -> [r EXCEPT !.beat = "decide"]
      [] r.pc = "final" -> [r EXCEPT !.authErr = TRUE]
      [] r.pc = "swapclaim" -> [r EXCEPT !.pc = "cleanup"]
      [] r.pc = "swaprelease" -> [r EXCEPT !.pc = "setup", !.held = r.next]
      [] r.pc = "release" -> At(r.call.client, "done")

\* How a run goes on when the call it waits for fails.
AfterError(r) ==
    CASE r.pc = "claim" -> At(r.call.client, "done")
      [] r.pc = "run" /\ r.beat = "beat" -> [r EXCEPT !.beat = "check", !.hint = FALSE]
      [] r.pc = "run" /\ r.beat = "push" -> [r EXCEPT !.beat = "decide"]
      [] r.pc = "final" -> [r EXCEPT !.pc = "finished", !.authErr = TRUE]
      [] r.pc = "swapclaim" -> [r EXCEPT !.pc = "cleanup"]
      [] r.pc = "swaprelease" -> [r EXCEPT !.pc = "setup", !.held = r.next]
      [] r.pc = "release" -> At(r.call.client, "done")

\* The end of a process: scrubAuth has removed its auth.json.  What a killed
\* one leaves behind is read by nobody, until pruneOldRuns finds it.
Gone == {c \in Client : run'[c].pc \in Over}
Scrub ==
    /\ home' = [c \in Client |-> IF c \in Gone THEN NoToken ELSE home[c]]
    /\ limits' = [c \in Client |-> IF c \in Gone THEN NoLimits ELSE limits[c]]
Silence(heard) ==
    silent' = [c \in Client |-> IF c \in Gone \cup heard THEN 0 ELSE silent[c]]

\* A claim is being handled: the server finishes it whoever still listens.
InHand(call) == call.kind = "claim" /\ probe[call.client].job = "claim"

Late == {call \in calls : ~ Awaited(call)}

\* A call fails: it was lost, or it is still on its way to the server.
Fail(c) ==
    LET call == run[c].call
    IN  /\ Waiting(c)
        /\ run' = [run EXCEPT ![c] = [AfterError(@) EXCEPT !.call = NoCall(c)]]
        /\ \/ calls' = calls \ {call} /\ ~ InHand(call)
           \/ calls' = calls /\ Cardinality(Late) < MaxLate
        /\ Scrub /\ Silence({})
        /\ UNCHANGED <<vars, minted>>

-----------------------------------------------------------------------------
(* The main goroutine: runCloudRun                                         *)

\* What most of the client's steps leave alone.
Quiet == UNCHANGED <<vars, limits, minted, silent>>
Ends == Scrub /\ Silence({}) /\ UNCHANGED <<vars, minted>>

Start(c) ==
    /\ run[c].pc = "idle"
    /\ Ask(c, "claim", [run[c] EXCEPT !.pc = "claim"])
    /\ UNCHANGED home
    /\ Quiet

\* Defect: a resumed run keeps the auth.json that is already in its home.
Setup_KeepsAuth(c) ==
    /\ run[c].pc = "setup"
    /\ home' = [home EXCEPT ![c] = IF run[c].resumed THEN @ ELSE run[c].held.token]
    /\ run' = [run EXCEPT ![c] =
           [@ EXCEPT !.pc = "run", !.beat = "wait", !.codex = TRUE,
                     !.known = run[c].held.token, !.hint = FALSE, !.swap = FALSE,
                     !.authErr = FALSE, !.held.token = NoToken,
                     !.next = NoGrant]]
    /\ UNCHANGED calls
    /\ Quiet

\* stableRunHome and writeSnapshotToStableHome: install the leased auth and
\* start codex with its heartbeat goroutine ...
Setup(c) ==
    /\ run[c].pc = "setup"
    /\ home' = [home EXCEPT ![c] = run[c].held.token]
    /\ run' = [run EXCEPT ![c] =
           [@ EXCEPT !.pc = "run", !.beat = "wait", !.codex = TRUE,
                     !.known = run[c].held.token, !.hint = FALSE, !.swap = FALSE,
                     !.authErr = FALSE, !.held.token = NoToken,
                     !.next = NoGrant]]
    /\ UNCHANGED calls
    /\ Quiet

\* ... or fail: before the first codex the run just returns.
SetupFails(c) ==
    /\ run[c].pc = "setup"
    /\ run' = [run EXCEPT ![c] = IF @.resumed THEN [@ EXCEPT !.pc = "cleanup"]
                                 ELSE At(c, "done")]
    /\ UNCHANGED calls
    /\ Ends

\* Defect: a goroutine that ended by itself is waited for.
Join_WaitsForTick(c) ==
    /\ run[c].pc = "run" /\ ~ run[c].codex /\ run[c].beat = "wait"
    /\ Ask(c, "upload", [run[c] EXCEPT !.pc = "final", !.beat = "off"])
    /\ UNCHANGED home
    /\ Quiet

\* codex has exited; the heartbeat goroutine is stopped and waited for, and
\* auth.json is uploaded once more, changed or not.
Join(c) ==
    /\ run[c].pc = "run" /\ ~ run[c].codex /\ run[c].beat \in {"wait", "off"}
    /\ Ask(c, "upload", [run[c] EXCEPT !.pc = "final", !.beat = "off"])
    /\ UNCHANGED home
    /\ Quiet

\* After the upload: claim the next account when a swap was requested and the
\* session to resume is found, clean up otherwise.
Finish(c) ==
    /\ run[c].pc = "finished"
    /\ \/ /\ run[c].swap
          /\ Ask(c, "claim", [run[c] EXCEPT !.pc = "swapclaim"])
       \/ /\ run' = [run EXCEPT ![c].pc = "cleanup"]
          /\ UNCHANGED calls
    /\ UNCHANGED home
    /\ Quiet

\* cleanupRun: the lease is released unless the last upload failed; a canceled
\* run releases it anyway.
Cleanup(c) ==
    /\ run[c].pc = "cleanup"
    /\ \/ /\ ~ run[c].authErr \/ run[c].canceled
          /\ Ask(c, "release", [run[c] EXCEPT !.pc = "release"])
       \/ /\ run[c].authErr /\ ~ run[c].canceled
          /\ run' = [run EXCEPT ![c] = At(c, "done")]
          /\ UNCHANGED calls
    /\ Ends

-----------------------------------------------------------------------------
(* The heartbeat goroutine: runCommandWithLease                            *)

\* The ticker fires.  A goroutine that is told to stop may find a tick first.
Beat(c) ==
    /\ run[c].pc = "run" /\ run[c].beat = "wait"
    /\ Ask(c, "report", [run[c] EXCEPT !.beat = "beat"])
    /\ UNCHANGED home
    /\ Quiet

\* The digest of auth.json: upload a changed one.
Check(c) ==
    /\ run[c].pc = "run" /\ run[c].beat = "check"
    /\ \/ /\ home[c] # run[c].known
          /\ Ask(c, "upload", [run[c] EXCEPT !.beat = "push"])
       \/ /\ home[c] = run[c].known
          /\ run' = [run EXCEPT ![c].beat = "decide"]
          /\ UNCHANGED calls
    /\ UNCHANGED home
    /\ Quiet

\* swapDecision: codex is told to stop and the goroutine returns, or it waits
\* for the next tick.
Decide(c) ==
    LET swap == run[c].hint \/ LowLimits(c)
    IN  /\ run[c].pc = "run" /\ run[c].beat = "decide"
        /\ run' = [run EXCEPT ![c].beat = IF swap THEN "off" ELSE "wait",
                              ![c].swap = swap, ![c].hint = FALSE]
        /\ UNCHANGED <<calls, home>>
        /\ Quiet

-----------------------------------------------------------------------------
(* The world around it: codex, the user, the machine                       *)

\* codex refreshes its auth; only the newest refresh token works.
CodexRotates(c) ==
    LET a == home[c].of
    IN  /\ run[c].codex /\ home[c] # NoToken
        /\ home[c].version = minted[a] /\ minted[a] < MaxVersion
        /\ home' = [home EXCEPT ![c].version = @ + 1]
        /\ minted' = [minted EXCEPT ![a] = @ + 1]
        /\ UNCHANGED <<vars, run, calls, limits, silent>>

\* codex logs the rate limits of the account it works with.
CodexLogs(c, result) ==
    /\ run[c].codex /\ home[c] # NoToken
    /\ limits' = [limits EXCEPT ![c] = [of |-> home[c].of, result |-> result]]
    /\ UNCHANGED <<vars, run, calls, home, minted, silent>>

\* codex is done, or obeys a signal.
CodexExits(c) ==
    /\ run[c].codex
    /\ run' = [run EXCEPT ![c].codex = FALSE]
    /\ UNCHANGED <<calls, home>>
    /\ Quiet

\* SIGINT or SIGTERM: the context is canceled.  A signal to the whole process
\* group reaches codex too (CodexExits), one to the client alone does not.
Cancel(c) ==
    /\ run[c].pc \notin {"idle"} \cup Over /\ ~ run[c].canceled
    /\ run' = [run EXCEPT ![c].canceled = TRUE]
    /\ UNCHANGED <<calls, home>>
    /\ Quiet

\* SIGKILL: nothing is released.  A codex that goes on reaches nobody here.
Kill(c) ==
    /\ run[c].pc \notin {"idle"} \cup Over
    /\ run' = [run EXCEPT ![c] = At(c, "killed")]
    /\ UNCHANGED calls
    /\ Ends

-----------------------------------------------------------------------------
(* The server's side: web/server.go hands each call to the manager         *)

Holder(call) == Holds(call.client, call.grant.lease, call.grant.account)

\* The lease was renewed: its client, if it waits for this call, hears of it.
Heard(call, renewed) ==
    Silence(IF renewed /\ Awaited(call) THEN {call.client} ELSE {})

\* handleSyncLeases: ClaimLease, up to the probes of the expired accounts ...
ServeClaimStart(call) ==
    /\ call.kind = "claim"
    /\ ClaimStart(call.client)
    /\ UNCHANGED runVars

\* What the client does with a granted lease: the first one, or the next.
Granted(r, grant) ==
    IF r.pc = "claim" THEN [r EXCEPT !.pc = "setup", !.held = grant]
    ELSE [r EXCEPT !.pc = "swaprelease", !.next = grant, !.resumed = TRUE]

\* ... and from there on.  The client that is swapping then asks for the
\* release of its old lease.
ServeClaim(call) ==
    LET c == call.client
        grant == [lease |-> issued', account |-> last', token |-> auth[last'],
                  generation |-> acct[last'].generation]
    IN  /\ call.kind = "claim"
        /\ Claim(c, DefaultWorkspace, leaseTTL)
        /\ Answer(call, IF issued' = issued THEN AfterError(run[c])
                        ELSE Granted(run[c], grant))
        /\ Heard(call, issued' # issued)
        /\ Scrub
        /\ UNCHANGED minted

\* The swap releases the old lease once it has the next.
ReleaseOld(c) ==
    /\ run[c].pc = "swaprelease" /\ ~ Waiting(c)
    /\ Ask(c, "release", run[c])
    /\ UNCHANGED home
    /\ Quiet

\* heartbeatLease, first: the reported windows are stored if the caller holds
\* the lease; a failure is ignored.
ServeReport(call) ==
    LET stored == /\ call.limits.of # 0
                  /\ Active(acct[call.grant.account])
                  /\ acct[call.grant.account].lease = call.grant.lease
                  /\ acct[call.grant.account].client = call.client
        beat == [call EXCEPT !.kind = "beat"]
    IN  /\ call.kind = "report"
        /\ IF stored THEN RecordLeasedQuota(call.client, call.grant.lease,
                              call.grant.account, call.limits.result)
           ELSE UNCHANGED vars
        /\ calls' = (calls \ {call}) \cup {beat}
        /\ run' = IF Awaited(call) THEN [run EXCEPT ![call.client].call = beat]
                  ELSE run
        /\ UNCHANGED <<home, limits, minted, silent>>

\* heartbeatLease, then: renew the lease and answer with its generation, which
\* the client adopts, and with the swap hint.
ServeBeat(call) ==
    LET c == call.client  a == call.grant.account  r == run[c]
    IN  /\ call.kind = "beat"
        /\ IF Holder(call)
           THEN /\ Touch(c, call.grant.lease, a, leaseTTL)
                /\ Answer(call, [r EXCEPT !.beat = "check",
                                          !.hint = ShouldSwap(cache[a].result),
                                          !.held.generation = acct[a].generation])
           ELSE /\ RefusedLeaseCall
                /\ Answer(call, AfterError(r))
        /\ Heard(call, Holder(call))
        /\ UNCHANGED <<home, limits, minted>>

\* The client's auth is stored: it counts the generation along.
Uploaded(r, call) ==
    LET after == [r EXCEPT !.held.generation = call.grant.generation + 1]
    IN  IF r.pc = "final" THEN [after EXCEPT !.pc = "finished"]
        ELSE [after EXCEPT !.beat = "decide", !.known = call.grant.token]

\* The PUT of an auth.json: UpdateLeasedProfileSnapshot.  The upload echoes the
\* status of the account at the claim, which was ready.  A conflict saves nothing.
ServeUpload(call) ==
    LET c == call.client  grant == call.grant  r == run[c]
        current == grant.generation = acct[grant.account].generation
    IN  /\ call.kind = "upload"
        /\ \/ /\ Upload(c, grant.lease, grant.account, grant.generation,
                        grant.token, "ready")
              /\ Answer(call, Uploaded(r, call))
           \/ /\ Holder(call) /\ ~ current
              /\ UNCHANGED vars
              /\ Answer(call, AfterError(r))
           \/ /\ ~ Holder(call)
              /\ RefusedLeaseCall
              /\ Answer(call, AfterError(r))
        /\ Heard(call, Holder(call) /\ current)
        /\ UNCHANGED <<home, limits, minted>>

\* ReleaseLease.  The client goes on alike when it is refused.
ServeRelease(call) ==
    /\ call.kind = "release"
    /\ IF Holder(call)
       THEN Release(call.client, call.grant.lease, call.grant.account)
       ELSE RefusedLeaseCall
    /\ Answer(call, AfterError(run[call.client]))
    /\ Scrub /\ Silence({})
    /\ UNCHANGED minted

Serve(call) ==
    \/ ServeClaim(call)
    \/ ServeReport(call)
    \/ ServeBeat(call)
    \/ ServeUpload(call)
    \/ ServeRelease(call)

\* FetchQuota's steps; a refresh makes the next version, from the newest only.
Probe(p) ==
    \/ /\ \/ \E a \in Account : FetchLoad(p, a)
          \/ FetchRecheck(p) \/ FetchSend(p) \/ FetchAnswer(p)
          \/ FetchRefused(p) \/ FetchRecord(p)
       /\ UNCHANGED runVars
    \/ LET a == probe[p].account
       IN  /\ probe[p].pc = "asked" /\ probe[p].before.version = minted[a]
           /\ minted[a] < MaxVersion
           /\ FetchRefresh(p, [of |-> a, version |-> minted[a] + 1])
           /\ minted' = [minted EXCEPT ![a] = @ + 1]
           /\ UNCHANGED <<run, calls, home, limits, silent>>

\* An operator gives an account away, and the lease on it is gone.
GiveAway(a) ==
    /\ "client" \in AdminOwner
    /\ SetOwner(a, "client")
    /\ UNCHANGED runVars

\* One tick.  Reports carry absolute reset times, wherever they are.
Older(r) == [r EXCEPT !.limits.result = Aged(@)]
PassTick ==
    /\ Tick
    /\ silent' = [c \in Client |->
                     IF run[c].pc \in {"idle"} \cup Over THEN 0
                     ELSE IF silent[c] > HeartbeatInterval THEN silent[c]
                     ELSE silent[c] + 1]
    /\ limits' = [c \in Client |-> [limits[c] EXCEPT !.result = Aged(@)]]
    /\ calls' = {Older(call) : call \in calls}
    /\ run' = [c \in Client |-> [run[c] EXCEPT !.call = Older(@)]]
    /\ UNCHANGED <<home, minted>>

\* The server dies: what it was handling is gone.  It may have written an
\* upload's auth.json and not the row.
ServerCrash ==
    /\ \/ Crash
       \/ \E call \in calls :
             /\ call.kind = "upload" /\ Holder(call)
             /\ call.grant.generation = acct[call.grant.account].generation
             /\ CrashBeforeSave(call.grant.account, call.grant.token)
    /\ calls' = {}
    /\ UNCHANGED <<run, home, limits, minted, silent>>

-----------------------------------------------------------------------------

MainStep(c) ==
    \/ Setup(c) \/ SetupFails(c) \/ Join(c) \/ Finish(c) \/ ReleaseOld(c)
    \/ Cleanup(c)

BeatStep(c) == Check(c) \/ Decide(c)

\* The only probes here are those of the claims; LeaseManager's own runs have
\* the quota worker and the readers of a quota as well.
RunNext ==
    \/ \E c \in Client :
          \/ Start(c) \/ MainStep(c) \/ Beat(c) \/ BeatStep(c) \/ Fail(c)
          \/ CodexRotates(c) \/ CodexExits(c) \/ Cancel(c) \/ Kill(c)
          \/ \E result \in Reports : CodexLogs(c, result)
    \/ \E call \in calls : ServeClaimStart(call) \/ Serve(call)
    \/ \E p \in Prober : Probe(p)
    \/ \E a \in Account : GiveAway(a)
    \/ PassTick
    \/ ServerCrash

RunSpec == RunInit /\ [][RunNext]_allVars

\* The client and the server go on by themselves, and no call is waited for
\* without end.  A tick and the order to stop may be ready at once; the
\* goroutine's select then chooses at random, so not always the tick.
FairRunSpec ==
    /\ RunSpec
    /\ \A c \in Client : SF_allVars(Join(c))
    /\ \A p \in Prober : WF_allVars(Probe(p))
    /\ \A c \in Client : /\ WF_allVars(MainStep(c)) /\ WF_allVars(BeatStep(c))
                         /\ WF_allVars(Fail(c) \/ \E call \in calls :
                                           Awaited(call) /\ Serve(call))

-----------------------------------------------------------------------------
(* Properties                                                              *)

\* Types, and which goroutine waits for a call: the two never do at a time.
RunTypeOK ==
    /\ run \in [Client -> Run]
    /\ \A call \in calls : call \in Call /\ call.kind # "none"
    /\ home \in [Client -> Token \cup {NoToken}]
    /\ limits \in [Client -> Limits]
    /\ minted \in [Account -> 1..MaxVersion]
    /\ silent \in [Client -> 0..(HeartbeatInterval + 1)]
    /\ \A c \in Client :
          LET r == run[c]
          IN  Waiting(c) <=>
                 \/ r.pc \in {"claim", "final", "swapclaim", "release"}
                 \/ r.pc = "run" /\ r.beat \in {"beat", "push"}
                 \/ r.pc = "swaprelease" /\ r.call.kind = "release"

\* A run whose heartbeats get through keeps its lease until the next is due,
\* whatever else happens: uploads, crashes of the server, other calls arriving
\* late.  Only an operator may take the account away.
StaysLeased ==
    \A c \in Client :
        LET held == run[c].held
        IN  /\ run[c].pc = "run" /\ silent[c] <= HeartbeatInterval
            /\ acct[held.account].owner = "cloud"
            => Active(acct[held.account]) /\ acct[held.account].lease = held.lease

\* Accounts are never mixed up by a swap: the auth.json of every account, and
\* what codex works with, is its own, however late the uploads are.
AuthBelongs ==
    /\ \A a \in Account : auth[a].of = a
    /\ \A c \in Client : run[c].codex => home[c].of = run[c].held.account

\* A swap moves on to another account, unless the run had been silent for so
\* long that the server may have recovered the old one meanwhile: the old lease
\* is still there when the next is granted.
SwapMovesOn ==
    [][\A c \in Client :
          /\ run[c].pc = "swapclaim" /\ run'[c].pc = "swaprelease"
          /\ silent[c] <= HeartbeatInterval
          => run'[c].next.account # run[c].held.account]_allVars

\* Once codex has exited, the run ends or codex is started again: nothing the
\* goroutines, the server or the network do keeps it waiting.
RunEnds ==
    \A c \in Client :
        run[c].pc = "run" /\ ~ run[c].codex
        ~> run[c].codex \/ run[c].pc \in Over
=============================================================================
