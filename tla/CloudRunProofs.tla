--------------------------- MODULE CloudRunProofs ---------------------------
(***************************************************************************)
(* Proofs about CloudRun, for any clients, accounts, calls under way and   *)
(* faults: accounts are not mixed up, a run that hears from the server has *)
(* its lease, and a swap moves on.                                         *)
(***************************************************************************)
EXTENDS CloudRun, LeasePromiseProofs

-----------------------------------------------------------------------------
(* The inductive invariant                                                 *)

\* An auth.json of account a.
Belongs(token, a) == token \in Token /\ token.of = a

\* A lease that was handed out, up to the n-th.
Issued(grant, n) == grant.account \in Account /\ grant.lease \in 1..n

\* Where a run has a lease, and where it goes by one: from `cleanup` on it is
\* about to give it back.
LeasedPC == {"setup", "run", "final", "finished", "swapclaim", "swaprelease",
             "cleanup", "release"}
WorkingPC == LeasedPC \ {"cleanup", "release"}

\* Which call is waited for where.
Expects(r) ==
    /\ r.call.kind = "claim" <=> r.pc \in {"claim", "swapclaim"}
    /\ r.call.kind \in {"report", "beat"} <=> r.pc = "run" /\ r.beat = "beat"
    /\ r.call.kind = "upload" <=>
           r.pc = "final" \/ (r.pc = "run" /\ r.beat = "push")
    /\ r.call.kind = "release" => r.pc \in {"release", "swaprelease"}
    /\ r.pc = "release" => r.call.kind = "release"

\* What a run with auth.json h in its home knows of its leases.
Leases(r, h, n) ==
    /\ r.pc \in LeasedPC => Issued(r.held, n)
    /\ r.pc = "setup" => Belongs(r.held.token, r.held.account)
    /\ r.pc = "swaprelease" => /\ Issued(r.next, n)
                               /\ Belongs(r.next.token, r.next.account)
                               /\ r.next.lease # r.held.lease
    /\ r.codex => r.pc = "run"
    /\ r.pc = "run" => Belongs(h, r.held.account)
    /\ r.call.kind \in {"report", "beat", "upload"} =>
           /\ r.call.grant.lease = r.held.lease
           /\ r.call.grant.account = r.held.account

RunProper(c, r, h, n) ==
    r \in Run /\ r.call.client = c /\ Expects(r) /\ Leases(r, h, n)

\* A call that is not a claim is about a lease that was handed out, and an
\* upload brings an auth.json of its account.
CallProper(call, n) ==
    /\ call \in Call /\ call.kind # "none"
    /\ call.kind # "claim" => Issued(call.grant, n)
    /\ call.kind = "upload" => Belongs(call.grant.token, call.grant.account)

\* What goes on at the server: types, the auth.json of every account is its
\* own, and a lease on a row is somebody's.
ServerProper ==
    /\ TypeOK /\ BusyWithAccount
    /\ \A a \in Account : Belongs(auth[a], a)
    /\ \A a \in Account : acct[a].lease # 0 => acct[a].client # NoClient

WorldProper ==
    /\ home \in [Client -> Token \cup {NoToken}]
    /\ limits \in [Client -> Limits]
    /\ minted \in [Account -> 1..MaxVersion]
    /\ silent \in [Client -> 0..(HeartbeatInterval + 1)]

RunsProper ==
    /\ run \in [Client -> Run]
    /\ \A c \in Client : RunProper(c, run[c], home[c], issued)
CallsProper == \A call \in calls : CallProper(call, issued)

\* The lease that a run works with, or has just been granted.
Current(r) == IF r.pc = "swaprelease" THEN r.next ELSE r.held

\* No release that is still under way is one of the lease a run works with.
ReleasesOver ==
    \A call \in calls :
        call.kind = "release" /\ run[call.client].pc \in WorkingPC =>
            call.grant.lease # Current(run[call.client]).lease

\* The part of the invariant that needs no time.
Proper == ServerProper /\ WorldProper /\ RunsProper /\ CallsProper /\ ReleasesOver

\* The lease of a run that hears from the server lasts until the next
\* heartbeat is due.
Lasts(c) ==
    LET now == Current(run[c])
        row == acct[now.account]
    IN  /\ run[c].pc \in WorkingPC /\ silent[c] <= HeartbeatInterval
        /\ row.owner = "cloud"
        => /\ row.lease = now.lease /\ row.client = c
           /\ row.left + silent[c] > HeartbeatInterval

-----------------------------------------------------------------------------
(* The server's steps                                                      *)

\* A step leaves a running lease on its row: an account may be taken away by
\* an operator, and the lease may be renewed.
Stands(a) ==
    acct'[a].owner = "cloud" =>
        /\ acct[a].owner = "cloud"
        /\ Active(acct[a]) =>
              /\ acct'[a].lease = acct[a].lease /\ acct'[a].client = acct[a].client
              /\ acct'[a].left = acct[a].left \/ acct'[a].left >= DefaultTTL

\* What every step of the server keeps.
Served ==
    ServerProper' /\ issued' \in Nat /\ issued <= issued'

\* The terms that a run asks for, and an upload gives, are no shorter than the
\* default.
LEMMA TermsLast ==
    /\ leaseTTL \in Nat /\ DefaultTTL \in Nat
    /\ normalizeLeaseTTL(leaseTTL) \in Nat /\ normalizeLeaseTTL(leaseTTL) >= DefaultTTL
    /\ normalizeLeaseTTL(DefaultTTL) = DefaultTTL
BY TermAssumption, RunAssumption DEF leaseTTL, normalizeLeaseTTL

\* The sweep takes only leases that have run out, and no owner.
LEMMA SweepStands ==
    ASSUME ServerProper
    PROVE  /\ Swept \in [Account -> AccountRow]
           /\ \A a \in Account :
                 /\ Swept[a].owner = acct[a].owner
                 /\ Swept[a].generation = acct[a].generation
                 /\ Active(acct[a]) => Swept[a] = acct[a]
                 /\ Swept[a].lease # 0 => Swept[a] = acct[a]
<1>1. acct \in [Account -> AccountRow] /\ Swept \in [Account -> AccountRow]
  BY SweepType DEF ServerProper, TypeOK
<1>2. ASSUME NEW a \in Account
      PROVE  /\ Swept[a].owner = acct[a].owner
             /\ Swept[a].generation = acct[a].generation
             /\ Active(acct[a]) => Swept[a] = acct[a]
             /\ Swept[a].lease # 0 => Swept[a] = acct[a]
  <2>1. acct[a] \in AccountRow
    BY <1>1
  <2>2. CASE Lapsed(acct[a])
    <3>1. Swept[a] = [clearAccountLease(acct[a]) EXCEPT
                         !.status = IF @ = "ready" THEN "recovering" ELSE @]
      BY <2>2 DEF Swept
    <3>2. /\ Swept[a].owner = acct[a].owner /\ Swept[a].lease = 0
          /\ Swept[a].generation = acct[a].generation
      BY <2>1, <3>1 DEF clearAccountLease, AccountRow
    <3>3. ~ Active(acct[a])
      BY <2>2 DEF Lapsed, Active
    <3> QED BY <3>2, <3>3
  <2>3. CASE ~ Lapsed(acct[a])
    BY <2>3 DEF Swept
  <2> QED BY <2>2, <2>3
<1> QED BY <1>1, <1>2

\* A step that saves the sweep and nothing else.
LEMMA SweepServed ==
    ASSUME ServerProper, acct' = Swept, TypeOK', BusyWithAccount',
           UNCHANGED <<auth, issued>>
    PROVE  Served /\ \A a \in Account : Stands(a)
<1>1. \A a \in Account : Stands(a)
  BY SweepStands DEF Stands
<1>2. \A a \in Account : acct'[a].lease # 0 => acct'[a].client # NoClient
  BY SweepStands DEF ServerProper
<1> QED BY <1>1, <1>2 DEF Served, ServerProper, TypeOK

\* A step that leaves the rows alone.
LEMMA RestServed ==
    ASSUME ServerProper, UNCHANGED <<acct, issued>>, TypeOK', BusyWithAccount',
           \A a \in Account : Belongs(auth'[a], a)
    PROVE  Served /\ \A a \in Account : Stands(a)
BY DEF Served, Stands, ServerProper, TypeOK

\* A claim that begins, or a refused call.
LEMMA ClaimStartServed ==
    ASSUME ServerProper, NEW c \in Client, ClaimStart(c)
    PROVE  Served /\ \A a \in Account : Stands(a)
<1>1. Next
  BY DEF Next, ClientStep
<1>2. TypeOK' /\ BusyWithAccount'
  BY <1>1, NextType, NextBusy DEF ServerProper
<1> QED BY <1>2, SweepServed DEF ClaimStart, SaveSweep

\* A call that the server refuses.
LEMMA RefusedServed ==
    ASSUME ServerProper, RefusedLeaseCall
    PROVE  Served /\ \A a \in Account : Stands(a)
<1>1. TypeOK' /\ BusyWithAccount'
  BY NextType, NextBusy DEF ServerProper, Next
<1> QED BY <1>1, SweepServed DEF RefusedLeaseCall, SaveSweep


\* A claim: it is refused, or the next lease is on an account of the pool that
\* nobody had.
LEMMA ClaimServed ==
    ASSUME ServerProper, NEW c \in Client, Claim(c, DefaultWorkspace, leaseTTL)
    PROVE  /\ Served /\ \A a \in Account : Stands(a)
           /\ issued' # issued =>
                 /\ issued' = issued + 1 /\ last' \in Account
                 /\ acct'[last'].lease = issued' /\ acct'[last'].client = c
                 /\ acct'[last'].left >= DefaultTTL
                 /\ acct[last'].owner = "cloud" /\ ~ Active(acct[last'])
<1>1. TypeOK /\ BusyWithAccount /\ issued \in Nat
  BY DEF ServerProper, TypeOK
<1>2. TypeOK' /\ BusyWithAccount'
  BY <1>1, ClaimType, ClaimBusy, TermsLast, WorkspaceAssumption
<1>3. UNCHANGED auth
  BY DEF Claim
<1> DEFINE ttl == leaseTTL
           available == Candidates(DefaultWorkspace)
<1>4. CASE UNCHANGED issued /\ acct' = Swept
  BY <1>2, <1>3, <1>4, SweepServed
<1>5. ASSUME NEW a \in Picks(Quota, available, last),
             acct' = [Swept EXCEPT ![a].lease = issued + 1, ![a].client = c,
                                   ![a].left = normalizeLeaseTTL(ttl)],
             last' = a, issued' = issued + 1
      PROVE  /\ Served /\ \A b \in Account : Stands(b)
             /\ issued' = issued + 1 /\ last' \in Account
             /\ acct'[last'].lease = issued' /\ acct'[last'].client = c
             /\ acct'[last'].left >= DefaultTTL
             /\ acct[last'].owner = "cloud" /\ ~ Active(acct[last'])
  <2>1. a \in Account /\ Eligible(Swept[a], auth[a], cache[a].result)
    <3>1. a \in available
      BY DEF Picks
    <3> QED BY <3>1 DEF Candidates
  <2>2. Swept[a] \in AccountRow /\ Swept \in [Account -> AccountRow]
    BY <2>1, SweepStands
  <2>3. acct[a].owner = "cloud" /\ ~ Active(acct[a])
    BY <2>1, SweepStands DEF Eligible
  <2>4. acct'[a] = [Swept[a] EXCEPT !.lease = issued + 1, !.client = c,
                                    !.left = normalizeLeaseTTL(ttl)]
    BY <1>5, <2>1, <2>2
  <2>5. /\ acct'[a].lease = issued' /\ acct'[a].client = c
        /\ acct'[a].left >= DefaultTTL
    BY <1>5, <2>2, <2>4, TermsLast DEF AccountRow
  <2>6. ASSUME NEW b \in Account, b # a PROVE acct'[b] = Swept[b]
    BY <1>5, <2>2, <2>6
  <2>7. \A b \in Account : Stands(b)
    <3> SUFFICES ASSUME NEW b \in Account PROVE Stands(b)
      OBVIOUS
    <3>1. CASE b = a
      BY <2>3, <3>1 DEF Stands
    <3>2. CASE b # a
      BY <2>6, <3>2, SweepStands DEF Stands
    <3> QED BY <3>1, <3>2
  <2>8. \A b \in Account : acct'[b].lease # 0 => acct'[b].client # NoClient
    BY <2>5, <2>6, SweepStands, ProcessAssumption DEF ServerProper
  <2>9. \A b \in Account : Belongs(auth'[b], b)
    BY <1>3 DEF ServerProper
  <2>10. issued' \in Nat /\ issued <= issued'
    BY <1>1, <1>5
  <2>11. Served
    BY <1>2, <2>8, <2>9, <2>10 DEF Served, ServerProper
  <2> QED BY <1>5, <2>1, <2>3, <2>5, <2>7, <2>11
<1>6. \/ UNCHANGED issued /\ acct' = Swept
      \/ \E a \in Picks(Quota, available, last) :
            /\ acct' = [Swept EXCEPT ![a].lease = issued + 1, ![a].client = c,
                                     ![a].left = normalizeLeaseTTL(ttl)]
            /\ last' = a /\ issued' = issued + 1
  BY Zenon DEF Claim
<1> HIDE DEF available, ttl
<1> QED BY <1>1, <1>4, <1>5, <1>6

\* A holder is the client on the row, and its lease has not run out.
LEMMA HolderIs ==
    ASSUME ServerProper, NEW c \in Client, NEW l \in Nat \ {0}, NEW a \in Account,
           Holds(c, l, a)
    PROVE  /\ Swept[a] = acct[a] /\ acct[a].lease = l /\ acct[a].client = c
           /\ Swept[a] \in AccountRow
<1>1. Swept[a].lease = l /\ MayUse(c, Swept[a])
  BY DEF Holds
<1>2. Swept[a] = acct[a] /\ Swept[a] \in AccountRow
  BY <1>1, SweepStands
<1>3. acct[a].client # NoClient
  BY <1>1, <1>2 DEF ServerProper
<1> QED BY <1>1, <1>2, <1>3, ProcessAssumption DEF MayUse

\* A row of a swept table changes in what follows only on one account.
LEMMA OneRowServed ==
    ASSUME ServerProper, NEW a \in Account, TypeOK', BusyWithAccount',
           UNCHANGED issued, \A b \in Account : Belongs(auth'[b], b),
           \A b \in Account \ {a} : acct'[b] = acct[b] \/ acct'[b] = Swept[b],
           acct'[a].lease # 0 => acct'[a].client # NoClient
    PROVE  Served /\ \A b \in Account \ {a} : Stands(b)
<1>1. \A b \in Account \ {a} : Stands(b)
  BY SweepStands DEF Stands
<1>2. \A b \in Account : acct'[b].lease # 0 => acct'[b].client # NoClient
  BY SweepStands DEF ServerProper
<1> QED BY <1>1, <1>2 DEF Served, ServerProper, TypeOK

\* A heartbeat renews the lease of its holder.
LEMMA TouchServed ==
    ASSUME ServerProper, NEW c \in Client, NEW l \in Nat \ {0}, NEW a \in Account,
           Touch(c, l, a, leaseTTL)
    PROVE  /\ Served /\ \A b \in Account : Stands(b)
           /\ acct'[a].lease = l /\ acct'[a].client = c /\ acct'[a].left >= DefaultTTL
           /\ UNCHANGED issued
<1>1. TypeOK' /\ BusyWithAccount'
  BY TouchType, TermsLast DEF ServerProper, Touch, BusyWithAccount
<1>2. /\ Swept[a] = acct[a] /\ acct[a].lease = l /\ acct[a].client = c
      /\ Swept[a] \in AccountRow
  BY HolderIs DEF Touch
<1>3. acct' = [Swept EXCEPT ![a].left = normalizeLeaseTTL(leaseTTL)]
  BY DEF Touch
<1>4. acct'[a] = [acct[a] EXCEPT !.left = normalizeLeaseTTL(leaseTTL)]
  BY <1>2, <1>3, SweepStands
<1>5. /\ acct'[a].lease = l /\ acct'[a].client = c /\ acct'[a].left >= DefaultTTL
      /\ acct'[a].owner = acct[a].owner
  BY <1>2, <1>4, TermsLast DEF AccountRow
<1>6. \A b \in Account \ {a} : acct'[b] = Swept[b]
  BY <1>3, SweepStands
<1>7. UNCHANGED <<auth, issued>>
  BY DEF Touch
<1>8. Served /\ \A b \in Account \ {a} : Stands(b)
  BY <1>1, <1>5, <1>6, <1>7, OneRowServed, ProcessAssumption DEF ServerProper
<1>9. Stands(a)
  BY <1>2, <1>5 DEF Stands
<1> QED BY <1>5, <1>7, <1>8, <1>9

\* An upload renews it too, and brings the account's own auth.
LEMMA UploadServed ==
    ASSUME ServerProper, NEW c \in Client, NEW l \in Nat \ {0}, NEW a \in Account,
           NEW generation, NEW token, Belongs(token, a),
           Upload(c, l, a, generation, token, "ready")
    PROVE  /\ Served /\ \A b \in Account : Stands(b)
           /\ acct'[a].lease = l /\ acct'[a].client = c /\ acct'[a].left >= DefaultTTL
           /\ UNCHANGED issued
<1>1. TypeOK' /\ BusyWithAccount'
  BY UploadType DEF ServerProper, Upload, BusyWithAccount, Belongs, Status
<1>2. /\ Swept[a] = acct[a] /\ acct[a].lease = l /\ acct[a].client = c
      /\ Swept[a] \in AccountRow
  BY HolderIs DEF Upload
<1>3. acct' = [Swept EXCEPT ![a].status = IF "ready" = "" THEN @ ELSE "ready",
                            ![a].generation = @ + 1,
                            ![a].left = normalizeLeaseTTL(DefaultTTL)]
  BY Zenon DEF Upload
<1>4. acct'[a] = [acct[a] EXCEPT !.status = "ready", !.generation = @ + 1,
                                 !.left = normalizeLeaseTTL(DefaultTTL)]
  BY <1>2, <1>3, SweepStands
<1>5. /\ acct'[a].lease = l /\ acct'[a].client = c /\ acct'[a].left >= DefaultTTL
      /\ acct'[a].owner = acct[a].owner
  BY <1>2, <1>4, TermsLast DEF AccountRow
<1>6. \A b \in Account \ {a} : acct'[b] = Swept[b]
  BY <1>3, SweepStands
<1>7. UNCHANGED issued /\ auth' = [auth EXCEPT ![a] = token]
  BY DEF Upload
<1>8. \A b \in Account : Belongs(auth'[b], b)
  BY <1>7 DEF ServerProper, TypeOK
<1>9. Served /\ \A b \in Account \ {a} : Stands(b)
  BY <1>1, <1>5, <1>6, <1>7, <1>8, OneRowServed, ProcessAssumption
<1>10. Stands(a)
  BY <1>2, <1>5 DEF Stands
<1> QED BY <1>5, <1>7, <1>9, <1>10


\* A release takes the lease off the row of its holder, and off no other.
LEMMA ReleaseServed ==
    ASSUME ServerProper, NEW c \in Client, NEW l \in 1..issued, NEW a \in Account,
           Release(c, l, a)
    PROVE  /\ Served /\ UNCHANGED issued /\ \A b \in Account \ {a} : Stands(b)
           /\ acct[a].lease = l /\ acct[a].client = c
           /\ acct'[a].owner = acct[a].owner
<1>1. Next
  BY DEF Next, LeaseCall, Caller
<1>2. TypeOK' /\ BusyWithAccount'
  BY <1>1, NextType, NextBusy DEF ServerProper
<1>3. /\ Swept[a] = acct[a] /\ acct[a].lease = l /\ acct[a].client = c
      /\ Swept[a] \in AccountRow
  BY HolderIs DEF Release, ServerProper, TypeOK
<1>4. acct' = [Swept EXCEPT ![a] = clearAccountLease(@)]
  BY DEF Release
<1>5. acct'[a] = clearAccountLease(acct[a])
  BY <1>3, <1>4, SweepStands
<1>6. acct'[a].lease = 0 /\ acct'[a].owner = acct[a].owner
  BY <1>3, <1>5 DEF clearAccountLease, AccountRow
<1>7. \A b \in Account \ {a} : acct'[b] = Swept[b]
  BY <1>4, SweepStands
<1>8. UNCHANGED <<auth, issued>>
  BY DEF Release
<1> QED BY <1>2, <1>3, <1>6, <1>7, <1>8, OneRowServed DEF ServerProper

\* A quota result of whatever origin touches neither lease nor owner.
LEMMA ResultServed ==
    ASSUME ServerProper, NEW a \in Account, NEW result, NEW changed \in BOOLEAN,
           NEW source, WriteQuotaResult(a, result, changed, source, FALSE),
           UNCHANGED <<auth, issued>>, TypeOK', BusyWithAccount'
    PROVE  Served /\ \A b \in Account : Stands(b)
<1>1. acct[a] \in AccountRow /\ acct \in [Account -> AccountRow]
  BY DEF ServerProper, TypeOK
<1>2. acct'[a] = Recorded(acct[a], result.status, changed, FALSE)
      /\ \A b \in Account \ {a} : acct'[b] = acct[b]
  BY <1>1 DEF WriteQuotaResult
<1>3. /\ acct'[a].owner = acct[a].owner /\ acct'[a].lease = acct[a].lease
      /\ acct'[a].client = acct[a].client /\ acct'[a].left = acct[a].left
  BY <1>1, <1>2 DEF Recorded, AccountRow
<1>4. acct'[a].lease # 0 => acct'[a].client # NoClient
  BY <1>3 DEF ServerProper
<1>5. Served /\ \A b \in Account \ {a} : Stands(b)
  BY <1>2, <1>4, OneRowServed DEF ServerProper
<1>6. Stands(a)
  BY <1>3 DEF Stands
<1> QED BY <1>5, <1>6

\* The report of a holder.
LEMMA ReportServed ==
    ASSUME ServerProper, NEW c, NEW l, NEW a \in Account, NEW result \in Result,
           RecordLeasedQuota(c, l, a, result)
    PROVE  Served /\ UNCHANGED issued /\ \A b \in Account : Stands(b)
<1>1. /\ WriteQuotaResult(a, result, FALSE, "client", FALSE)
      /\ UNCHANGED <<auth, issued, probe>>
  BY DEF RecordLeasedQuota
<1>2. TypeOK' /\ BusyWithAccount'
  BY <1>1, LeasedReportType DEF ServerProper, BusyWithAccount
<1> QED BY <1>1, <1>2, ResultServed

\* A step of a probe: a refreshed auth is the next version of its account's.
LEMMA ProbeServed ==
    ASSUME ServerProper, minted \in [Account -> 1..MaxVersion],
           NEW p \in Prober, Probe(p)
    PROVE  /\ Served /\ UNCHANGED issued /\ \A b \in Account : Stands(b)
           /\ minted' \in [Account -> 1..MaxVersion]
           /\ UNCHANGED <<run, calls, home, limits, silent>>
<1>1. ASSUME Fetch(p) PROVE TypeOK' /\ BusyWithAccount'
  <2>1. Next
    BY <1>1 DEF Next
  <2> QED BY <2>1, NextType, NextBusy DEF ServerProper
<1>2. CASE FetchRecord(p) /\ UNCHANGED runVars
  <2>1. TypeOK' /\ BusyWithAccount'
    BY <1>1, <1>2 DEF Fetch
  <2>2. probe[p].account \in Account /\ probe[p].changed \in BOOLEAN
    BY <1>2 DEF FetchRecord, ServerProper, BusyWithAccount, TypeOK, ProbeState
  <2>3. /\ WriteQuotaResult(probe[p].account, probe[p].result, probe[p].changed,
                            "cloud", FALSE)
        /\ UNCHANGED <<auth, issued>>
    BY <1>2 DEF FetchRecord
  <2>4. Served /\ \A b \in Account : Stands(b)
    BY <2>1, <2>2, <2>3, ResultServed
  <2> QED BY <1>2, <2>3, <2>4 DEF runVars
<1>3. ASSUME (\E a \in Account : FetchLoad(p, a)) \/ FetchRecheck(p)
             \/ FetchSend(p) \/ FetchAnswer(p) \/ FetchRefused(p),
             UNCHANGED runVars
      PROVE  /\ Served /\ UNCHANGED issued /\ \A b \in Account : Stands(b)
             /\ minted' \in [Account -> 1..MaxVersion]
             /\ UNCHANGED <<run, calls, home, limits, silent>>
  <2>1. TypeOK' /\ BusyWithAccount'
    BY <1>1, <1>3 DEF Fetch
  <2>2. UNCHANGED <<acct, auth, issued>>
    BY <1>3 DEF FetchLoad, FetchRecheck, FetchSend, FetchAnswer, FetchRefused
  <2>3. Served /\ \A b \in Account : Stands(b)
    BY <2>1, <2>2, RestServed DEF ServerProper
  <2> QED BY <1>3, <2>2, <2>3 DEF runVars
<1> DEFINE a == probe[p].account
           token == [of |-> a, version |-> minted[a] + 1]
<1>4. ASSUME /\ probe[p].pc = "asked" /\ minted[a] < MaxVersion
             /\ FetchRefresh(p, token)
             /\ minted' = [minted EXCEPT ![a] = @ + 1]
             /\ UNCHANGED <<run, calls, home, limits, silent>>
      PROVE  /\ Served /\ UNCHANGED issued /\ \A b \in Account : Stands(b)
             /\ minted' \in [Account -> 1..MaxVersion]
             /\ UNCHANGED <<run, calls, home, limits, silent>>
  <2>1. a \in Account
    BY <1>4 DEF ServerProper, BusyWithAccount
  <2>2. minted[a] + 1 \in 1..MaxVersion
    BY <1>4, <2>1, RunAssumption
  <2>3. token \in Token /\ token.of = a
    BY <2>1, <2>2, VersionAssumption
  <2> HIDE DEF token
  <2>4. TypeOK' /\ BusyWithAccount'
    BY <1>1, <1>4, <2>3 DEF Fetch
  <2>5. /\ UNCHANGED <<acct, issued>>
        /\ auth' = auth \/ auth' = [auth EXCEPT ![a] = token]
    BY <1>4 DEF FetchRefresh
  <2>6. \A b \in Account : Belongs(auth'[b], b)
    BY <2>3, <2>5 DEF ServerProper, TypeOK, Belongs
  <2>7. Served /\ \A b \in Account : Stands(b)
    BY <2>4, <2>5, <2>6, RestServed
  <2>8. minted' \in [Account -> 1..MaxVersion]
    BY <1>4, <2>1, <2>2
  <2> QED BY <1>4, <2>5, <2>7, <2>8
<1> HIDE DEF token
<1> QED BY <1>2, <1>3, <1>4 DEF Probe, token

\* An account that is given away is not lent any more.
LEMMA GiveAwayServed ==
    ASSUME ServerProper, NEW a \in Account, GiveAway(a)
    PROVE  Served /\ UNCHANGED <<issued, runVars>> /\ \A b \in Account : Stands(b)
<1>1. SetOwner(a, "client") /\ "client" \in AdminOwner /\ UNCHANGED runVars
  BY DEF GiveAway
<1>2. Next
  BY <1>1 DEF Next, Operator
<1>3. TypeOK' /\ BusyWithAccount'
  BY <1>2, NextType, NextBusy DEF ServerProper
<1>4. acct[a] \in AccountRow /\ acct \in [Account -> AccountRow]
  BY DEF ServerProper, TypeOK
<1>5. acct' = [acct EXCEPT ![a] = [clearAccountLease(acct[a]) EXCEPT !.owner = "client"]]
  BY <1>1 DEF SetOwner
<1>6. acct'[a].owner = "client" /\ acct'[a].lease = 0
  BY <1>4, <1>5 DEF clearAccountLease, AccountRow
<1>7. \A b \in Account \ {a} : acct'[b] = acct[b]
  BY <1>4, <1>5
<1>8. UNCHANGED <<auth, issued>>
  BY <1>1 DEF SetOwner
<1>9. Served /\ \A b \in Account \ {a} : Stands(b)
  BY <1>3, <1>6, <1>7, <1>8, OneRowServed DEF ServerProper
<1>10. Stands(a)
  BY <1>6 DEF Stands
<1> QED BY <1>1, <1>8, <1>9, <1>10

\* A tick takes one from the time of every lease.
LEMMA TickServed ==
    ASSUME ServerProper, Tick
    PROVE  /\ Served /\ UNCHANGED issued
           /\ \A a \in Account :
                 /\ acct'[a].owner = acct[a].owner /\ acct'[a].lease = acct[a].lease
                 /\ acct'[a].client = acct[a].client
                 /\ acct'[a].left = IF acct[a].left > 0 THEN acct[a].left - 1 ELSE 0
<1>1. TypeOK' /\ BusyWithAccount'
  BY NextType, NextBusy DEF ServerProper, Next
<1>2. UNCHANGED <<auth, issued>>
      /\ acct' = [a \in Account |->
                     [acct[a] EXCEPT !.left = IF @ > 0 THEN @ - 1 ELSE 0]]
  BY DEF Tick
<1>3. ASSUME NEW a \in Account
      PROVE  /\ acct'[a].owner = acct[a].owner /\ acct'[a].lease = acct[a].lease
             /\ acct'[a].client = acct[a].client
             /\ acct'[a].left = IF acct[a].left > 0 THEN acct[a].left - 1 ELSE 0
  <2>1. acct[a] \in AccountRow
    BY DEF ServerProper, TypeOK
  <2> QED BY <1>2, <2>1 DEF AccountRow
<1>4. \A a \in Account : acct'[a].lease # 0 => acct'[a].client # NoClient
  BY <1>3 DEF ServerProper
<1>5. Served
  BY <1>1, <1>2, <1>4 DEF Served, ServerProper, TypeOK
<1> QED BY <1>2, <1>3, <1>5

\* The server dies, perhaps with an upload half written.
LEMMA CrashServed ==
    ASSUME ServerProper, \/ Crash
                         \/ \E a \in Account, token \in Token :
                               Belongs(token, a) /\ CrashBeforeSave(a, token)
    PROVE  Served /\ UNCHANGED issued /\ \A a \in Account : Stands(a)
<1>1. TypeOK' /\ BusyWithAccount'
  BY NextType, NextBusy DEF ServerProper, Next
<1>2. UNCHANGED <<acct, issued>>
  BY DEF Crash, CrashBeforeSave
<1>3. \A a \in Account : Belongs(auth'[a], a)
  BY DEF Crash, CrashBeforeSave, ServerProper, TypeOK
<1> QED BY <1>1, <1>2, <1>3, RestServed


-----------------------------------------------------------------------------
(* What a step means for the runs                                          *)

\* The run goes on with the lease it had, or without one.
Follows(r, s) ==
    s.pc \in WorkingPC =>
        /\ r.pc \in WorkingPC
        /\ Current(s).account = Current(r).account
        /\ Current(s).lease = Current(r).lease

\* The lease of run d stays on its row, if it was there; the pool does not get
\* an account back.
Keeps(d) ==
    LET now == Current(run[d])
        row == acct[now.account]
    IN  /\ acct'[now.account].owner = "cloud" => row.owner = "cloud"
        /\ row.lease = now.lease /\ row.client = d => Stands(now.account)

\* The lease that run d has now was granted or renewed, and it hears of it.
Renewed(d) ==
    LET now == Current(run'[d])
        row == acct'[now.account]
    IN  /\ silent'[d] = 0
        /\ row.lease = now.lease /\ row.client = d /\ row.left >= DefaultTTL

\* A run that swaps was granted an account that nobody had.
SwapsTo(r, s) ==
    s.pc = "swaprelease" /\ r.pc # "swaprelease" =>
        /\ s.held.account = r.held.account
        /\ acct[s.next.account].owner = "cloud" /\ ~ Active(acct[s.next.account])

Goes(d) ==
    /\ SwapsTo(run[d], run'[d])
    /\ run'[d].pc \in WorkingPC =>
          \/ Follows(run[d], run'[d]) /\ silent'[d] = silent[d] /\ Keeps(d)
          \/ Renewed(d)

\* What is proper stays so when more leases have been issued.
LEMMA MoreIssued ==
    ASSUME NEW n \in Nat, NEW m \in Nat, n <= m
    PROVE  /\ \A grant : Issued(grant, n) => Issued(grant, m)
           /\ \A c, r, h : RunProper(c, r, h, n) => RunProper(c, r, h, m)
           /\ \A call : CallProper(call, n) => CallProper(call, m)
<1>1. \A grant : Issued(grant, n) => Issued(grant, m)
  BY DEF Issued
<1>2. \A c, r, h : RunProper(c, r, h, n) => RunProper(c, r, h, m)
  BY <1>1 DEF RunProper, Leases
<1>3. \A call : CallProper(call, n) => CallProper(call, m)
  BY <1>1 DEF CallProper
<1> QED BY <1>1, <1>2, <1>3

\* What a run knows of its leases depends on its home only while it works there.
LEMMA OtherHome ==
    ASSUME NEW c, NEW r, NEW h, NEW g, NEW n, RunProper(c, r, h, n), r.pc # "run"
    PROVE  RunProper(c, r, g, n)
BY DEF RunProper, Leases

\* What a client sends on its way to s is proper, of n leases, and gives back no
\* lease that it works with; neither does what it had sent before.
Sends(c, s, n) ==
    \A call \in calls' \ calls :
        /\ CallProper(call, n) /\ call.client = c
        /\ call.kind = "release" =>
              s.pc \notin WorkingPC \/ call.grant.lease # Current(s).lease
Spares(c, s) ==
    \A call \in calls : call.kind = "release" /\ call.client = c =>
        s.pc \notin WorkingPC \/ call.grant.lease # Current(s).lease

\* The client sends nothing, or one such call.
LEMMA SendsNone == ASSUME calls' \subseteq calls, NEW c, NEW s, NEW n PROVE Sends(c, s, n)
BY DEF Sends

LEMMA SendsOne ==
    ASSUME NEW c, NEW s, NEW n, NEW call, calls' \subseteq calls \cup {call},
           CallProper(call, n), call.client = c,
           call.kind # "release" \/ call.grant.lease # Current(s).lease
    PROVE  Sends(c, s, n)
BY DEF Sends

\* A step that moves one run, and serves or makes some calls.
LEMMA OneRunProper ==
    ASSUME Proper, Served, WorldProper', NEW c \in Client, NEW s,
           run' = [run EXCEPT ![c] = s], RunProper(c, s, home'[c], issued'),
           \A d \in Client \ {c} : home'[d] = home[d] \/ run[d].pc # "run",
           Spares(c, s), Sends(c, s, issued')
    PROVE  Proper'
<1>1. issued \in Nat /\ issued' \in Nat /\ issued <= issued'
  BY DEF Proper, ServerProper, TypeOK, Served
<1>2. run \in [Client -> Run] /\ s \in Run
  BY DEF Proper, RunsProper, RunProper
<1>3. run'[c] = s /\ \A d \in Client \ {c} : run'[d] = run[d]
  BY <1>2
<1>4. RunsProper'
  <2>1. ASSUME NEW d \in Client \ {c}
        PROVE  RunProper(d, run[d], home'[d], issued')
    <3>1. RunProper(d, run[d], home[d], issued')
      BY <1>1, MoreIssued DEF Proper, RunsProper
    <3> QED BY <3>1, OtherHome
  <2>2. \A d \in Client : RunProper(d, run'[d], home'[d], issued')
    BY <1>3, <2>1
  <2>3. run' \in [Client -> Run]
    BY <1>2
  <2> QED BY <2>2, <2>3 DEF RunsProper
<1>5. CallsProper'
  BY <1>1, MoreIssued DEF Proper, CallsProper, Sends
<1>6. ReleasesOver'
  <2> SUFFICES ASSUME NEW call \in calls', call.kind = "release",
                      run'[call.client].pc \in WorkingPC
               PROVE  call.grant.lease # Current(run'[call.client]).lease
    BY DEF ReleasesOver
  <2>1. call.client \in Client
    BY <1>5 DEF CallsProper, CallProper, Call
  <2>2. CASE call.client = c
    BY <1>3, <2>2 DEF Sends, Spares
  <2>3. CASE call.client # c
    BY <1>3, <2>1, <2>3 DEF Proper, ReleasesOver, Sends
  <2> QED BY <2>2, <2>3
<1> QED BY <1>4, <1>5, <1>6 DEF Proper, Served

\* The same, when it moves none.
LEMMA NoRunProper ==
    ASSUME Proper, Served, WorldProper', UNCHANGED <<run, home>>,
           \A call \in calls' \ calls : CallProper(call, issued') /\ call.kind # "release"
    PROVE  Proper'
<1>1. issued \in Nat /\ issued' \in Nat /\ issued <= issued'
  BY DEF Proper, ServerProper, TypeOK, Served
<1>2. RunsProper'
  BY <1>1, MoreIssued DEF Proper, RunsProper
<1>3. CallsProper'
  BY <1>1, MoreIssued DEF Proper, CallsProper
<1>4. ReleasesOver'
  BY DEF Proper, ReleasesOver
<1> QED BY <1>2, <1>3, <1>4 DEF Proper, Served

\* How the runs go on in a step that moves one of them.
LEMMA OneRunGoes ==
    ASSUME run \in [Client -> Run], NEW c \in Client, NEW s,
           run' = [run EXCEPT ![c] = s],
           \A d \in Client : run[d].pc \in WorkingPC => Keeps(d),
           \A d \in Client : silent'[d] = silent[d] \/ d = c \/ run[d].pc \in Over,
           SwapsTo(run[c], s),
           \/ Follows(run[c], s) /\ (silent'[c] = silent[c] \/ s.pc \in Over)
           \/ Renewed(c)
    PROVE  \A d \in Client : Goes(d)
<1> SUFFICES ASSUME NEW d \in Client PROVE Goes(d)
  OBVIOUS
<1>1. CASE d = c
  BY <1>1 DEF Goes, Over, WorkingPC, LeasedPC, Follows
<1>2. CASE d # c
  <2>1. run'[d] = run[d]
    BY <1>2
  <2>2. SwapsTo(run[d], run'[d]) /\ Follows(run[d], run'[d])
    BY <2>1 DEF SwapsTo, Follows
  <2> QED BY <1>2, <2>1, <2>2 DEF Goes, Over, WorkingPC, LeasedPC
<1> QED BY <1>1, <1>2

\* ... and in one that moves none.
LEMMA NoRunGoes ==
    ASSUME UNCHANGED run, \A d \in Client : run[d].pc \in WorkingPC => Keeps(d),
           \A d \in Client : silent'[d] = silent[d] \/ run[d].pc \in Over
    PROVE  \A d \in Client : Goes(d)
BY DEF Goes, SwapsTo, Follows, Over, WorkingPC, LeasedPC

\* A step that leaves every lease on its row.
LEMMA AllKept ==
    ASSUME \A a \in Account : Stands(a), Proper
    PROVE  \A d \in Client : run[d].pc \in WorkingPC => Keeps(d)
<1> SUFFICES ASSUME NEW d \in Client, run[d].pc \in WorkingPC PROVE Keeps(d)
  OBVIOUS
<1>1. RunProper(d, run[d], home[d], issued)
  BY DEF Proper, RunsProper
<1>2. Issued(Current(run[d]), issued)
  BY <1>1 DEF RunProper, Leases, Current, WorkingPC, LeasedPC
<1>3. Stands(Current(run[d]).account)
  BY <1>2 DEF Issued
<1> QED BY <1>3 DEF Keeps, Stands

\* A step of the client changes nothing at the server.
LEMMA ClientServed ==
    ASSUME Proper, UNCHANGED vars
    PROVE  Served /\ UNCHANGED issued /\ \A a \in Account : Stands(a)
<1>1. TypeOK' /\ BusyWithAccount'
  BY NextType, NextBusy DEF Proper, ServerProper
<1> QED BY <1>1, RestServed DEF Proper, ServerProper, vars


-----------------------------------------------------------------------------
(* Calls                                                                   *)

\* Two runs that differ at most in the call waited for and in what the lemmas
\* below do not ask for.
Alike(r, s) ==
    /\ s \in Run /\ s.pc = r.pc /\ s.beat = r.beat /\ s.codex = r.codex
    /\ s.held = r.held /\ s.next = r.next

\* What is not there has its type too.
LEMMA NothingType ==
    ASSUME NEW c \in Client
    PROVE  /\ NoCall(c) \in Call /\ NoCall(c).client = c /\ NoCall(c).kind = "none"
           /\ NoGrant \in Grant /\ NoLimits \in Limits
BY FailureType DEF NoCall, Call, Kind, NoGrant, Grant, NoLimits, Limits, NotChecked,
   QuotaStatus

\* A call is about the lease of its client, and an upload brings the auth.json
\* of the run's home.
LEMMA AskMakes ==
    ASSUME Proper, NEW c \in Client,
           NEW kind \in {"claim", "report", "upload", "release"},
           NEW after \in Run, Ask(c, kind, after), NEW n,
           kind # "claim" => Issued(after.held, n),
           kind = "upload" => Belongs(home[c], after.held.account)
    PROVE  \E s, call :
              /\ run' = [run EXCEPT ![c] = s] /\ Alike(after, s) /\ s.call = call
              /\ calls' \subseteq calls \cup {call}
              /\ CallProper(call, n) /\ call.kind = kind /\ call.client = c
              /\ call.grant.lease = after.held.lease
              /\ call.grant.account = after.held.account
<1> DEFINE token == IF kind = "upload" THEN home[c] ELSE NoToken
           grant == [after.held EXCEPT !.token = token]
           lim == IF kind = "report" THEN limits[c] ELSE NoLimits
           call == [kind |-> kind, client |-> c, limits |-> lim, grant |-> grant]
           s == [after EXCEPT !.call = call]
<1>1. token \in Token \cup {NoToken} /\ (kind = "upload" => token = home[c])
  BY DEF Proper, WorldProper
<1>2. after.held \in Grant
  BY DEF Run
<1> HIDE DEF token
<1>3. /\ grant \in Grant /\ grant.lease = after.held.lease
      /\ grant.account = after.held.account /\ grant.token = token
  BY <1>1, <1>2 DEF Grant
<1>5. lim \in Limits
  BY NothingType DEF Proper, WorldProper
<1>6. run' = [run EXCEPT ![c] = s] /\ calls' \subseteq calls \cup {call}
  BY DEF Ask, token
<1> HIDE DEF grant, lim
<1>7. call \in Call /\ call.kind = kind /\ call.client = c /\ call.grant = grant
  BY <1>3, <1>5 DEF Call, Kind
<1> HIDE DEF call
<1>8. Alike(after, s) /\ s.call = call
  BY <1>7 DEF Alike, Run
<1>9. CallProper(call, n)
  BY <1>1, <1>3, <1>7 DEF CallProper, Issued
<1> HIDE DEF s
<1> QED BY <1>3, <1>6, <1>7, <1>8, <1>9

\* A run that is not there, or no more, is proper.
LEMMA AtProper ==
    ASSUME NEW c \in Client, NEW pc \in {"idle", "done", "killed"}, NEW h, NEW n
    PROVE  /\ At(c, pc) \in Run /\ RunProper(c, At(c, pc), h, n)
           /\ At(c, pc).pc = pc /\ At(c, pc).call.kind = "none"
           /\ \A r : Follows(r, At(c, pc)) /\ SwapsTo(r, At(c, pc))
<1>1. pc \in PC /\ "off" \in BeatPC
  BY DEF PC, BeatPC
<1>2. At(c, pc) \in Run
  BY <1>1, NothingType DEF At, Run
<1>3. At(c, pc).pc = pc /\ At(c, pc).call = NoCall(c) /\ ~ At(c, pc).codex
  BY DEF At
<1> QED BY <1>2, <1>3, NothingType
       DEF RunProper, Expects, Leases, Follows, SwapsTo, WorkingPC, LeasedPC

\* Wherever a call fails the run goes on with the lease it had, or ends.
LEMMA AfterErrorGoes ==
    ASSUME NEW c \in Client, NEW r, NEW h, NEW n, RunProper(c, r, h, n),
           r.call.kind # "none",
           NEW s, s = [AfterError(r) EXCEPT !.call = NoCall(c)]
    PROVE  /\ RunProper(c, s, h, n) /\ Follows(r, s) /\ SwapsTo(r, s)
           /\ s.call.kind = "none"
<1>1. r \in Run /\ r.call.client = c
  BY DEF RunProper
<1>2. NoCall(c) \in Call /\ NoCall(c).client = c /\ NoCall(c).kind = "none"
  BY NothingType
<1>4. CASE r.pc \in {"claim", "release"}
  <2>1. AfterError(r) = At(c, "done")
    BY <1>1, <1>4 DEF AfterError
  <2>2. /\ At(c, "done") \in Run /\ RunProper(c, At(c, "done"), h, n)
        /\ Follows(r, At(c, "done")) /\ SwapsTo(r, At(c, "done"))
        /\ At(c, "done").call.kind = "none"
    BY AtProper
  <2>3. At(c, "done").call = NoCall(c)
    BY DEF At
  <2>4. s = At(c, "done")
    BY <2>1, <2>2, <2>3 DEF Run
  <2> QED BY <2>2, <2>4
<1>5. CASE r.pc = "run" /\ r.beat = "beat"
  <2>1. s = [r EXCEPT !.beat = "check", !.hint = FALSE, !.call = NoCall(c)]
    BY <1>5 DEF AfterError
  <2>2. /\ s \in Run /\ s.pc = r.pc /\ s.beat = "check" /\ s.codex = r.codex
        /\ s.held = r.held /\ s.next = r.next /\ s.call = NoCall(c)
    BY <1>1, <1>2, <2>1 DEF Run, BeatPC
  <2> QED BY <1>1, <1>2, <1>5, <2>2
         DEF RunProper, Expects, Leases, Follows, SwapsTo, WorkingPC, LeasedPC, Current
<1>6. CASE r.pc = "run" /\ r.beat = "push"
  <2>1. s = [r EXCEPT !.beat = "decide", !.call = NoCall(c)]
    BY <1>6 DEF AfterError
  <2>2. /\ s \in Run /\ s.pc = r.pc /\ s.beat = "decide" /\ s.codex = r.codex
        /\ s.held = r.held /\ s.next = r.next /\ s.call = NoCall(c)
    BY <1>1, <1>2, <2>1 DEF Run, BeatPC
  <2> QED BY <1>1, <1>2, <1>6, <2>2
         DEF RunProper, Expects, Leases, Follows, SwapsTo, WorkingPC, LeasedPC, Current
<1>7. CASE r.pc = "final"
  <2>1. s = [r EXCEPT !.pc = "finished", !.authErr = TRUE, !.call = NoCall(c)]
    BY <1>7 DEF AfterError
  <2>2. /\ s \in Run /\ s.pc = "finished" /\ s.beat = r.beat /\ s.codex = r.codex
        /\ s.held = r.held /\ s.next = r.next /\ s.call = NoCall(c)
    BY <1>1, <1>2, <2>1 DEF Run, PC
  <2> QED BY <1>1, <1>2, <1>7, <2>2
         DEF RunProper, Expects, Leases, Follows, SwapsTo, WorkingPC, LeasedPC, Current
<1>8. CASE r.pc = "swapclaim"
  <2>1. s = [r EXCEPT !.pc = "cleanup", !.call = NoCall(c)]
    BY <1>8 DEF AfterError
  <2>2. /\ s \in Run /\ s.pc = "cleanup" /\ s.beat = r.beat /\ s.codex = r.codex
        /\ s.held = r.held /\ s.next = r.next /\ s.call = NoCall(c)
    BY <1>1, <1>2, <2>1 DEF Run, PC
  <2> QED BY <1>1, <1>2, <1>8, <2>2
         DEF RunProper, Expects, Leases, Follows, SwapsTo, WorkingPC, LeasedPC, Current
<1>9. CASE r.pc = "swaprelease"
  <2>1. s = [r EXCEPT !.pc = "setup", !.held = r.next, !.call = NoCall(c)]
    BY <1>9 DEF AfterError
  <2>2. /\ s \in Run /\ s.pc = "setup" /\ s.beat = r.beat /\ s.codex = r.codex
        /\ s.held = r.next /\ s.next = r.next /\ s.call = NoCall(c)
    BY <1>1, <1>2, <2>1 DEF Run, PC
  <2> QED BY <1>1, <1>2, <1>9, <2>2
         DEF RunProper, Expects, Leases, Follows, SwapsTo, WorkingPC, LeasedPC, Current
<1>10. \/ r.pc \in {"claim", "release"}
       \/ r.pc = "run" /\ r.beat = "beat"
       \/ r.pc = "run" /\ r.beat = "push"
       \/ r.pc = "final"
       \/ r.pc = "swapclaim"
       \/ r.pc = "swaprelease"
  BY <1>1 DEF RunProper, Expects, Run, Call, Kind
<1> QED BY <1>4, <1>5, <1>6, <1>7, <1>8, <1>9, <1>10


-----------------------------------------------------------------------------
(* The client's steps                                                      *)

\* What every step does.
Moves == Proper' /\ \A d \in Client : Goes(d)

\* A step of one client that goes on with its lease.
LEMMA ClientMoves ==
    ASSUME Proper, UNCHANGED vars, WorldProper', NEW c \in Client, NEW s,
           run' = [run EXCEPT ![c] = s], RunProper(c, s, home'[c], issued),
           \A d \in Client \ {c} : home'[d] = home[d] \/ run[d].pc # "run",
           \A d \in Client : silent'[d] = silent[d] \/ run'[d].pc \in Over,
           Follows(run[c], s), SwapsTo(run[c], s), Sends(c, s, issued)
    PROVE  Moves
<1>1. Served /\ UNCHANGED issued /\ \A a \in Account : Stands(a)
  BY ClientServed
<1>2. run \in [Client -> Run]
  BY DEF Proper, RunsProper
<1>3. run'[c] = s /\ \A d \in Client \ {c} : run'[d] = run[d]
  BY <1>2
<1>4. Spares(c, s)
  BY DEF Proper, ReleasesOver, Follows, Spares
<1>5. Proper'
  <2>1. RunProper(c, s, home'[c], issued')
    BY <1>1
  <2>2. Sends(c, s, issued')
    BY <1>1
  <2>3. \A d \in Client \ {c} : home'[d] = home[d] \/ run[d].pc # "run"
    OBVIOUS
  <2> QED BY <1>1, <1>4, <2>1, <2>2, <2>3, OneRunProper
<1>6. \A d \in Client : run[d].pc \in WorkingPC => Keeps(d)
  BY <1>1, AllKept
<1>7. \A d \in Client : silent'[d] = silent[d] \/ d = c \/ run[d].pc \in Over
  BY <1>3
<1>8. silent'[c] = silent[c] \/ s.pc \in Over
  BY <1>3
<1>9. \A d \in Client : Goes(d)
  BY <1>2, <1>6, <1>7, <1>8, OneRunGoes
<1> QED BY <1>5, <1>9 DEF Moves

\* What the ends of runs leave in the world.
LEMMA ScrubWorld ==
    ASSUME WorldProper, Scrub, NEW heard, Silence(heard), UNCHANGED minted
    PROVE  /\ WorldProper'
           /\ \A d \in Client : home'[d] = home[d] \/ run'[d].pc \in Over
           /\ \A d \in Client :
                 IF d \in heard THEN silent'[d] = 0
                 ELSE silent'[d] = silent[d] \/ run'[d].pc \in Over
<1>1. home' \in [Client -> Token \cup {NoToken}]
  BY DEF Scrub, WorldProper
<1>2. limits' \in [Client -> Limits]
  <2>1. NoLimits \in Limits \/ Client = {}
    BY NothingType
  <2> QED BY <2>1 DEF Scrub, WorldProper
<1>3. silent' \in [Client -> 0..(HeartbeatInterval + 1)]
  <2>1. 0 \in 0..(HeartbeatInterval + 1)
    BY RunAssumption
  <2> QED BY <2>1 DEF Silence, WorldProper
<1>4. \A d \in Client : home'[d] = home[d] \/ run'[d].pc \in Over
  BY DEF Scrub, Gone
<1>5. \A d \in Client : IF d \in heard THEN silent'[d] = 0
                        ELSE silent'[d] = silent[d] \/ run'[d].pc \in Over
  BY DEF Silence, Gone
<1> QED BY <1>1, <1>2, <1>3, <1>4, <1>5 DEF WorldProper

\* A step that may end the run of its client, and makes at most a release.
LEMMA EndMoves ==
    ASSUME Proper, Ends, NEW c \in Client, NEW s,
           run' = [run EXCEPT ![c] = s], RunProper(c, s, home[c], issued),
           Follows(run[c], s), SwapsTo(run[c], s),
           \A call \in calls' \ calls :
               /\ CallProper(call, issued) /\ call.client = c
               /\ call.kind = "release" =>
                     s.pc \notin WorkingPC \/ call.grant.lease # Current(s).lease
    PROVE  Moves
<1>1. /\ WorldProper'
      /\ \A d \in Client : home'[d] = home[d] \/ run'[d].pc \in Over
      /\ \A d \in Client : silent'[d] = silent[d] \/ run'[d].pc \in Over
  BY ScrubWorld DEF Ends, Proper
<1>2. run \in [Client -> Run]
  BY DEF Proper, RunsProper
<1>3. run'[c] = s /\ \A d \in Client \ {c} : run'[d] = run[d]
  BY <1>2
<1>4. RunProper(c, s, home'[c], issued)
  BY <1>1, <1>3, OtherHome DEF Over
<1>5. \A d \in Client \ {c} : home'[d] = home[d] \/ run[d].pc # "run"
  BY <1>1, <1>3 DEF Over
<1>6. UNCHANGED vars
  BY DEF Ends
<1>7. Sends(c, s, issued)
  BY DEF Sends
<1> QED BY <1>1, <1>4, <1>5, <1>6, <1>7, ClientMoves

\* A step that touches neither home nor world.
LEMMA QuietMoves ==
    ASSUME Proper, Quiet, UNCHANGED home, NEW c \in Client, NEW s,
           run' = [run EXCEPT ![c] = s], RunProper(c, s, home[c], issued),
           Follows(run[c], s), SwapsTo(run[c], s), Sends(c, s, issued)
    PROVE  Moves
<1>1. WorldProper' /\ UNCHANGED vars /\ UNCHANGED silent
  BY DEF Quiet, Proper, WorldProper
<1>2. RunProper(c, s, home'[c], issued)
  OBVIOUS
<1> QED BY <1>1, <1>2, ClientMoves

\* The first claim.
LEMMA StartMoves == ASSUME Proper, NEW c \in Client, Start(c) PROVE Moves
<1> DEFINE r == run[c]
           after == [r EXCEPT !.pc = "claim"]
<1>1. RunProper(c, r, home[c], issued)
  BY DEF Proper, RunsProper
<1>2. r.pc = "idle" /\ Ask(c, "claim", after) /\ UNCHANGED home /\ Quiet
  BY DEF Start
<1>3. /\ after \in Run /\ after.pc = "claim" /\ after.codex = r.codex
  BY <1>1 DEF RunProper, Run, PC
<1> HIDE DEF after
<1>4. PICK s, call :
         /\ run' = [run EXCEPT ![c] = s] /\ Alike(after, s) /\ s.call = call
         /\ calls' \subseteq calls \cup {call}
         /\ CallProper(call, issued) /\ call.kind = "claim" /\ call.client = c
  BY <1>2, <1>3, AskMakes
<1>5. RunProper(c, s, home[c], issued)
  BY <1>1, <1>2, <1>3, <1>4 DEF RunProper, Expects, Leases, Alike, LeasedPC
<1>6. Follows(run[c], s) /\ SwapsTo(run[c], s)
  BY <1>3, <1>4 DEF Follows, SwapsTo, WorkingPC, LeasedPC, Alike
<1>7. Sends(c, s, issued)
  BY <1>4, SendsOne
<1> QED BY <1>2, <1>4, <1>5, <1>6, <1>7, QuietMoves

\* The leased auth.json is installed and codex started.
LEMMA SetupMoves == ASSUME Proper, NEW c \in Client, Setup(c) PROVE Moves
<1> DEFINE r == run[c]
           s == [r EXCEPT !.pc = "run", !.beat = "wait", !.codex = TRUE,
                          !.known = r.held.token, !.hint = FALSE, !.swap = FALSE,
                          !.authErr = FALSE, !.held.token = NoToken,
                          !.next = NoGrant]
<1>1. RunProper(c, r, home[c], issued) /\ r.pc = "setup"
  BY DEF Proper, RunsProper, Setup
<1>2. /\ run' = [run EXCEPT ![c] = s] /\ UNCHANGED calls /\ Quiet
      /\ home' = [home EXCEPT ![c] = r.held.token]
  BY Zenon DEF Setup
<1>3. r \in Run /\ r.held \in Grant /\ r.held.token \in Token \cup {NoToken}
  BY <1>1 DEF RunProper, Run, Grant
<1>4. [r.held EXCEPT !.token = NoToken] \in Grant
  BY <1>3 DEF Grant
<1>5. NoGrant \in Grant
  BY NothingType
<1>6. /\ s \in Run /\ s.pc = "run" /\ s.beat = "wait" /\ s.codex = TRUE
      /\ s.held = [r.held EXCEPT !.token = NoToken] /\ s.call = r.call
  BY <1>3, <1>4, <1>5 DEF Run, PC, BeatPC
<1> HIDE DEF s
<1>7. s.held.lease = r.held.lease /\ s.held.account = r.held.account
  BY <1>3, <1>6 DEF Grant
<1>8. home'[c] = r.held.token /\ \A d \in Client \ {c} : home'[d] = home[d]
  BY <1>2 DEF Proper, WorldProper
<1>9. RunProper(c, s, home'[c], issued)
  BY <1>1, <1>6, <1>7, <1>8 DEF RunProper, Expects, Leases, LeasedPC, Issued
<1>10. Follows(run[c], s) /\ SwapsTo(run[c], s)
  BY <1>1, <1>6, <1>7 DEF Follows, SwapsTo, WorkingPC, LeasedPC, Current
<1>11. WorldProper' /\ UNCHANGED vars /\ UNCHANGED silent
  BY <1>2, <1>3 DEF Quiet, Proper, WorldProper
<1>12. Sends(c, s, issued)
  BY <1>2, SendsNone
<1> QED BY <1>2, <1>8, <1>9, <1>10, <1>11, <1>12, ClientMoves

\* It cannot be installed: the run returns, or cleans up after its first codex.
LEMMA SetupFailsMoves == ASSUME Proper, NEW c \in Client, SetupFails(c) PROVE Moves
<1> DEFINE r == run[c]
<1>1. RunProper(c, r, home[c], issued) /\ r.pc = "setup"
  BY DEF Proper, RunsProper, SetupFails
<1>2. UNCHANGED calls /\ Ends
  BY DEF SetupFails
<1>3. CASE run' = [run EXCEPT ![c] = At(c, "done")]
  <2>1. /\ RunProper(c, At(c, "done"), home[c], issued)
        /\ Follows(run[c], At(c, "done")) /\ SwapsTo(run[c], At(c, "done"))
    BY AtProper
  <2> QED BY <1>2, <1>3, <2>1, EndMoves
<1> DEFINE s == [r EXCEPT !.pc = "cleanup"]
<1>4. CASE run' = [run EXCEPT ![c] = s]
  <2>1. /\ s \in Run /\ s.pc = "cleanup" /\ s.beat = r.beat /\ s.codex = r.codex
        /\ s.held = r.held /\ s.call = r.call
    BY <1>1 DEF RunProper, Run, PC
  <2> HIDE DEF s
  <2>2. RunProper(c, s, home[c], issued) /\ Follows(r, s) /\ SwapsTo(r, s)
    BY <1>1, <2>1
       DEF RunProper, Expects, Leases, Follows, SwapsTo, WorkingPC, LeasedPC
  <2> QED BY <1>2, <1>4, <2>2, EndMoves
<1>5. run' = [run EXCEPT ![c] = s] \/ run' = [run EXCEPT ![c] = At(c, "done")]
  BY DEF SetupFails
<1> QED BY <1>3, <1>4, <1>5

\* The last upload of what codex leaves.
LEMMA JoinMoves == ASSUME Proper, NEW c \in Client, Join(c) PROVE Moves
<1> DEFINE r == run[c]
           after == [r EXCEPT !.pc = "final", !.beat = "off"]
<1>1. RunProper(c, r, home[c], issued)
  BY DEF Proper, RunsProper
<1>2. /\ r.pc = "run" /\ ~ r.codex /\ r.beat \in {"wait", "off"}
      /\ Ask(c, "upload", after) /\ UNCHANGED home /\ Quiet
  BY DEF Join
<1>3. /\ after \in Run /\ after.pc = "final" /\ after.codex = r.codex
      /\ after.held = r.held /\ after.next = r.next
  BY <1>1 DEF RunProper, Run, PC, BeatPC
<1> HIDE DEF after
<1>4. Issued(r.held, issued) /\ Belongs(home[c], r.held.account)
  BY <1>1, <1>2 DEF RunProper, Leases, LeasedPC
<1>5. PICK s, call :
         /\ run' = [run EXCEPT ![c] = s] /\ Alike(after, s) /\ s.call = call
         /\ calls' \subseteq calls \cup {call}
         /\ CallProper(call, issued) /\ call.kind = "upload" /\ call.client = c
         /\ call.grant.lease = after.held.lease
         /\ call.grant.account = after.held.account
  <2>1. Issued(after.held, issued) /\ Belongs(home[c], after.held.account)
    BY <1>3, <1>4
  <2>2. Ask(c, "upload", after) /\ after \in Run
    BY <1>2, <1>3
  <2> QED BY <2>1, <2>2, AskMakes
<1>6. RunProper(c, s, home[c], issued)
  BY <1>1, <1>2, <1>3, <1>4, <1>5 DEF RunProper, Expects, Leases, Alike, LeasedPC
<1>7. Follows(run[c], s) /\ SwapsTo(run[c], s)
  BY <1>2, <1>3, <1>5 DEF Follows, SwapsTo, WorkingPC, LeasedPC, Alike, Current
<1>8. Sends(c, s, issued)
  BY <1>5, SendsOne
<1> QED BY <1>2, <1>5, <1>6, <1>7, <1>8, QuietMoves

\* The run is over, or the next account is claimed.
LEMMA FinishMoves == ASSUME Proper, NEW c \in Client, Finish(c) PROVE Moves
<1> DEFINE r == run[c]
<1>1. RunProper(c, r, home[c], issued)
  BY DEF Proper, RunsProper
<1>2. r.pc = "finished" /\ UNCHANGED home /\ Quiet
  BY DEF Finish
<1> DEFINE after == [r EXCEPT !.pc = "swapclaim"]
<1>3. CASE Ask(c, "claim", after)
  <2>1. /\ after \in Run /\ after.pc = "swapclaim" /\ after.codex = r.codex
        /\ after.held = r.held
    BY <1>1 DEF RunProper, Run, PC
  <2> HIDE DEF after
  <2>2. PICK s, call :
           /\ run' = [run EXCEPT ![c] = s] /\ Alike(after, s) /\ s.call = call
           /\ calls' \subseteq calls \cup {call}
           /\ CallProper(call, issued) /\ call.kind = "claim" /\ call.client = c
    BY <1>3, <2>1, AskMakes
  <2>3. RunProper(c, s, home[c], issued)
    BY <1>1, <1>2, <2>1, <2>2 DEF RunProper, Expects, Leases, Alike, LeasedPC
  <2>4. Follows(run[c], s) /\ SwapsTo(run[c], s)
    BY <1>2, <2>1, <2>2 DEF Follows, SwapsTo, WorkingPC, LeasedPC, Alike, Current
  <2>5. Sends(c, s, issued)
    BY <2>2, SendsOne
  <2> QED BY <1>2, <2>2, <2>3, <2>4, <2>5, QuietMoves
<1> DEFINE s == [r EXCEPT !.pc = "cleanup"]
<1>4. CASE run' = [run EXCEPT ![c] = s] /\ UNCHANGED calls
  <2>1. /\ s \in Run /\ s.pc = "cleanup" /\ s.beat = r.beat /\ s.codex = r.codex
        /\ s.held = r.held /\ s.call = r.call
    BY <1>1 DEF RunProper, Run, PC
  <2> HIDE DEF s
  <2>2. RunProper(c, s, home[c], issued) /\ Follows(r, s) /\ SwapsTo(r, s)
    BY <1>1, <1>2, <2>1
       DEF RunProper, Expects, Leases, Follows, SwapsTo, WorkingPC, LeasedPC
  <2>3. Sends(c, s, issued)
    BY <1>4, SendsNone
  <2> QED BY <1>2, <1>4, <2>2, <2>3, QuietMoves
<1>5. \/ Ask(c, "claim", after)
      \/ run' = [run EXCEPT ![c] = s] /\ UNCHANGED calls
  BY DEF Finish
<1> QED BY <1>3, <1>4, <1>5

\* The lease is given back, or left to expire.
LEMMA CleanupMoves == ASSUME Proper, NEW c \in Client, Cleanup(c) PROVE Moves
<1> DEFINE r == run[c]
           after == [r EXCEPT !.pc = "release"]
<1>1. RunProper(c, r, home[c], issued)
  BY DEF Proper, RunsProper
<1>2. r.pc = "cleanup" /\ Ends
  BY DEF Cleanup
<1>3. CASE Ask(c, "release", after)
  <2>1. /\ after \in Run /\ after.pc = "release" /\ after.codex = r.codex
        /\ after.held = r.held
    BY <1>1 DEF RunProper, Run, PC
  <2> HIDE DEF after
  <2>2. Issued(after.held, issued)
    BY <1>1, <1>2, <2>1 DEF RunProper, Leases, LeasedPC
  <2>3. PICK s, call :
           /\ run' = [run EXCEPT ![c] = s] /\ Alike(after, s) /\ s.call = call
           /\ calls' \subseteq calls \cup {call}
           /\ CallProper(call, issued) /\ call.kind = "release" /\ call.client = c
           /\ call.grant.lease = after.held.lease
           /\ call.grant.account = after.held.account
    BY <1>3, <2>1, <2>2, AskMakes
  <2>4. RunProper(c, s, home[c], issued)
    BY <1>1, <1>2, <2>1, <2>3 DEF RunProper, Expects, Leases, Alike, LeasedPC
  <2>5. Follows(run[c], s) /\ SwapsTo(run[c], s) /\ s.pc \notin WorkingPC
    BY <2>1, <2>3 DEF Follows, SwapsTo, WorkingPC, LeasedPC, Alike
  <2> QED BY <1>2, <2>3, <2>4, <2>5, EndMoves
<1>4. CASE run' = [run EXCEPT ![c] = At(c, "done")] /\ UNCHANGED calls
  <2>1. /\ RunProper(c, At(c, "done"), home[c], issued)
        /\ Follows(run[c], At(c, "done")) /\ SwapsTo(run[c], At(c, "done"))
    BY AtProper
  <2> QED BY <1>2, <1>4, <2>1, EndMoves
<1> QED BY <1>3, <1>4 DEF Cleanup

\* The old lease of a swap is given back.
LEMMA ReleaseOldMoves == ASSUME Proper, NEW c \in Client, ReleaseOld(c) PROVE Moves
<1> DEFINE r == run[c]
<1>1. RunProper(c, r, home[c], issued) /\ r \in Run
  BY DEF Proper, RunsProper, RunProper
<1>2. r.pc = "swaprelease" /\ Ask(c, "release", r) /\ UNCHANGED home /\ Quiet
  BY DEF ReleaseOld
<1>3. Issued(r.held, issued)
  BY <1>1, <1>2 DEF RunProper, Leases, LeasedPC
<1>4. PICK s, call :
         /\ run' = [run EXCEPT ![c] = s] /\ Alike(r, s) /\ s.call = call
         /\ calls' \subseteq calls \cup {call}
         /\ CallProper(call, issued) /\ call.kind = "release" /\ call.client = c
         /\ call.grant.lease = r.held.lease
  BY <1>1, <1>2, <1>3, AskMakes
<1>5. RunProper(c, s, home[c], issued)
  BY <1>1, <1>2, <1>4 DEF RunProper, Expects, Leases, Alike, LeasedPC
<1>6. Follows(run[c], s) /\ SwapsTo(run[c], s)
  BY <1>2, <1>4 DEF Follows, SwapsTo, WorkingPC, LeasedPC, Alike, Current
<1>7. call.grant.lease # Current(s).lease
  BY <1>1, <1>2, <1>4 DEF RunProper, Leases, Alike, Current
<1>8. Sends(c, s, issued)
  BY <1>4, <1>7, SendsOne
<1> QED BY <1>2, <1>4, <1>5, <1>6, <1>8, QuietMoves

\* A heartbeat.
LEMMA BeatMoves == ASSUME Proper, NEW c \in Client, Beat(c) PROVE Moves
<1> DEFINE r == run[c]
           after == [r EXCEPT !.beat = "beat"]
<1>1. RunProper(c, r, home[c], issued)
  BY DEF Proper, RunsProper
<1>2. /\ r.pc = "run" /\ r.beat = "wait"
      /\ Ask(c, "report", after) /\ UNCHANGED home /\ Quiet
  BY DEF Beat
<1>3. /\ after \in Run /\ after.pc = r.pc /\ after.codex = r.codex
      /\ after.held = r.held /\ after.next = r.next /\ after.beat = "beat"
  BY <1>1 DEF RunProper, Run, BeatPC
<1> HIDE DEF after
<1>4. Issued(r.held, issued)
  BY <1>1, <1>2 DEF RunProper, Leases, LeasedPC
<1>5. PICK s, call :
         /\ run' = [run EXCEPT ![c] = s] /\ Alike(after, s) /\ s.call = call
         /\ calls' \subseteq calls \cup {call}
         /\ CallProper(call, issued) /\ call.kind = "report" /\ call.client = c
         /\ call.grant.lease = after.held.lease
         /\ call.grant.account = after.held.account
  BY <1>2, <1>3, <1>4, AskMakes
<1>6. RunProper(c, s, home[c], issued)
  BY <1>1, <1>2, <1>3, <1>5 DEF RunProper, Expects, Leases, Alike, LeasedPC
<1>7. Follows(run[c], s) /\ SwapsTo(run[c], s)
  BY <1>2, <1>3, <1>5 DEF Follows, SwapsTo, WorkingPC, LeasedPC, Alike, Current
<1>8. Sends(c, s, issued)
  BY <1>5, SendsOne
<1> QED BY <1>2, <1>5, <1>6, <1>7, <1>8, QuietMoves

\* A changed auth.json is uploaded.
LEMMA CheckMoves == ASSUME Proper, NEW c \in Client, Check(c) PROVE Moves
<1> DEFINE r == run[c]
<1>1. RunProper(c, r, home[c], issued)
  BY DEF Proper, RunsProper
<1>2. r.pc = "run" /\ r.beat = "check" /\ UNCHANGED home /\ Quiet
  BY DEF Check
<1> DEFINE after == [r EXCEPT !.beat = "push"]
<1>3. CASE Ask(c, "upload", after)
  <2>1. /\ after \in Run /\ after.pc = r.pc /\ after.codex = r.codex
        /\ after.held = r.held /\ after.next = r.next /\ after.beat = "push"
    BY <1>1 DEF RunProper, Run, BeatPC
  <2> HIDE DEF after
  <2>2. Issued(r.held, issued) /\ Belongs(home[c], r.held.account)
    BY <1>1, <1>2 DEF RunProper, Leases, LeasedPC
  <2>3. PICK s, call :
           /\ run' = [run EXCEPT ![c] = s] /\ Alike(after, s) /\ s.call = call
           /\ calls' \subseteq calls \cup {call}
           /\ CallProper(call, issued) /\ call.kind = "upload" /\ call.client = c
           /\ call.grant.lease = after.held.lease
           /\ call.grant.account = after.held.account
    BY <1>3, <2>1, <2>2, AskMakes
  <2>4. RunProper(c, s, home[c], issued)
    BY <1>1, <1>2, <2>1, <2>2, <2>3 DEF RunProper, Expects, Leases, Alike, LeasedPC
  <2>5. Follows(run[c], s) /\ SwapsTo(run[c], s)
    BY <1>2, <2>1, <2>3 DEF Follows, SwapsTo, WorkingPC, LeasedPC, Alike, Current
  <2>6. Sends(c, s, issued)
    BY <2>3, SendsOne
  <2> QED BY <1>2, <2>3, <2>4, <2>5, <2>6, QuietMoves
<1> DEFINE s == [r EXCEPT !.beat = "decide"]
<1>4. CASE run' = [run EXCEPT ![c] = s] /\ UNCHANGED calls
  <2>1. /\ s \in Run /\ s.pc = r.pc /\ s.beat = "decide" /\ s.codex = r.codex
        /\ s.held = r.held /\ s.next = r.next /\ s.call = r.call
    BY <1>1 DEF RunProper, Run, BeatPC
  <2> HIDE DEF s
  <2>2. RunProper(c, s, home[c], issued) /\ Follows(r, s) /\ SwapsTo(r, s)
    BY <1>1, <1>2, <2>1
       DEF RunProper, Expects, Leases, Follows, SwapsTo, WorkingPC, LeasedPC, Current
  <2>3. Sends(c, s, issued)
    BY <1>4, SendsNone
  <2> QED BY <1>2, <1>4, <2>2, <2>3, QuietMoves
<1>5. \/ Ask(c, "upload", after)
      \/ run' = [run EXCEPT ![c] = s] /\ UNCHANGED calls
  BY DEF Check
<1> QED BY <1>3, <1>4, <1>5

\* A run that only goes on in fields that no lease depends on.
LEMMA FieldMoves ==
    ASSUME Proper, Quiet, UNCHANGED <<home, calls>>, NEW c \in Client, NEW s,
           run' = [run EXCEPT ![c] = s], s \in Run,
           s.pc = run[c].pc, s.held = run[c].held, s.next = run[c].next,
           s.call = run[c].call, s.codex => run[c].codex,
           s.pc = "run" => \/ s.beat = run[c].beat
                           \/ /\ s.beat \notin {"beat", "push"}
                              /\ run[c].beat \notin {"beat", "push"}
    PROVE  Moves
<1> DEFINE r == run[c]
<1>1. RunProper(c, r, home[c], issued)
  BY DEF Proper, RunsProper
<1>2. RunProper(c, s, home[c], issued) /\ Follows(r, s) /\ SwapsTo(r, s)
  BY <1>1 DEF RunProper, Expects, Leases, Follows, SwapsTo, Current
<1>3. Sends(c, s, issued)
  BY SendsNone
<1> QED BY <1>2, <1>3, QuietMoves

\* The goroutine goes on waiting, or returns to have the accounts swapped.
LEMMA DecideMoves == ASSUME Proper, NEW c \in Client, Decide(c) PROVE Moves
<1> DEFINE r == run[c]
           swap == r.hint \/ LowLimits(c)
           beat == IF swap THEN "off" ELSE "wait"
           s == [r EXCEPT !.beat = beat, !.swap = swap, !.hint = FALSE]
<1>1. r \in Run /\ run \in [Client -> Run]
  BY DEF Proper, RunsProper
<1>2. /\ r.beat = "decide" /\ UNCHANGED <<home, calls>> /\ Quiet
      /\ run' = [run EXCEPT ![c].beat = beat, ![c].swap = swap, ![c].hint = FALSE]
  BY DEF Decide
<1>3. swap \in BOOLEAN
  BY <1>1 DEF Run
<1>4. beat \in BeatPC /\ beat \notin {"beat", "push"}
  BY DEF BeatPC
<1> HIDE DEF swap, beat
<1>5. /\ s \in Run /\ s.pc = r.pc /\ s.held = r.held /\ s.next = r.next
      /\ s.call = r.call /\ s.codex = r.codex /\ s.beat = beat
  BY <1>1, <1>3, <1>4 DEF Run
<1>6. run' = [run EXCEPT ![c] = s]
  BY <1>1, <1>2
<1> HIDE DEF s
<1>7. r.beat \notin {"beat", "push"} /\ s.beat \notin {"beat", "push"}
  BY <1>2, <1>4, <1>5
<1>8. Quiet /\ UNCHANGED <<home, calls>>
  BY <1>2
<1> QED BY <1>5, <1>6, <1>7, <1>8, FieldMoves

\* codex ends.
LEMMA CodexExitsMoves == ASSUME Proper, NEW c \in Client, CodexExits(c) PROVE Moves
<1> DEFINE r == run[c]
           s == [r EXCEPT !.codex = FALSE]
<1>1. r \in Run /\ run \in [Client -> Run]
  BY DEF Proper, RunsProper
<1>2. UNCHANGED <<home, calls>> /\ Quiet /\ run' = [run EXCEPT ![c] = s]
  BY <1>1 DEF CodexExits
<1>3. /\ s \in Run /\ s.pc = r.pc /\ s.held = r.held /\ s.next = r.next
      /\ s.call = r.call /\ s.codex = FALSE /\ s.beat = r.beat
  BY <1>1 DEF Run
<1> HIDE DEF s
<1> QED BY <1>2, <1>3, FieldMoves

\* Ctrl-C.
LEMMA CancelMoves == ASSUME Proper, NEW c \in Client, Cancel(c) PROVE Moves
<1> DEFINE r == run[c]
           s == [r EXCEPT !.canceled = TRUE]
<1>1. r \in Run /\ run \in [Client -> Run]
  BY DEF Proper, RunsProper
<1>2. UNCHANGED <<home, calls>> /\ Quiet /\ run' = [run EXCEPT ![c] = s]
  BY <1>1 DEF Cancel
<1>3. /\ s \in Run /\ s.pc = r.pc /\ s.held = r.held /\ s.next = r.next
      /\ s.call = r.call /\ s.codex = r.codex /\ s.beat = r.beat
  BY <1>1 DEF Run
<1> HIDE DEF s
<1> QED BY <1>2, <1>3, FieldMoves

\* SIGKILL.
LEMMA KillMoves == ASSUME Proper, NEW c \in Client, Kill(c) PROVE Moves
<1>1. run' = [run EXCEPT ![c] = At(c, "killed")] /\ UNCHANGED calls /\ Ends
  BY DEF Kill
<1>2. /\ RunProper(c, At(c, "killed"), home[c], issued)
      /\ Follows(run[c], At(c, "killed")) /\ SwapsTo(run[c], At(c, "killed"))
  BY AtProper
<1> QED BY <1>1, <1>2, EndMoves

\* A call fails, wherever it was waited for.
LEMMA FailMoves == ASSUME Proper, NEW c \in Client, Fail(c) PROVE Moves
<1> DEFINE r == run[c]
           s == [AfterError(r) EXCEPT !.call = NoCall(c)]
<1>1. RunProper(c, r, home[c], issued)
  BY DEF Proper, RunsProper
<1>2. /\ r.call.kind # "none" /\ run' = [run EXCEPT ![c] = s]
      /\ calls' \subseteq calls /\ Ends
  BY DEF Fail, Waiting, Ends
<1>3. RunProper(c, s, home[c], issued) /\ Follows(r, s) /\ SwapsTo(r, s)
  BY <1>1, <1>2, AfterErrorGoes
<1> HIDE DEF s
<1> QED BY <1>2, <1>3, EndMoves

\* codex refreshes its auth: the home has the next version of the same account.
LEMMA CodexRotatesMoves == ASSUME Proper, NEW c \in Client, CodexRotates(c) PROVE Moves
<1> DEFINE r == run[c]
           a == home[c].of
           new == [home[c] EXCEPT !.version = @ + 1]
<1>1. RunProper(c, r, home[c], issued)
  BY DEF Proper, RunsProper
<1>2. /\ r.codex /\ home[c].version = minted[a] /\ minted[a] < MaxVersion
      /\ home' = [home EXCEPT ![c].version = @ + 1]
      /\ minted' = [minted EXCEPT ![a] = @ + 1]
      /\ UNCHANGED <<vars, run, calls, limits, silent>>
  BY DEF CodexRotates
<1>3. r.pc = "run" /\ Belongs(home[c], r.held.account)
  BY <1>1, <1>2 DEF RunProper, Leases
<1>4. a \in Account /\ minted[a] + 1 \in 1..MaxVersion
  BY <1>2, <1>3, VersionAssumption, RunAssumption DEF Belongs, Proper, WorldProper
<1>5. new \in Token /\ new.of = a
  BY <1>2, <1>3, <1>4, VersionAssumption DEF Belongs
<1>6. home' = [home EXCEPT ![c] = new]
  BY <1>2 DEF Proper, WorldProper
<1> HIDE DEF new
<1>7. home'[c] = new /\ \A d \in Client \ {c} : home'[d] = home[d]
  BY <1>6 DEF Proper, WorldProper
<1>8. WorldProper'
  BY <1>2, <1>4, <1>5, <1>6 DEF Proper, WorldProper
<1>9. RunProper(c, r, home'[c], issued) /\ Follows(r, r) /\ SwapsTo(r, r)
  BY <1>1, <1>3, <1>5, <1>7 DEF RunProper, Leases, Belongs, Follows, SwapsTo
<1>10. run' = [run EXCEPT ![c] = run[c]]
  BY <1>2 DEF Proper, RunsProper
<1>11. UNCHANGED vars /\ calls' \ calls = {} /\ \A d \in Client : silent'[d] = silent[d]
  BY <1>2
<1>12. Sends(c, r, issued)
  BY <1>11, SendsNone
<1> QED BY <1>7, <1>8, <1>9, <1>10, <1>11, <1>12, ClientMoves

\* codex logs its rate limits.
LEMMA CodexLogsMoves ==
    ASSUME Proper, NEW c \in Client, NEW result \in Reports, CodexLogs(c, result)
    PROVE  Moves
<1> DEFINE r == run[c]
           log == [of |-> home[c].of, result |-> result]
<1>1. RunProper(c, r, home[c], issued)
  BY DEF Proper, RunsProper
<1>2. /\ r.codex /\ limits' = [limits EXCEPT ![c] = log]
      /\ UNCHANGED <<vars, run, calls, home, minted, silent>>
  BY DEF CodexLogs
<1>3. home[c].of \in Account
  BY <1>1, <1>2, VersionAssumption DEF RunProper, Leases, Belongs
<1>4. log \in Limits
  BY <1>3, ResultAssumption DEF Limits
<1> HIDE DEF log
<1>5. WorldProper'
  BY <1>2, <1>4 DEF Proper, WorldProper
<1>6. RunProper(c, r, home'[c], issued) /\ Follows(r, r) /\ SwapsTo(r, r)
  BY <1>1, <1>2 DEF Follows, SwapsTo
<1>7. run' = [run EXCEPT ![c] = run[c]]
  BY <1>2 DEF Proper, RunsProper
<1>8. UNCHANGED <<vars, home>> /\ calls' \ calls = {}
      /\ \A d \in Client : silent'[d] = silent[d]
  BY <1>2
<1>9. Sends(c, r, issued)
  BY <1>8, SendsNone
<1> QED BY <1>5, <1>6, <1>7, <1>8, <1>9, ClientMoves


-----------------------------------------------------------------------------
(* The server's answers                                                    *)

\* A call under way, and the run it comes from.
LEMMA CallIs ==
    ASSUME Proper, NEW call \in calls
    PROVE  /\ call \in Call /\ call.client \in Client /\ call.kind # "none"
           /\ call.kind # "claim" => /\ Issued(call.grant, issued)
                                     /\ call.grant.account \in Account
                                     /\ call.grant.lease \in 1..issued
                                     /\ call.grant.lease \in Nat \ {0}
           /\ call.kind = "upload" => Belongs(call.grant.token, call.grant.account)
           /\ RunProper(call.client, run[call.client], home[call.client], issued)
<1>1. CallProper(call, issued) /\ issued \in Nat
  BY DEF Proper, CallsProper, ServerProper, TypeOK
<1>2. call \in Call /\ call.client \in Client
  BY <1>1 DEF CallProper, Call
<1>3. RunProper(call.client, run[call.client], home[call.client], issued)
  BY <1>2 DEF Proper, RunsProper
<1> QED BY <1>1, <1>2, <1>3 DEF CallProper, Issued

\* An answer that ends no run leaves the world as it is, but for what the
\* client has heard.
LEMMA HeardWorld ==
    ASSUME WorldProper, NEW heard, Silence(heard), UNCHANGED <<home, limits, minted>>
    PROVE  /\ WorldProper'
           /\ \A d \in Client : home'[d] = home[d] \/ run'[d].pc \in Over
           /\ \A d \in Client :
                 IF d \in heard THEN silent'[d] = 0
                 ELSE silent'[d] = silent[d] \/ run'[d].pc \in Over
<1>1. 0 \in 0..(HeartbeatInterval + 1)
  BY RunAssumption
<1>2. silent' \in [Client -> 0..(HeartbeatInterval + 1)]
  BY <1>1 DEF Silence, WorldProper
<1>3. \A d \in Client : IF d \in heard THEN silent'[d] = 0
                        ELSE silent'[d] = silent[d] \/ run'[d].pc \in Over
  BY DEF Silence, Gone
<1> QED BY <1>2, <1>3 DEF WorldProper

\* What a client does with the answer it has waited for: it goes on with the
\* lease it had, renewed or not, or with one that was granted to it.
Takes(c, s, heard) ==
    /\ RunProper(c, s, home[c], issued') /\ SwapsTo(run[c], s)
    /\ \/ Follows(run[c], s) /\ (heard = {} \/ Renewed(c))
       \/ /\ Renewed(c)
          /\ \A call \in calls : call.kind = "release" =>
                call.grant.lease # Current(s).lease

\* An answer, and what its client does if it still waits for it.
LEMMA AnswerMoves ==
    ASSUME Proper, Served, WorldProper', NEW call \in calls,
           NEW c \in Client, c = call.client,
           NEW after, Answer(call, after),
           NEW s, s = [after EXCEPT !.call = NoCall(c)],
           \A d \in Client : home'[d] = home[d] \/ run'[d].pc \in Over,
           NEW heard, heard \subseteq {c},
           \A d \in Client : IF d \in heard THEN silent'[d] = 0
                             ELSE silent'[d] = silent[d] \/ run'[d].pc \in Over,
           \A d \in Client : run[d].pc \in WorkingPC => Keeps(d),
           Awaited(call) => Takes(c, s, heard),
           ~ Awaited(call) => heard = {}
    PROVE  Moves
<1>1. run \in [Client -> Run] /\ RunProper(c, run[c], home[c], issued)
      /\ issued \in Nat /\ issued' \in Nat /\ issued <= issued'
  BY DEF Proper, RunsProper, Served, ServerProper, TypeOK
<1>2. calls' \ calls = {}
  BY DEF Answer
<1>3. PICK t : run' = [run EXCEPT ![c] = t] /\ Takes(c, t, heard)
  <2>1. CASE Awaited(call)
    BY <2>1 DEF Answer
  <2>2. CASE ~ Awaited(call)
    <3>1. run' = [run EXCEPT ![c] = run[c]]
      BY <1>1, <2>2 DEF Answer
    <3>2. RunProper(c, run[c], home[c], issued')
      BY <1>1, MoreIssued
    <3>3. Takes(c, run[c], heard)
      BY <2>2, <3>2 DEF Takes, SwapsTo, Follows
    <3> QED BY <3>1, <3>3
  <2> QED BY <2>1, <2>2
<1>4. run'[c] = t /\ \A d \in Client \ {c} : run'[d] = run[d]
  BY <1>1, <1>3
<1>5. RunProper(c, t, home'[c], issued')
  BY <1>3, <1>4, OtherHome DEF Over, Takes
<1>6. \A d \in Client \ {c} : home'[d] = home[d] \/ run[d].pc # "run"
  BY <1>4 DEF Over
<1>7. Spares(c, t)
  BY <1>3 DEF Takes, Follows, Proper, ReleasesOver, Spares
<1>8. Proper'
  <2>1. Sends(c, t, issued')
    BY <1>2, SendsNone
  <2> QED BY <2>1, <1>3, <1>5, <1>6, <1>7, OneRunProper
<1>9. \A d \in Client : silent'[d] = silent[d] \/ d = c \/ run[d].pc \in Over
  BY <1>4
<1>10. \/ Follows(run[c], t) /\ (silent'[c] = silent[c] \/ t.pc \in Over)
       \/ Renewed(c)
  BY <1>3, <1>4 DEF Takes
<1>11. \A d \in Client : Goes(d)
  BY <1>1, <1>3, <1>9, <1>10, OneRunGoes DEF Takes
<1> QED BY <1>8, <1>11 DEF Moves

\* A claim begins.
LEMMA ServeClaimStartMoves ==
    ASSUME Proper, NEW call \in calls, ServeClaimStart(call)
    PROVE  Moves
<1>1. ClaimStart(call.client) /\ UNCHANGED runVars
  BY DEF ServeClaimStart
<1>2. Served /\ \A a \in Account : Stands(a)
  BY <1>1, CallIs, ClaimStartServed DEF Proper
<1>3. WorldProper' /\ calls' \ calls = {} /\ UNCHANGED <<run, home, silent>>
  BY <1>1 DEF runVars, Proper, WorldProper
<1>4. \A d \in Client : run[d].pc \in WorkingPC => Keeps(d)
  BY <1>2, AllKept
<1> QED BY <1>2, <1>3, <1>4, NoRunProper, NoRunGoes DEF Moves


\* The client is told that its call has failed.
LEMMA ErrorMoves ==
    ASSUME Proper, Served, WorldProper', NEW call \in calls,
           Answer(call, AfterError(run[call.client])),
           \A d \in Client : home'[d] = home[d] \/ run'[d].pc \in Over,
           \A d \in Client : silent'[d] = silent[d] \/ run'[d].pc \in Over,
           \A d \in Client : run[d].pc \in WorkingPC => Keeps(d)
    PROVE  Moves
<1> DEFINE c == call.client
           s == [AfterError(run[c]) EXCEPT !.call = NoCall(c)]
<1>1. c \in Client /\ call.kind # "none" /\ RunProper(c, run[c], home[c], issued)
  BY CallIs
<1>2. issued \in Nat /\ issued' \in Nat /\ issued <= issued'
  BY DEF Proper, Served, ServerProper, TypeOK
<1> DEFINE heard == {}
<1>3. ASSUME Awaited(call) PROVE Takes(c, s, heard)
  <2>1. RunProper(c, s, home[c], issued) /\ Follows(run[c], s) /\ SwapsTo(run[c], s)
    BY <1>1, <1>3, AfterErrorGoes DEF Awaited
  <2>2. RunProper(c, s, home[c], issued')
    BY <1>2, <2>1, MoreIssued
  <2> QED BY <2>1, <2>2 DEF Takes
<1>4. /\ Answer(call, AfterError(run[c])) /\ c = call.client
      /\ s = [AfterError(run[c]) EXCEPT !.call = NoCall(c)]
  OBVIOUS
<1> HIDE DEF s, c
<1>5. /\ heard \subseteq {c} /\ heard = {}
      /\ \A d \in Client : IF d \in heard THEN silent'[d] = 0
                           ELSE silent'[d] = silent[d] \/ run'[d].pc \in Over
  OBVIOUS
<1> HIDE DEF heard
<1> QED BY <1>1, <1>3, <1>4, <1>5, AnswerMoves

\* A heartbeat is answered.
LEMMA ServeBeatMoves ==
    ASSUME Proper, NEW call \in calls, ServeBeat(call)
    PROVE  Moves
<1>1. PICK c, l, a : c = call.client /\ l = call.grant.lease /\ a = call.grant.account
  OBVIOUS
<1>2. PICK r : r = run[c]
  OBVIOUS
<1>3. /\ c \in Client /\ l \in Nat \ {0} /\ a \in Account /\ call.kind = "beat"
      /\ RunProper(c, r, home[c], issued)
  BY <1>1, <1>2, CallIs DEF ServeBeat
<1>4. UNCHANGED <<home, limits, minted>>
  BY DEF ServeBeat
<1>5. CASE ~ Holder(call)
  <2>1. /\ RefusedLeaseCall /\ Answer(call, AfterError(run[c])) /\ Silence({})
    BY <1>1, <1>2, <1>5 DEF ServeBeat, Heard
  <2>2. Served /\ \A b \in Account : Stands(b)
    BY <2>1, RefusedServed DEF Proper
  <2>3. \A d \in Client : run[d].pc \in WorkingPC => Keeps(d)
    BY <2>2, AllKept
  <2>4. /\ WorldProper'
        /\ \A d \in Client : home'[d] = home[d] \/ run'[d].pc \in Over
        /\ \A d \in Client : silent'[d] = silent[d] \/ run'[d].pc \in Over
    BY <1>4, <2>1, HeardWorld DEF Proper
  <2> QED BY <1>1, <2>1, <2>2, <2>3, <2>4, ErrorMoves
<1>6. CASE Holder(call)
  <2> DEFINE hint == ShouldSwap(cache[a].result)
             after == [r EXCEPT !.beat = "check", !.hint = hint,
                                !.held.generation = acct[a].generation]
             s == [after EXCEPT !.call = NoCall(c)]
             heard == IF Awaited(call) THEN {c} ELSE {}
  <2>1. /\ Touch(c, l, a, leaseTTL) /\ Answer(call, after) /\ Silence(heard)
    BY <1>1, <1>2, <1>6 DEF ServeBeat, Heard
  <2>2. /\ Served /\ \A b \in Account : Stands(b)
        /\ acct'[a].lease = l /\ acct'[a].client = c /\ acct'[a].left >= DefaultTTL
        /\ UNCHANGED issued
    BY <1>3, <2>1, TouchServed DEF Proper
  <2>3. \A d \in Client : run[d].pc \in WorkingPC => Keeps(d)
    BY <2>2, AllKept
  <2>4. /\ WorldProper'
        /\ \A d \in Client : home'[d] = home[d] \/ run'[d].pc \in Over
        /\ \A d \in Client : IF d \in heard THEN silent'[d] = 0
                             ELSE silent'[d] = silent[d] \/ run'[d].pc \in Over
    BY <1>4, <2>1, HeardWorld DEF Proper
  <2>5. hint \in BOOLEAN
    BY DEF ShouldSwap
  <2>6. acct[a].generation \in Nat
    BY <1>3 DEF Proper, ServerProper, TypeOK, AccountRow
  <2> HIDE DEF hint
  <2>7. [r.held EXCEPT !.generation = acct[a].generation] \in Grant
    BY <1>3, <2>6 DEF RunProper, Run, Grant
  <2>8. /\ s \in Run /\ s.pc = r.pc /\ s.beat = "check" /\ s.codex = r.codex
        /\ s.held = [r.held EXCEPT !.generation = acct[a].generation]
        /\ s.next = r.next /\ s.call = NoCall(c)
    BY <1>3, <2>5, <2>7, NothingType DEF RunProper, Run, BeatPC
  <2>9. s = [after EXCEPT !.call = NoCall(c)]
    OBVIOUS
  <2> HIDE DEF s, after
  <2>10. s.held.lease = r.held.lease /\ s.held.account = r.held.account
    BY <1>3, <2>8 DEF RunProper, Run, Grant
  <2>11. ASSUME Awaited(call) PROVE Takes(c, s, heard)
    <3>1. /\ r.pc = "run" /\ r.beat = "beat"
          /\ l = r.held.lease /\ a = r.held.account
      BY <1>1, <1>2, <1>3, <2>11 DEF Awaited, RunProper, Expects, Leases
    <3>2. RunProper(c, s, home[c], issued')
      BY <1>3, <2>2, <2>8, <2>10, <3>1, NothingType
         DEF RunProper, Expects, Leases, Issued, LeasedPC
    <3>3. Follows(run[c], s) /\ SwapsTo(run[c], s)
      BY <1>2, <2>8, <2>10, <3>1 DEF Follows, SwapsTo, WorkingPC, LeasedPC, Current
    <3>4. run'[c] = s /\ silent'[c] = 0
      BY <1>1, <1>3, <2>1, <2>4, <2>9, <2>11 DEF Answer, Proper, RunsProper
    <3>5. Current(s).account = a /\ Current(s).lease = l
      BY <2>8, <2>10, <3>1 DEF Current
    <3>6. Renewed(c)
      BY <2>2, <3>4, <3>5 DEF Renewed
    <3> QED BY <3>2, <3>3, <3>6 DEF Takes
  <2>12. heard \subseteq {c} /\ (~ Awaited(call) => heard = {})
    OBVIOUS
  <2> HIDE DEF heard
  <2> QED BY <1>1, <1>3, <2>1, <2>2, <2>3, <2>4, <2>9, <2>11, <2>12, AnswerMoves
<1> QED BY <1>5, <1>6


\* An upload is answered.
LEMMA ServeUploadMoves ==
    ASSUME Proper, NEW call \in calls, ServeUpload(call)
    PROVE  Moves
<1>1. PICK c, l, a, g, token :
         /\ c = call.client /\ l = call.grant.lease /\ a = call.grant.account
         /\ g = call.grant.generation /\ token = call.grant.token
  OBVIOUS
<1>2. PICK r : r = run[c]
  OBVIOUS
<1>3. /\ c \in Client /\ l \in Nat \ {0} /\ a \in Account /\ call.kind = "upload"
      /\ Belongs(token, a) /\ RunProper(c, r, home[c], issued)
  BY <1>1, <1>2, CallIs DEF ServeUpload
<1>4. UNCHANGED <<home, limits, minted>>
  BY DEF ServeUpload
<1> DEFINE renewed == Holder(call) /\ g = acct[a].generation
<1>5. ASSUME ~ renewed, RefusedLeaseCall \/ UNCHANGED vars,
             Answer(call, AfterError(run[c])), Heard(call, renewed)
      PROVE  Moves
  <2>1. Silence({})
    BY <1>5 DEF Heard
  <2>2. Served /\ \A b \in Account : Stands(b)
    BY <1>5, RefusedServed, ClientServed DEF Proper
  <2>3. \A d \in Client : run[d].pc \in WorkingPC => Keeps(d)
    BY <2>2, AllKept
  <2>4. /\ WorldProper'
        /\ \A d \in Client : home'[d] = home[d] \/ run'[d].pc \in Over
        /\ \A d \in Client : silent'[d] = silent[d] \/ run'[d].pc \in Over
    BY <1>4, <2>1, HeardWorld DEF Proper
  <2> QED BY <1>1, <1>5, <2>2, <2>3, <2>4, ErrorMoves
<1>6. ASSUME renewed, Upload(c, l, a, g, token, "ready"),
             Answer(call, Uploaded(r, call)), Heard(call, renewed)
      PROVE  Moves
  <2> DEFINE after == Uploaded(r, call)
             s == [after EXCEPT !.call = NoCall(c)]
             heard == IF Awaited(call) THEN {c} ELSE {}
  <2>1. Silence(heard) /\ Answer(call, after)
    BY <1>1, <1>6 DEF Heard
  <2>2. /\ Served /\ \A b \in Account : Stands(b)
        /\ acct'[a].lease = l /\ acct'[a].client = c /\ acct'[a].left >= DefaultTTL
        /\ UNCHANGED issued
    BY <1>3, <1>6, UploadServed DEF Proper
  <2>3. \A d \in Client : run[d].pc \in WorkingPC => Keeps(d)
    BY <2>2, AllKept
  <2>4. /\ WorldProper'
        /\ \A d \in Client : home'[d] = home[d] \/ run'[d].pc \in Over
        /\ \A d \in Client : IF d \in heard THEN silent'[d] = 0
                             ELSE silent'[d] = silent[d] \/ run'[d].pc \in Over
    BY <1>4, <2>1, HeardWorld DEF Proper
  <2>5. g \in Nat /\ token \in Token
    BY <1>1, <1>3, CallIs DEF Call, Grant, Belongs
  <2> DEFINE held == [r.held EXCEPT !.generation = g + 1]
  <2>6. held \in Grant
    BY <1>3, <2>5 DEF RunProper, Run, Grant
  <2>7. held.lease = r.held.lease /\ held.account = r.held.account
    BY <1>3 DEF RunProper, Run, Grant
  <2>8. /\ s \in Run /\ s.codex = r.codex /\ s.held = held
        /\ s.next = r.next /\ s.call = NoCall(c)
        /\ r.pc = "final" => s.pc = "finished"
        /\ r.pc # "final" => s.pc = r.pc /\ s.beat = "decide"
    <3>1. CASE r.pc = "final"
      <4>1. s = [r EXCEPT !.held = held, !.pc = "finished", !.call = NoCall(c)]
        BY <1>1, <3>1 DEF Uploaded
      <4> HIDE DEF s, held
      <4> QED BY <1>3, <2>6, <3>1, <4>1, NothingType DEF RunProper, Run, PC
    <3>2. CASE r.pc # "final"
      <4>1. s = [r EXCEPT !.held = held, !.beat = "decide", !.known = token,
                          !.call = NoCall(c)]
        BY <1>1, <3>2 DEF Uploaded
      <4> HIDE DEF s, held
      <4> QED BY <1>3, <2>5, <2>6, <3>2, <4>1, NothingType DEF RunProper, Run, BeatPC
    <3> QED BY <3>1, <3>2
  <2>9. s = [after EXCEPT !.call = NoCall(c)]
    OBVIOUS
  <2> HIDE DEF s, after, held
  <2>11. ASSUME Awaited(call) PROVE Takes(c, s, heard)
    <3>1. /\ r.pc = "final" \/ (r.pc = "run" /\ r.beat = "push")
          /\ l = r.held.lease /\ a = r.held.account
      BY <1>1, <1>2, <1>3, <2>11 DEF Awaited, RunProper, Expects, Leases
    <3>2. RunProper(c, s, home[c], issued')
      BY <1>3, <2>2, <2>7, <2>8, <3>1, NothingType
         DEF RunProper, Expects, Leases, Issued, LeasedPC
    <3>3. Follows(run[c], s) /\ SwapsTo(run[c], s)
      BY <1>2, <2>7, <2>8, <3>1 DEF Follows, SwapsTo, WorkingPC, LeasedPC, Current
    <3>4. run'[c] = s /\ silent'[c] = 0
      BY <1>1, <1>3, <2>1, <2>4, <2>9, <2>11 DEF Answer, Proper, RunsProper
    <3>5. Current(s).account = a /\ Current(s).lease = l
      BY <2>7, <2>8, <3>1 DEF Current
    <3>6. Renewed(c)
      BY <2>2, <3>4, <3>5 DEF Renewed
    <3> QED BY <3>2, <3>3, <3>6 DEF Takes
  <2>12. heard \subseteq {c} /\ (~ Awaited(call) => heard = {})
    OBVIOUS
  <2> HIDE DEF heard
  <2> QED BY <1>1, <1>3, <2>1, <2>2, <2>3, <2>4, <2>9, <2>11, <2>12, AnswerMoves
<1>7. /\ Heard(call, renewed)
      /\ \/ renewed /\ Upload(c, l, a, g, token, "ready")
            /\ Answer(call, Uploaded(r, call))
         \/ ~ renewed /\ (RefusedLeaseCall \/ UNCHANGED vars)
            /\ Answer(call, AfterError(run[c]))
  BY <1>1, <1>2 DEF ServeUpload, Upload, Holder
<1> QED BY <1>5, <1>6, <1>7

\* A release takes the lease off its row, and off that of no other run: the
\* one that has asked is through with it.
LEMMA ReleaseKeeps ==
    ASSUME Proper, NEW call \in calls, call.kind = "release",
           Release(call.client, call.grant.lease, call.grant.account)
    PROVE  Served /\ \A d \in Client : run[d].pc \in WorkingPC => Keeps(d)
<1>1. PICK c, l, a : c = call.client /\ l = call.grant.lease /\ a = call.grant.account
  OBVIOUS
<1>2. c \in Client /\ l \in 1..issued /\ a \in Account
  BY <1>1, CallIs
<1>3. /\ Served /\ \A b \in Account \ {a} : Stands(b)
      /\ acct[a].lease = l /\ acct[a].client = c
      /\ acct'[a].owner = acct[a].owner
  BY <1>1, <1>2, ReleaseServed DEF Proper
<1>4. ASSUME NEW d \in Client, run[d].pc \in WorkingPC PROVE Keeps(d)
  <2>1. PICK now : now = Current(run[d])
    OBVIOUS
  <2>2. now.account \in Account
    BY <1>4, <2>1
       DEF Proper, RunsProper, RunProper, Leases, Issued, Current, WorkingPC, LeasedPC
  <2>3. CASE now.account # a
    BY <1>3, <2>1, <2>2, <2>3 DEF Keeps, Stands
  <2>4. CASE now.account = a
    <3>1. d = c => l # now.lease
      BY <1>1, <1>4, <2>1 DEF Proper, ReleasesOver
    <3>2. ~ (acct[now.account].lease = now.lease /\ acct[now.account].client = d)
      BY <1>3, <2>4, <3>1
    <3> QED BY <1>3, <2>1, <2>4, <3>2 DEF Keeps
  <2> QED BY <2>3, <2>4
<1> QED BY <1>3, <1>4

\* A release is answered, whatever came of it.
LEMMA ServeReleaseMoves ==
    ASSUME Proper, NEW call \in calls, ServeRelease(call)
    PROVE  Moves
<1>1. /\ call.kind = "release" /\ Answer(call, AfterError(run[call.client]))
      /\ Scrub /\ Silence({}) /\ UNCHANGED minted
      /\ \/ Release(call.client, call.grant.lease, call.grant.account)
         \/ RefusedLeaseCall
  BY DEF ServeRelease
<1>2. Served /\ \A d \in Client : run[d].pc \in WorkingPC => Keeps(d)
  <2>1. CASE RefusedLeaseCall
    <3>1. Served /\ \A b \in Account : Stands(b)
      BY <2>1, RefusedServed DEF Proper
    <3> QED BY <3>1, AllKept
  <2> QED BY <1>1, <2>1, ReleaseKeeps
<1>3. /\ WorldProper'
      /\ \A d \in Client : home'[d] = home[d] \/ run'[d].pc \in Over
      /\ \A d \in Client : silent'[d] = silent[d] \/ run'[d].pc \in Over
  BY <1>1, ScrubWorld DEF Proper
<1> QED BY <1>1, <1>2, <1>3, ErrorMoves


\* The first half of a heartbeat: the reported windows are stored, or not, and
\* the call goes on as a beat.
LEMMA ServeReportMoves ==
    ASSUME Proper, NEW call \in calls, ServeReport(call)
    PROVE  Moves
<1> DEFINE c == call.client
           beat == [call EXCEPT !.kind = "beat"]
           s == [run[c] EXCEPT !.call = beat]
<1>1. /\ call.kind = "report" /\ calls' = (calls \ {call}) \cup {beat}
      /\ run' = IF Awaited(call) THEN [run EXCEPT ![c].call = beat] ELSE run
      /\ UNCHANGED <<home, limits, minted, silent>>
  BY DEF ServeReport
<1>2. /\ call \in Call /\ c \in Client /\ call.grant.account \in Account
      /\ Issued(call.grant, issued) /\ RunProper(c, run[c], home[c], issued)
  BY <1>1, CallIs
<1>3. Served /\ UNCHANGED issued /\ \A a \in Account : Stands(a)
  <2>1. CASE UNCHANGED vars
    BY <2>1, ClientServed
  <2>2. CASE RecordLeasedQuota(c, call.grant.lease, call.grant.account, call.limits.result)
    <3>1. call.limits.result \in Result
      BY <1>2 DEF Call, Limits
    <3> QED BY <1>2, <2>2, <3>1, ReportServed DEF Proper
  <2> QED BY <2>1, <2>2 DEF ServeReport
<1>4. /\ beat \in Call /\ beat.kind = "beat" /\ beat.client = c
      /\ beat.grant = call.grant
  BY <1>2 DEF Call, Kind
<1> HIDE DEF beat
<1>5. CallProper(beat, issued)
  BY <1>2, <1>4 DEF CallProper
<1>6. run \in [Client -> Run] /\ run[c] \in Run
  BY <1>2 DEF Proper, RunsProper
<1>7. PICK t : /\ run' = [run EXCEPT ![c] = t] /\ RunProper(c, t, home[c], issued)
               /\ Follows(run[c], t) /\ SwapsTo(run[c], t)
  <2>1. CASE Awaited(call)
    <3>1. run' = [run EXCEPT ![c] = s]
      BY <1>1, <1>6, <2>1
    <3>2. /\ s \in Run /\ s.pc = run[c].pc /\ s.beat = run[c].beat
          /\ s.codex = run[c].codex /\ s.held = run[c].held /\ s.next = run[c].next
          /\ s.call = beat
      BY <1>4, <1>6 DEF Run
    <3> HIDE DEF s
    <3>3. run[c].call = call
      BY <2>1 DEF Awaited
    <3>4. RunProper(c, s, home[c], issued) /\ Follows(run[c], s) /\ SwapsTo(run[c], s)
      BY <1>1, <1>2, <1>4, <3>2, <3>3
         DEF RunProper, Expects, Leases, Follows, SwapsTo, Current
    <3> QED BY <3>1, <3>4
  <2>2. CASE ~ Awaited(call)
    <3>1. run' = [run EXCEPT ![c] = run[c]]
      BY <1>1, <1>6, <2>2
    <3>2. Follows(run[c], run[c]) /\ SwapsTo(run[c], run[c])
      BY DEF Follows, SwapsTo
    <3> QED BY <1>2, <3>1, <3>2
  <2> QED BY <2>1, <2>2
<1>8. Spares(c, t)
  BY <1>7 DEF Follows, Proper, ReleasesOver, Spares
<1>9. WorldProper' /\ UNCHANGED <<home, silent>>
  BY <1>1 DEF Proper, WorldProper
<1>10. Sends(c, t, issued')
  BY <1>1, <1>3, <1>4, <1>5 DEF Sends
<1>11. RunProper(c, t, home'[c], issued')
  BY <1>3, <1>7, <1>9
<1> HIDE DEF c
<1>12. Proper'
  BY <1>2, <1>3, <1>7, <1>8, <1>9, <1>10, <1>11, OneRunProper
<1>13. \A d \in Client : run[d].pc \in WorkingPC => Keeps(d)
  BY <1>3, AllKept
<1>14. \A d \in Client : Goes(d)
  BY <1>2, <1>6, <1>7, <1>9, <1>13, OneRunGoes
<1> QED BY <1>12, <1>14 DEF Moves

\* A claim is answered: refused, or with a lease on an account that nobody had.
LEMMA ServeClaimMoves ==
    ASSUME Proper, NEW call \in calls, ServeClaim(call)
    PROVE  Moves
<1>1. PICK c : c = call.client
  OBVIOUS
<1>2. PICK r : r = run[c]
  OBVIOUS
<1> DEFINE grant == [lease |-> issued', account |-> last', token |-> auth[last'],
                     generation |-> acct[last'].generation]
           after == IF issued' = issued THEN AfterError(run[c]) ELSE Granted(r, grant)
           heard == IF issued' # issued /\ Awaited(call) THEN {c} ELSE {}
<1>3. /\ call.kind = "claim" /\ Claim(c, DefaultWorkspace, leaseTTL)
      /\ Answer(call, after) /\ Silence(heard) /\ Scrub /\ UNCHANGED minted
  BY <1>1, <1>2 DEF ServeClaim, Heard
<1>4. c \in Client /\ RunProper(c, r, home[c], issued)
  BY <1>1, <1>2, CallIs
<1>5. /\ Served /\ \A a \in Account : Stands(a)
      /\ issued' # issued =>
            /\ issued' = issued + 1 /\ last' \in Account
            /\ acct'[last'].lease = issued' /\ acct'[last'].client = c
            /\ acct'[last'].left >= DefaultTTL
            /\ acct[last'].owner = "cloud" /\ ~ Active(acct[last'])
  BY <1>3, <1>4, ClaimServed DEF Proper
<1>6. \A d \in Client : run[d].pc \in WorkingPC => Keeps(d)
  BY <1>5, AllKept
<1>7. /\ WorldProper'
      /\ \A d \in Client : home'[d] = home[d] \/ run'[d].pc \in Over
      /\ \A d \in Client : IF d \in heard THEN silent'[d] = 0
                           ELSE silent'[d] = silent[d] \/ run'[d].pc \in Over
  BY <1>3, ScrubWorld DEF Proper
<1>8. CASE issued' = issued
  <2>1. Answer(call, AfterError(run[c])) /\ heard = {}
    BY <1>3, <1>8
  <2> QED BY <1>1, <1>5, <1>6, <1>7, <2>1, ErrorMoves
<1>9. CASE issued' # issued
  <2>1. /\ issued \in Nat /\ issued' \in Nat /\ issued' = issued + 1 /\ issued <= issued'
        /\ last' \in Account /\ acct[last'].generation \in Nat
        /\ Belongs(auth[last'], last')
    BY <1>5, <1>9 DEF Proper, ServerProper, TypeOK, Served, AccountRow
  <2>2. /\ grant \in Grant /\ grant.lease = issued' /\ grant.account = last'
        /\ grant.token = auth[last'] /\ Belongs(grant.token, last')
        /\ Issued(grant, issued')
    BY <2>1 DEF Grant, Belongs, Issued
  <2>3. after = Granted(r, grant)
    BY <1>9
  <2> HIDE DEF grant, after
  <2> DEFINE s == [after EXCEPT !.call = NoCall(c)]
  <2>4. ASSUME Awaited(call) PROVE Takes(c, s, heard)
    <3>1. r.call = call /\ r.pc \in {"claim", "swapclaim"} /\ r \in Run
      BY <1>1, <1>2, <1>3, <1>4, <2>4 DEF Awaited, RunProper, Expects
    <3>2. /\ s \in Run /\ s.call = NoCall(c) /\ s.codex = r.codex /\ Current(s) = grant
          /\ r.pc = "claim" => s.pc = "setup" /\ s.held = grant
          /\ r.pc = "swapclaim" => /\ s.pc = "swaprelease" /\ s.held = r.held
                                   /\ s.next = grant
      <4>1. CASE r.pc = "claim"
        <5>1. s = [r EXCEPT !.pc = "setup", !.held = grant, !.call = NoCall(c)]
          BY <2>3, <4>1 DEF Granted
        <5> HIDE DEF s
        <5> QED BY <1>4, <2>2, <3>1, <4>1, <5>1, NothingType DEF Run, PC, Current
      <4>2. CASE r.pc = "swapclaim"
        <5>1. s = [r EXCEPT !.pc = "swaprelease", !.next = grant, !.resumed = TRUE,
                            !.call = NoCall(c)]
          BY <2>3, <4>2 DEF Granted
        <5> HIDE DEF s
        <5> QED BY <1>4, <2>2, <3>1, <4>2, <5>1, NothingType DEF Run, PC, Current
      <4> QED BY <3>1, <4>1, <4>2
    <3>3. run'[c] = s /\ silent'[c] = 0
      BY <1>1, <1>3, <1>4, <1>7, <1>9, <2>4 DEF Answer, Proper, RunsProper
    <3> HIDE DEF s, heard
    <3>4. r.pc = "swapclaim" => /\ Issued(r.held, issued) /\ Issued(r.held, issued')
                                /\ r.held.lease # grant.lease
      BY <1>4, <2>1, <2>2 DEF RunProper, Leases, LeasedPC, Issued
    <3>5. RunProper(c, s, home[c], issued')
      BY <1>4, <2>2, <3>1, <3>2, <3>4, NothingType DEF RunProper, Expects, Leases, LeasedPC
    <3>6. SwapsTo(run[c], s)
      BY <1>2, <1>5, <1>9, <2>2, <3>1, <3>2 DEF SwapsTo
    <3>7. Renewed(c)
      BY <1>5, <1>9, <2>2, <3>2, <3>3 DEF Renewed
    <3>8. \A old \in calls : old.kind = "release" => old.grant.lease # Current(s).lease
      BY <2>1, <2>2, <3>2, CallIs
    <3> QED BY <3>5, <3>6, <3>7, <3>8 DEF Takes
  <2>5. heard \subseteq {c} /\ (~ Awaited(call) => heard = {})
    OBVIOUS
  <2>6. s = [after EXCEPT !.call = NoCall(c)]
    OBVIOUS
  <2> HIDE DEF s, heard
  <2> QED BY <1>1, <1>3, <1>4, <1>5, <1>6, <1>7, <2>4, <2>5, <2>6, AnswerMoves
<1> QED BY <1>8, <1>9


-----------------------------------------------------------------------------
(* The other steps                                                         *)

\* A step at the server that no client hears of.
LEMMA UnheardMoves ==
    ASSUME Proper, Served, \A a \in Account : Stands(a),
           UNCHANGED <<run, home, limits, silent>>,
           minted' \in [Account -> 1..MaxVersion], calls' \subseteq calls
    PROVE  Moves
<1>1. WorldProper' /\ calls' \ calls = {}
  BY DEF Proper, WorldProper
<1>2. Proper'
  BY <1>1, NoRunProper
<1>3. \A d \in Client : run[d].pc \in WorkingPC => Keeps(d)
  BY AllKept
<1>4. \A d \in Client : Goes(d)
  BY <1>3, NoRunGoes
<1> QED BY <1>2, <1>4 DEF Moves

\* A step of a probe.
LEMMA ProbeMoves == ASSUME Proper, NEW p \in Prober, Probe(p) PROVE Moves
<1>1. ServerProper /\ minted \in [Account -> 1..MaxVersion]
  BY DEF Proper, WorldProper
<1>2. /\ Served /\ \A a \in Account : Stands(a)
      /\ minted' \in [Account -> 1..MaxVersion]
      /\ UNCHANGED <<run, calls, home, limits, silent>>
  BY <1>1, ProbeServed
<1> QED BY <1>2, UnheardMoves

\* An account is given away.
LEMMA GiveAwayMoves == ASSUME Proper, NEW a \in Account, GiveAway(a) PROVE Moves
<1>1. Served /\ UNCHANGED runVars /\ \A b \in Account : Stands(b)
  BY GiveAwayServed DEF Proper
<1>2. /\ minted' \in [Account -> 1..MaxVersion] /\ calls' \subseteq calls
      /\ UNCHANGED <<run, home, limits, silent>>
  BY <1>1 DEF runVars, Proper, WorldProper
<1> QED BY <1>1, <1>2, UnheardMoves

\* The server dies.
LEMMA ServerCrashMoves == ASSUME Proper, ServerCrash PROVE Moves
<1>1. ASSUME NEW call \in calls, call.kind = "upload",
             CrashBeforeSave(call.grant.account, call.grant.token)
      PROVE  \E a \in Account, token \in Token :
                 Belongs(token, a) /\ CrashBeforeSave(a, token)
  BY <1>1, CallIs DEF Belongs
<1>2. Served /\ \A a \in Account : Stands(a)
  BY <1>1, CrashServed DEF ServerCrash, Proper
<1>3. /\ minted' \in [Account -> 1..MaxVersion] /\ calls' \subseteq calls
      /\ UNCHANGED <<run, home, limits, silent>>
  BY DEF ServerCrash, Proper, WorldProper
<1> QED BY <1>2, <1>3, UnheardMoves

\* No step at all.
LEMMA RestMoves == ASSUME Proper, UNCHANGED allVars PROVE Moves
<1>1. UNCHANGED vars
  BY DEF allVars
<1>2. Served /\ \A a \in Account : Stands(a)
  BY <1>1, ClientServed
<1>3. /\ minted' \in [Account -> 1..MaxVersion] /\ calls' \subseteq calls
      /\ UNCHANGED <<run, home, limits, silent>>
  BY DEF allVars, runVars, Proper, WorldProper
<1> QED BY <1>2, <1>3, UnheardMoves

\* Every step but a tick.
LEMMA StepMoves ==
    ASSUME Proper, [RunNext]_allVars PROVE Moves \/ PassTick
<1>1. ASSUME NEW c \in Client,
             \/ Start(c) \/ MainStep(c) \/ Beat(c) \/ BeatStep(c) \/ Fail(c)
             \/ CodexRotates(c) \/ CodexExits(c) \/ Cancel(c) \/ Kill(c)
             \/ \E result \in Reports : CodexLogs(c, result)
      PROVE  Moves
  BY <1>1, StartMoves, SetupMoves, SetupFailsMoves, JoinMoves, FinishMoves,
     ReleaseOldMoves, CleanupMoves, BeatMoves, CheckMoves, DecideMoves, FailMoves,
     CodexRotatesMoves, CodexExitsMoves, CancelMoves, KillMoves, CodexLogsMoves
     DEF MainStep, BeatStep
<1>2. ASSUME NEW call \in calls, ServeClaimStart(call) \/ Serve(call)
      PROVE  Moves
  BY <1>2, ServeClaimStartMoves, ServeClaimMoves, ServeReportMoves, ServeBeatMoves,
     ServeUploadMoves, ServeReleaseMoves DEF Serve
<1>3. CASE UNCHANGED allVars
  BY <1>3, RestMoves
<1>4. CASE RunNext
  BY <1>1, <1>2, <1>4, ProbeMoves, GiveAwayMoves, ServerCrashMoves DEF RunNext
<1> QED BY <1>3, <1>4

\* What a call carries grows older, and nothing else.
LEMMA OlderCall ==
    ASSUME NEW call \in Call
    PROVE  /\ Older(call) \in Call
           /\ Older(call).kind = call.kind /\ Older(call).client = call.client
           /\ Older(call).grant = call.grant
<1>1. /\ call.limits \in Limits /\ Aged(call.limits.result) \in Result
  BY AgedType DEF Call, Limits
<1>2. [call.limits EXCEPT !.result = Aged(call.limits.result)] \in Limits
  BY <1>1 DEF Limits
<1>3. Older(call) = [call EXCEPT !.limits =
                         [call.limits EXCEPT !.result = Aged(call.limits.result)]]
  BY <1>1 DEF Older, Call
<1> QED BY <1>2, <1>3 DEF Call

\* A tick moves no run, and every silence gets longer.
LEMMA TickProper ==
    ASSUME Proper, PassTick
    PROVE  /\ Proper' /\ ServerProper'
           /\ \A d \in Client :
                 /\ run'[d].pc = run[d].pc /\ run'[d].held = run[d].held
                 /\ run'[d].next = run[d].next
                 /\ run[d].pc \in WorkingPC =>
                       silent'[d] = IF silent[d] > HeartbeatInterval THEN silent[d]
                                    ELSE silent[d] + 1
<1>1. /\ Tick /\ UNCHANGED <<home, minted>>
      /\ silent' = [c \in Client |->
                       IF run[c].pc \in {"idle"} \cup Over THEN 0
                       ELSE IF silent[c] > HeartbeatInterval THEN silent[c]
                       ELSE silent[c] + 1]
      /\ limits' = [c \in Client |-> [limits[c] EXCEPT !.result = Aged(@)]]
      /\ calls' = {Older(call) : call \in calls}
      /\ run' = [c \in Client |-> [run[c] EXCEPT !.call = Older(@)]]
  BY DEF PassTick
<1>2. Served /\ UNCHANGED issued
  BY <1>1, TickServed DEF Proper
<1>3. WorldProper'
  <2>1. limits' \in [Client -> Limits]
    <3> SUFFICES ASSUME NEW c \in Client PROVE [limits[c] EXCEPT !.result = Aged(@)] \in Limits
      BY <1>1
    <3>1. limits[c] \in Limits /\ Aged(limits[c].result) \in Result
      BY AgedType DEF Proper, WorldProper, Limits
    <3> QED BY <3>1 DEF Limits
  <2>2. silent' \in [Client -> 0..(HeartbeatInterval + 1)]
    <3> SUFFICES ASSUME NEW c \in Client
                 PROVE  silent'[c] \in 0..(HeartbeatInterval + 1)
      BY <1>1
    <3>1. silent[c] \in 0..(HeartbeatInterval + 1) /\ HeartbeatInterval \in Nat
      BY RunAssumption DEF Proper, WorldProper
    <3> QED BY <1>1, <3>1
  <2> QED BY <1>1, <2>1, <2>2 DEF Proper, WorldProper
<1>4. ASSUME NEW d \in Client
      PROVE  /\ Alike(run[d], run'[d]) /\ run'[d].call = Older(run[d].call)
             /\ run[d].call \in Call /\ RunProper(d, run'[d], home'[d], issued')
  <2>1. RunProper(d, run[d], home[d], issued) /\ run[d] \in Run
    BY DEF Proper, RunsProper, RunProper
  <2>2. run'[d] = [run[d] EXCEPT !.call = Older(run[d].call)]
    BY <1>1, <2>1 DEF Run
  <2>3. run[d].call \in Call
    BY <2>1 DEF Run
  <2>4. /\ Older(run[d].call) \in Call
        /\ Older(run[d].call).kind = run[d].call.kind
        /\ Older(run[d].call).client = run[d].call.client
        /\ Older(run[d].call).grant = run[d].call.grant
    BY <2>3, OlderCall
  <2>5. Alike(run[d], run'[d]) /\ run'[d].call = Older(run[d].call)
    BY <2>1, <2>2, <2>4 DEF Alike, Run
  <2>6. RunProper(d, run'[d], home'[d], issued')
    BY <1>1, <1>2, <2>1, <2>4, <2>5 DEF RunProper, Expects, Leases, Alike
  <2> QED BY <2>3, <2>5, <2>6
<1>5. RunsProper'
  BY <1>1, <1>4 DEF RunsProper, Alike
<1>6. ASSUME NEW new \in calls'
      PROVE  \E call \in calls : /\ new \in Call /\ new.kind = call.kind
                                 /\ new.client = call.client /\ new.grant = call.grant
  <2>1. PICK call \in calls : new = Older(call)
    BY <1>1
  <2> QED BY <2>1, CallIs, OlderCall
<1>7. CallsProper'
  BY <1>2, <1>6 DEF Proper, CallsProper, CallProper
<1>8. ReleasesOver'
  <2> SUFFICES ASSUME NEW new \in calls', new.kind = "release",
                      run'[new.client].pc \in WorkingPC
               PROVE  new.grant.lease # Current(run'[new.client]).lease
    BY DEF ReleasesOver
  <2>1. PICK call \in calls : /\ new.kind = call.kind
                              /\ new.client = call.client /\ new.grant = call.grant
    BY <1>6
  <2>2. call.client \in Client
    BY CallIs
  <2> QED BY <1>4, <2>1, <2>2 DEF Proper, ReleasesOver, Alike, Current
<1>9. Proper' /\ ServerProper'
  BY <1>2, <1>3, <1>5, <1>7, <1>8 DEF Proper, Served
<1> QED BY <1>1, <1>4, <1>9 DEF Alike, WorkingPC, LeasedPC, Over


\* With heartbeats more often than the shortest term, the lease lasts.
LEMMA LastsStep ==
    ASSUME HeartbeatInterval < DefaultTTL, Proper, Proper',
           NEW d \in Client, Lasts(d), Goes(d)
    PROVE  Lasts(d)'
<1> DEFINE now == Current(run[d])
           then == Current(run'[d])
<1> SUFFICES ASSUME run'[d].pc \in WorkingPC, silent'[d] <= HeartbeatInterval,
                    acct'[then.account].owner = "cloud"
             PROVE  /\ acct'[then.account].lease = then.lease
                    /\ acct'[then.account].client = d
                    /\ acct'[then.account].left + silent'[d] > HeartbeatInterval
  BY DEF Lasts
<1>1. HeartbeatInterval \in Nat /\ DefaultTTL \in Nat /\ silent[d] \in Nat
      /\ silent'[d] \in Nat
  BY RunAssumption, TermAssumption DEF Proper, WorldProper
<1>2. then.account \in Account /\ then.lease \in Nat \ {0}
  BY DEF Proper, RunsProper, RunProper, Leases, Issued, Current, WorkingPC, LeasedPC,
     ServerProper, TypeOK
<1>3. acct[then.account].left \in Nat /\ acct'[then.account].left \in Nat
  BY <1>2 DEF Proper, ServerProper, TypeOK, AccountRow
<1>4. CASE Renewed(d)
  BY <1>1, <1>3, <1>4 DEF Renewed
<1>5. CASE Follows(run[d], run'[d]) /\ silent'[d] = silent[d] /\ Keeps(d)
  <2>1. /\ run[d].pc \in WorkingPC /\ then.account = now.account
        /\ then.lease = now.lease
    BY <1>5 DEF Follows
  <2>2. acct[now.account].owner = "cloud"
    BY <1>5, <2>1 DEF Keeps
  <2>3. /\ acct[now.account].lease = now.lease /\ acct[now.account].client = d
        /\ acct[now.account].left + silent[d] > HeartbeatInterval
    BY <1>5, <2>1, <2>2 DEF Lasts
  <2>4. Active(acct[now.account])
    BY <1>1, <1>2, <1>3, <1>5, <2>1, <2>3 DEF Active
  <2>5. /\ acct'[now.account].lease = now.lease /\ acct'[now.account].client = d
        /\ \/ acct'[now.account].left = acct[now.account].left
           \/ acct'[now.account].left >= DefaultTTL
    BY <1>5, <2>1, <2>3, <2>4 DEF Keeps, Stands
  <2> HIDE DEF now, then
  <2> QED BY <1>1, <1>3, <1>5, <2>1, <2>3, <2>5
<1> QED BY <1>4, <1>5 DEF Goes

\* A tick takes from the time that is left what it adds to the silence.
LEMMA LastsTick ==
    ASSUME Proper, PassTick, NEW d \in Client, Lasts(d)
    PROVE  Lasts(d)'
<1> DEFINE now == Current(run[d])
<1>1. /\ Proper' /\ run'[d].pc = run[d].pc /\ Current(run'[d]) = now
      /\ run[d].pc \in WorkingPC =>
            silent'[d] = IF silent[d] > HeartbeatInterval THEN silent[d]
                         ELSE silent[d] + 1
  BY TickProper DEF Current
<1> SUFFICES ASSUME run[d].pc \in WorkingPC, silent'[d] <= HeartbeatInterval,
                    acct'[now.account].owner = "cloud"
             PROVE  /\ acct'[now.account].lease = now.lease
                    /\ acct'[now.account].client = d
                    /\ acct'[now.account].left + silent'[d] > HeartbeatInterval
  BY <1>1 DEF Lasts
<1>2. HeartbeatInterval \in Nat /\ silent[d] \in Nat
  BY RunAssumption DEF Proper, WorldProper
<1>3. now.account \in Account
  BY DEF Proper, RunsProper, RunProper, Leases, Issued, Current, WorkingPC, LeasedPC
<1>4. acct[now.account].left \in Nat
  BY <1>3 DEF Proper, ServerProper, TypeOK, AccountRow
<1>5. /\ acct'[now.account].owner = acct[now.account].owner
      /\ acct'[now.account].lease = acct[now.account].lease
      /\ acct'[now.account].client = acct[now.account].client
      /\ acct'[now.account].left = IF acct[now.account].left > 0
                                   THEN acct[now.account].left - 1 ELSE 0
  BY <1>3, TickServed DEF PassTick, Proper
<1>6. silent[d] <= HeartbeatInterval /\ silent'[d] = silent[d] + 1
  BY <1>1, <1>2
<1>7. /\ acct[now.account].lease = now.lease /\ acct[now.account].client = d
      /\ acct[now.account].left + silent[d] > HeartbeatInterval
  BY <1>5, <1>6 DEF Lasts
<1> HIDE DEF now
<1> QED BY <1>2, <1>4, <1>5, <1>6, <1>7

\* Nobody has a lease yet.
LEMMA RunInitProper ==
    ASSUME RunInit PROVE Proper /\ \A d \in Client : Lasts(d)
<1>1. /\ Init /\ auth = [a \in Account |-> [of |-> a, version |-> 1]]
      /\ run = [c \in Client |-> At(c, "idle")] /\ calls = {}
      /\ home = [c \in Client |-> NoToken] /\ limits = [c \in Client |-> NoLimits]
      /\ minted = [a \in Account |-> 1] /\ silent = [c \in Client |-> 0]
  BY DEF RunInit
<1>2. 1 \in 1..MaxVersion /\ 0 \in 0..(HeartbeatInterval + 1)
  BY RunAssumption
<1>3. \A a \in Account : Belongs(auth[a], a)
  BY <1>1, <1>2, VersionAssumption DEF Belongs
<1>4. \A a \in Account : acct[a].lease = 0
  BY <1>1 DEF Init, Imported, Absent
<1>5. ServerProper
  <2>1. BusyWithAccount
    BY <1>1 DEF BusyWithAccount, Init, Idle
  <2> QED BY <1>1, <1>3, <1>4, <2>1, InitType DEF ServerProper
<1>6. WorldProper
  <2>1. \A c \in Client : NoLimits \in Limits
    BY NothingType
  <2> QED BY <1>1, <1>2, <2>1 DEF WorldProper
<1>7. \A c \in Client : /\ run[c] = At(c, "idle") /\ run[c] \in Run
                        /\ RunProper(c, run[c], home[c], issued)
                        /\ run[c].pc = "idle"
  BY <1>1, AtProper
<1>8. RunsProper
  BY <1>1, <1>7 DEF RunsProper
<1>9. CallsProper /\ ReleasesOver
  BY <1>1 DEF CallsProper, ReleasesOver
<1>10. \A d \in Client : Lasts(d)
  BY <1>7 DEF Lasts, WorkingPC, LeasedPC
<1> QED BY <1>5, <1>6, <1>8, <1>9, <1>10 DEF Proper

\* A proper state stays proper.
LEMMA ProperStep == ASSUME Proper, [RunNext]_allVars PROVE Proper'
BY StepMoves, TickProper DEF Moves

\* The lease of every run that hears from the server lasts.
LEMMA AllLastStep ==
    ASSUME HeartbeatInterval < DefaultTTL, Proper, \A d \in Client : Lasts(d),
           [RunNext]_allVars
    PROVE  (\A d \in Client : Lasts(d))'
<1>1. CASE Moves
  <2>1. \A d \in Client : Lasts(d)'
    BY <1>1, LastsStep DEF Moves
  <2> QED BY <2>1
<1>2. CASE PassTick
  <2>1. \A d \in Client : Lasts(d)'
    BY <1>2, LastsTick
  <2> QED BY <2>1
<1> QED BY <1>1, <1>2, StepMoves


-----------------------------------------------------------------------------
(* Theorems                                                                *)

\* Proper is inductive: nobody, and no order in which the calls arrive, mixes up
\* the leases, auth.json files and calls of the runs (runCloudRun and the
\* handlers of web/server.go).
THEOREM RunsStayProper == RunSpec => []Proper
<1>1. RunInit => Proper
  BY RunInitProper
<1>2. Proper /\ [RunNext]_allVars => Proper'
  BY ProperStep
<1> QED BY <1>1, <1>2, PTL DEF RunSpec

\* Which goroutine of a run waits for a call.
LEMMA ProperTypes == Proper => RunTypeOK
<1> SUFFICES ASSUME Proper PROVE RunTypeOK
  OBVIOUS
<1>1. \A call \in calls : call \in Call /\ call.kind # "none"
  BY CallIs
<1>2. ASSUME NEW c \in Client
      PROVE  LET r == run[c]
             IN  Waiting(c) <=>
                    \/ r.pc \in {"claim", "final", "swapclaim", "release"}
                    \/ r.pc = "run" /\ r.beat \in {"beat", "push"}
                    \/ r.pc = "swaprelease" /\ r.call.kind = "release"
  <2>1. Expects(run[c]) /\ run[c].call.kind \in Kind
    BY DEF Proper, RunsProper, RunProper, Run, Call
  <2> QED BY <2>1 DEF Expects, Kind, Waiting
<1> QED BY <1>1, <1>2 DEF Proper, WorldProper, RunsProper, RunTypeOK

\* The two goroutines of a run are never both waiting for a call, and each call
\* is waited for where it was made.
THEOREM RunTypeCorrect == RunSpec => []RunTypeOK
BY RunsStayProper, ProperTypes, PTL

\* The auth.json of one account is never stored, nor worked with, as that of
\* another, whatever uploads arrive late (UpdateLeasedProfileSnapshot,
\* writeSnapshotToStableHome).
THEOREM AuthStaysApart == RunSpec => []AuthBelongs
<1>1. Proper => AuthBelongs
  BY DEF Proper, ServerProper, RunsProper, RunProper, Leases, Belongs, AuthBelongs
<1> QED BY <1>1, RunsStayProper, PTL

\* With a heartbeat interval below the shortest lease term.
LEMMA AllLast ==
    ASSUME HeartbeatInterval < DefaultTTL
    PROVE  RunSpec => [](Proper /\ \A d \in Client : Lasts(d))
<1> DEFINE Lasting == Proper /\ \A d \in Client : Lasts(d)
<1>1. RunInit => Lasting
  BY RunInitProper
<1>2. Lasting /\ [RunNext]_allVars => Lasting'
  BY ProperStep, AllLastStep
<1> HIDE DEF Lasting
<1>3. RunSpec => []Lasting
  BY <1>1, <1>2, PTL DEF RunSpec
<1> QED BY <1>3 DEF Lasting

\* A lease that lasts is running.
LEMMA LastingLease ==
    ASSUME Proper, NEW c \in Client, Lasts(c), run[c].pc \in WorkingPC,
           silent[c] <= HeartbeatInterval,
           acct[Current(run[c]).account].owner = "cloud"
    PROVE  /\ Active(acct[Current(run[c]).account])
           /\ acct[Current(run[c]).account].lease = Current(run[c]).lease
<1> DEFINE now == Current(run[c])
<1>1. now.account \in Account /\ now.lease \in Nat \ {0}
  BY DEF Proper, RunsProper, RunProper, Leases, Issued, Current, WorkingPC, LeasedPC,
     ServerProper, TypeOK
<1>2. acct[now.account].left \in Nat /\ silent[c] \in Nat /\ HeartbeatInterval \in Nat
  BY <1>1, RunAssumption DEF Proper, ServerProper, WorldProper, TypeOK, AccountRow
<1>3. /\ acct[now.account].lease = now.lease
      /\ acct[now.account].left + silent[c] > HeartbeatInterval
  BY DEF Lasts
<1> HIDE DEF now
<1>4. Active(acct[now.account])
  BY <1>1, <1>2, <1>3 DEF Active
<1> QED BY <1>3, <1>4 DEF now

\* A run whose heartbeats get through works with a lease that is on its row
\* (heartbeatLease, sweepExpiredLeases), if it sends them more often than the
\* shortest lease runs.
THEOREM RunStaysLeased ==
    ASSUME HeartbeatInterval < DefaultTTL PROVE RunSpec => []StaysLeased
<1>1. Proper /\ (\A d \in Client : Lasts(d)) => StaysLeased
  <2> SUFFICES ASSUME Proper, \A d \in Client : Lasts(d), NEW c \in Client,
                      run[c].pc = "run", silent[c] <= HeartbeatInterval,
                      acct[run[c].held.account].owner = "cloud"
               PROVE  /\ Active(acct[run[c].held.account])
                      /\ acct[run[c].held.account].lease = run[c].held.lease
    BY DEF StaysLeased
  <2>1. Current(run[c]) = run[c].held /\ run[c].pc \in WorkingPC
    BY DEF Current, WorkingPC, LeasedPC
  <2> QED BY <2>1, LastingLease
<1> QED BY <1>1, AllLast, PTL

\* A swap goes to another account (the exchange at runCloudRun's swap claim):
\* the one it leaves is still leased when the next is chosen.
THEOREM SwapsMoveOn ==
    ASSUME HeartbeatInterval < DefaultTTL PROVE RunSpec => SwapMovesOn
<1> DEFINE Other ==
        \A c \in Client :
            /\ run[c].pc = "swapclaim" /\ run'[c].pc = "swaprelease"
            /\ silent[c] <= HeartbeatInterval
            => run'[c].next.account # run[c].held.account
<1>1. ASSUME Proper, \A d \in Client : Lasts(d), [RunNext]_allVars PROVE Other
  <2> SUFFICES ASSUME NEW c \in Client, run[c].pc = "swapclaim",
                      run'[c].pc = "swaprelease", silent[c] <= HeartbeatInterval,
                      run'[c].next.account = run[c].held.account
               PROVE  FALSE
    OBVIOUS
  <2>1. SwapsTo(run[c], run'[c])
    <3>1. CASE Moves
      BY <3>1 DEF Moves, Goes
    <3>2. CASE PassTick
      BY <1>1, <3>2, TickProper
    <3> QED BY <1>1, <3>1, <3>2, StepMoves
  <2>2. /\ acct[run[c].held.account].owner = "cloud"
        /\ ~ Active(acct[run[c].held.account])
    BY <2>1 DEF SwapsTo
  <2>3. Current(run[c]) = run[c].held /\ run[c].pc \in WorkingPC
    BY DEF Current, WorkingPC, LeasedPC
  <2> QED BY <1>1, <2>2, <2>3, LastingLease
<1>2. Proper /\ (\A d \in Client : Lasts(d)) /\ [RunNext]_allVars => [Other]_allVars
  BY <1>1
<1> HIDE DEF Other
<1>3. RunSpec => [][Other]_allVars
  BY <1>2, AllLast, PTL DEF RunSpec
<1> QED BY <1>3 DEF Other, SwapMovesOn


-----------------------------------------------------------------------------
(* The account pool under its clients                                      *)

\* What the clients do is among what LeaseManager expects of anybody: a matter
\* of the values that bound its own inputs.
AnyCaller ==
    /\ leaseTTL \in TTL /\ "ready" \in AdminStatus
    /\ \A r \in Reports : Aged(r) \in Reports
    /\ IsFiniteSet(Prober)

\* Reported rate limits are reports.
LimitsReported ==
    /\ \A c \in Client : limits[c].of # 0 => limits[c].result \in Reports
    /\ \A call \in calls : call.limits.of # 0 => call.limits.result \in Reports

\* A call reports what codex has logged, or nothing.
LEMMA AskReports ==
    ASSUME LimitsReported, NEW c \in Client, NEW kind, NEW after, Ask(c, kind, after)
    PROVE  \A call \in calls' : call.limits.of # 0 => call.limits.result \in Reports
<1> DEFINE lim == IF kind = "report" THEN limits[c] ELSE NoLimits
           grant == [after.held EXCEPT !.token = IF kind = "upload" THEN home[c] ELSE NoToken]
           new == [kind |-> kind, client |-> c, limits |-> lim, grant |-> grant]
<1>1. calls' = calls \/ calls' = calls \cup {new}
  BY DEF Ask
<1>2. lim.of # 0 => lim.result \in Reports
  BY DEF LimitsReported, NoLimits
<1> HIDE DEF lim, grant
<1>3. new.limits = lim
  OBVIOUS
<1> HIDE DEF new
<1> QED BY <1>1, <1>2, <1>3 DEF LimitsReported

\* LimitsReported is inductive.
LEMMA ReportedStep ==
    ASSUME AnyCaller, Proper, LimitsReported, [RunNext]_allVars
    PROVE  LimitsReported'
<1>1. CASE calls' \subseteq calls /\ UNCHANGED limits
  BY <1>1 DEF LimitsReported
<1>2. ASSUME Scrub PROVE \A d \in Client : limits'[d].of # 0 => limits'[d].result \in Reports
  BY <1>2 DEF Scrub, LimitsReported, NoLimits
<1>3. ASSUME NEW c \in Client,
             \/ Start(c) \/ Setup(c) \/ Join(c) \/ Finish(c) \/ ReleaseOld(c)
             \/ Beat(c) \/ Check(c) \/ Decide(c) \/ CodexRotates(c) \/ CodexExits(c)
             \/ Cancel(c)
      PROVE  LimitsReported'
  <2>1. UNCHANGED limits
    BY <1>3 DEF Start, Setup, Join, Finish, ReleaseOld, Beat, Check, Decide,
       CodexRotates, CodexExits, Cancel, Quiet
  <2>2. CASE calls' = calls
    BY <1>1, <2>1, <2>2
  <2>3. calls' = calls \/ \E kind, after : Ask(c, kind, after)
    BY <1>3 DEF Start, Setup, Join, Finish, ReleaseOld, Beat, Check, Decide,
       CodexRotates, CodexExits, Cancel
  <2>4. ASSUME NEW kind, NEW after, Ask(c, kind, after) PROVE LimitsReported'
    BY <2>1, <2>4, AskReports DEF LimitsReported
  <2> QED BY <2>2, <2>3, <2>4
<1>4. ASSUME NEW c \in Client, SetupFails(c) \/ Cleanup(c) \/ Fail(c) \/ Kill(c)
      PROVE  LimitsReported'
  <2>1. Scrub
    BY <1>4 DEF SetupFails, Cleanup, Fail, Kill, Ends
  <2>2. calls' \subseteq calls \/ \E kind, after : Ask(c, kind, after)
    BY <1>4 DEF SetupFails, Cleanup, Fail, Kill
  <2>3. \A call \in calls' : call.limits.of # 0 => call.limits.result \in Reports
    BY <2>2, AskReports DEF LimitsReported
  <2> QED BY <1>2, <2>1, <2>3 DEF LimitsReported
<1>5. ASSUME NEW c \in Client, NEW result \in Reports, CodexLogs(c, result)
      PROVE  LimitsReported'
  <2> DEFINE log == [of |-> home[c].of, result |-> result]
  <2>1. limits' = [limits EXCEPT ![c] = log] /\ UNCHANGED calls
    BY <1>5 DEF CodexLogs
  <2>2. log.result = result
    OBVIOUS
  <2> HIDE DEF log
  <2>3. \A d \in Client : limits'[d].of # 0 => limits'[d].result \in Reports
    BY <2>1, <2>2 DEF LimitsReported, Proper, WorldProper
  <2> QED BY <2>1, <2>3 DEF LimitsReported
<1>6. ASSUME NEW call \in calls, ServeReport(call) PROVE LimitsReported'
  <2>1. /\ calls' = (calls \ {call}) \cup {[call EXCEPT !.kind = "beat"]}
        /\ UNCHANGED limits
    BY <1>6 DEF ServeReport
  <2>2. [call EXCEPT !.kind = "beat"].limits = call.limits
    BY CallIs DEF Call
  <2> QED BY <2>1, <2>2 DEF LimitsReported
<1>7. ASSUME NEW call \in calls,
             \/ ServeClaimStart(call) \/ ServeClaim(call) \/ ServeBeat(call)
             \/ ServeUpload(call) \/ ServeRelease(call)
      PROVE  LimitsReported'
  <2>1. calls' \subseteq calls
    BY <1>7 DEF ServeClaimStart, ServeClaim, ServeBeat, ServeUpload, ServeRelease, Answer,
       runVars
  <2>2. Scrub \/ UNCHANGED limits
    BY <1>7 DEF ServeClaimStart, ServeClaim, ServeBeat, ServeUpload, ServeRelease, runVars
  <2> QED BY <1>1, <1>2, <2>1, <2>2 DEF LimitsReported
<1>8. CASE PassTick
  <2>1. /\ limits' = [c \in Client |-> [limits[c] EXCEPT !.result = Aged(@)]]
        /\ calls' = {Older(call) : call \in calls}
    BY <1>8 DEF PassTick
  <2>2. ASSUME NEW lim \in Limits, lim.of # 0 => lim.result \in Reports
        PROVE  LET aged == [lim EXCEPT !.result = Aged(@)]
               IN  aged.of # 0 => aged.result \in Reports
    BY <2>2 DEF AnyCaller, Limits
  <2>3. \A c \in Client : limits'[c].of # 0 => limits'[c].result \in Reports
    BY <2>1, <2>2 DEF LimitsReported, Proper, WorldProper
  <2>4. \A call \in calls : Older(call).limits.of # 0 => Older(call).limits.result \in Reports
    <3> SUFFICES ASSUME NEW call \in calls
                 PROVE  Older(call).limits.of # 0 => Older(call).limits.result \in Reports
      OBVIOUS
    <3>1. call \in Call /\ call.limits \in Limits
      BY CallIs DEF Call
    <3>2. Older(call).limits = [call.limits EXCEPT !.result = Aged(@)]
      BY <3>1 DEF Older, Call
    <3> QED BY <2>2, <3>1, <3>2 DEF LimitsReported
  <2> QED BY <2>1, <2>3, <2>4 DEF LimitsReported
<1>9. CASE \/ \E p \in Prober : Probe(p)
           \/ \E a \in Account : GiveAway(a)
           \/ ServerCrash \/ UNCHANGED allVars
  BY <1>1, <1>9 DEF Probe, GiveAway, ServerCrash, allVars, runVars
<1> QED BY <1>3, <1>4, <1>5, <1>6, <1>7, <1>8, <1>9
       DEF RunNext, MainStep, BeatStep, Serve

\* Every step of the clients and the server is one of LeaseManager's, or none.
LEMMA PoolStep ==
    ASSUME AnyCaller, Proper, LimitsReported, [RunNext]_allVars
    PROVE  [Next]_vars
<1>1. ASSUME NEW call \in calls, call.kind # "claim",
             \/ LeaseCall(call.client, call.grant.lease, call.grant.account)
             \/ RefusedLeaseCall \/ UNCHANGED vars
      PROVE  [Next]_vars
  BY <1>1, CallIs DEF Next, Caller
<1>2. ASSUME NEW c \in Client,
             \/ Start(c) \/ MainStep(c) \/ Beat(c) \/ BeatStep(c) \/ Fail(c)
             \/ CodexRotates(c) \/ CodexExits(c) \/ Cancel(c) \/ Kill(c)
             \/ \E result \in Reports : CodexLogs(c, result)
      PROVE  UNCHANGED vars
  BY <1>2 DEF MainStep, BeatStep, Start, Setup, SetupFails, Join, Finish, ReleaseOld,
     Cleanup, Beat, Check, Decide, Fail, CodexRotates, CodexExits, Cancel, Kill,
     CodexLogs, Quiet, Ends
<1>3. ASSUME NEW call \in calls, ServeClaimStart(call) \/ ServeClaim(call)
      PROVE  [Next]_vars
  <2>1. call.client \in Client
    BY CallIs
  <2>2. ClientStep(call.client)
    BY <1>3, WorkspaceAssumption DEF ServeClaimStart, ServeClaim, ClientStep, AnyCaller
  <2> QED BY <2>1, <2>2 DEF Next
<1>4. ASSUME NEW call \in calls, ServeReport(call) PROVE [Next]_vars
  BY <1>1, <1>4 DEF ServeReport, LimitsReported, LeaseCall
<1>5. ASSUME NEW call \in calls, ServeBeat(call) PROVE [Next]_vars
  BY <1>1, <1>5 DEF ServeBeat, LeaseCall, AnyCaller
<1>6. ASSUME NEW call \in calls, ServeUpload(call) PROVE [Next]_vars
  <2> DEFINE g == call.grant.generation
             a == call.grant.account
  <2>1. call.kind = "upload" /\ a \in Account /\ call.grant.token \in Token
    BY <1>6, CallIs DEF ServeUpload, Belongs
  <2>2. ASSUME Upload(call.client, call.grant.lease, a, g, call.grant.token, "ready")
        PROVE  [Next]_vars
    <3>1. g = acct[a].generation /\ GenerationLeft(a)
      BY <2>2 DEF Upload
    <3>2. acct[a].generation \in Nat
      BY <2>1 DEF Proper, ServerProper, TypeOK, AccountRow
    <3>3. Cardinality({p \in Prober : probe[p].account = a}) \in Nat
      BY FS_Subset, FS_CardinalityType DEF AnyCaller
    <3>4. g \in 0..MaxGeneration
      BY <3>1, <3>2, <3>3, BoundAssumption DEF GenerationLeft
    <3>5. LeaseCall(call.client, call.grant.lease, a)
      BY <2>1, <2>2, <3>4 DEF LeaseCall, AnyCaller
    <3> QED BY <1>1, <2>1, <3>5
  <2> QED BY <1>1, <1>6, <2>1, <2>2 DEF ServeUpload
<1>7. ASSUME NEW call \in calls, ServeRelease(call) PROVE [Next]_vars
  BY <1>1, <1>7 DEF ServeRelease, LeaseCall
<1>8. ASSUME NEW p \in Prober, Probe(p) PROVE Next
  <2>1. CASE FetchRefresh(p, [of |-> probe[p].account,
                              version |-> minted[probe[p].account] + 1])
             /\ probe[p].pc = "asked" /\ minted[probe[p].account] < MaxVersion
    <3>1. probe[p].account \in Account
      BY <2>1 DEF Proper, ServerProper, BusyWithAccount
    <3>2. minted[probe[p].account] + 1 \in 1..MaxVersion
      BY <2>1, <3>1, RunAssumption DEF Proper, WorldProper
    <3>3. [of |-> probe[p].account, version |-> minted[probe[p].account] + 1] \in Token
      BY <3>1, <3>2, VersionAssumption
    <3> QED BY <2>1, <3>3 DEF Next, Fetch
  <2> QED BY <1>8, <2>1 DEF Probe, Next, Fetch
<1>9. ASSUME NEW a \in Account, GiveAway(a) PROVE Next
  BY <1>9 DEF GiveAway, Next, Operator
<1>10. CASE PassTick
  BY <1>10 DEF PassTick, Next
<1>11. CASE ServerCrash
  <2>1. ASSUME NEW call \in calls, call.kind = "upload"
        PROVE  call.grant.account \in Account /\ call.grant.token \in Token
    BY <2>1, CallIs DEF Belongs
  <2> QED BY <1>11, <2>1 DEF ServerCrash, Next
<1>12. CASE UNCHANGED allVars
  BY <1>12 DEF allVars
<1> QED BY <1>2, <1>3, <1>4, <1>5, <1>6, <1>7, <1>8, <1>9, <1>10, <1>11, <1>12
       DEF RunNext, Serve

\* The pool that the clients use is LeaseManager's: what is proved of it holds
\* with them.
THEOREM PoolIsLeaseManager == ASSUME AnyCaller PROVE RunSpec => Spec
<1>1. RunInit => LimitsReported
  BY DEF RunInit, LimitsReported, NoLimits
<1>2. Proper /\ LimitsReported /\ [RunNext]_allVars => LimitsReported' /\ [Next]_vars
  BY ReportedStep, PoolStep
<1>3. RunInit => Init
  BY DEF RunInit
<1> QED BY <1>1, <1>2, <1>3, RunsStayProper, PTL DEF RunSpec, Spec

\* So with any clients as well no account is lent twice, each lease ends as the
\* history says, an expired account stays out of the pool, and a claim gets the
\* best account, or the next of the best.
THEOREM PoolKeepsItsPromise ==
    ASSUME AnyCaller
    PROVE  RunSpec => /\ KeepsThePromise /\ ServesBest /\ TakesTurns
                      /\ [](LedgerMatchesLeases /\ Quarantine /\ ProbesPredateLeases)
BY PoolIsLeaseManager, PromiseKept, LedgerHolds, QuarantineHolds,
   ProbesPredateLeasesHolds, ClaimsServeBest, ClaimsTakeTurns, PTL
=============================================================================
