-------------------------- MODULE LeaseSafetyProofs --------------------------
(***************************************************************************)
(* The safety invariants of LeaseManager, for every value of its           *)
(* constants, each inductive on top of WellFormed; the action property     *)
(* that recoveries are verified, where terms outlast probes; and what the  *)
(* load balancer's pick promises to a claim.                               *)
(***************************************************************************)
EXTENDS LeaseManagerProofs, WellFoundedInduction

-----------------------------------------------------------------------------
(* Rows: what the sweep, a quota result and the clock leave of a lease     *)

\* The sweep changes the rows of lapsed leases only, and those it ends.
LEMMA SweptRows ==
    ASSUME TypeOK, NEW a \in Account
    PROVE  /\ ~ Lapsed(acct[a]) => Swept[a] = acct[a]
           /\ Lapsed(acct[a]) =>
                /\ Swept[a].lease = 0 /\ Swept[a].left = 0
                /\ Swept[a].status = IF acct[a].status = "ready" THEN "recovering"
                                     ELSE acct[a].status
<1> acct[a] \in AccountRow
  BY DEF TypeOK
<1> QED BY DEF Swept, clearAccountLease, AccountRow

\* A lease that survives the sweep is running.
LEMMA SurvivorIsActive ==
    ASSUME TypeOK, NEW a \in Account, Swept[a].lease # 0
    PROVE  Active(acct[a]) /\ Swept[a] = acct[a]
<1>1. ~ Lapsed(acct[a])
  BY SweptRows
<1>2. Swept[a] = acct[a] /\ acct[a].left \in Nat
  BY <1>1, SweptRows DEF TypeOK, AccountRow
<1> QED BY <1>1, <1>2 DEF Lapsed, Active

\* A quota result leaves the lease on a row alone.
LEMMA RecordedRow ==
    ASSUME NEW row \in AccountRow, NEW answer, NEW authChanged, NEW flipOwner
    PROVE  /\ Recorded(row, answer, authChanged, flipOwner).lease = row.lease
           /\ Recorded(row, answer, authChanged, flipOwner).client = row.client
           /\ Recorded(row, answer, authChanged, flipOwner).left = row.left
BY DEF Recorded, AccountRow

\* So no quota result, whoever reports it, touches a lease.
LEMMA ResultKeepsLeases ==
    ASSUME TypeOK, NEW b, NEW result, NEW authChanged, NEW source, NEW flipOwner,
           WriteQuotaResult(b, result, authChanged, source, flipOwner), NEW a \in Account
    PROVE  /\ acct'[a].lease = acct[a].lease
           /\ acct'[a].client = acct[a].client
           /\ acct'[a].left = acct[a].left
<1>1. acct[a] \in AccountRow
  BY DEF TypeOK
<1>2. \/ acct'[a] = acct[a]
      \/ acct'[a] = Recorded(acct[a], result.status, authChanged, flipOwner)
  BY DEF WriteQuotaResult, TypeOK
<1> QED BY <1>1, <1>2, RecordedRow

-----------------------------------------------------------------------------
(* Quarantine                                                              *)

\* The sweep puts the accounts it suspects where Quarantine wants them.
LEMMA SweepQuarantines ==
    ASSUME TypeOK, Quarantine, NEW a \in SweptSuspects
    PROVE  a \in Account /\ Swept[a].lease = 0 /\ Swept[a].status \in {"recovering", "drain"}
<1>1. CASE a \in suspect
  <2>1. acct[a].lease = 0 /\ acct[a].status \in {"recovering", "drain"} /\ a \in Account
    BY <1>1 DEF Quarantine, TypeOK
  <2> QED BY <2>1, SweptRows DEF Lapsed
<1>2. CASE a \in LapsedAccounts /\ acct[a].status = "ready"
  BY <1>2, SweptRows DEF LapsedAccounts
<1> QED BY <1>1, <1>2 DEF SweptSuspects

\* A quota result that does not vouch for an account leaves it in quarantine.
LEMMA ResultQuarantines ==
    ASSUME TypeOK, Quarantine, NEW b \in Account, NEW result,
           NEW authChanged, NEW source, NEW flipOwner,
           WriteQuotaResult(b, result, authChanged, source, flipOwner)
    PROVE  Quarantine'
<1> SUFFICES ASSUME NEW a \in suspect'
             PROVE  acct'[a].lease = 0 /\ acct'[a].status \in {"recovering", "drain"}
  BY DEF Quarantine
<1>1. a \in suspect /\ a \in Account /\ acct[a] \in AccountRow
  BY DEF WriteQuotaResult, TypeOK
<1>2. acct[a].lease = 0 /\ acct[a].status \in {"recovering", "drain"}
  BY <1>1 DEF Quarantine
<1>3. CASE a # b
  <2>1. acct'[a] = acct[a]
    BY <1>1, <1>3 DEF WriteQuotaResult, TypeOK
  <2> QED BY <1>2, <2>1
<1>4. CASE a = b
  <2>1. result.status # "supported"
    BY <1>4 DEF WriteQuotaResult
  <2>2. acct'[a] = Recorded(acct[a], result.status, authChanged, flipOwner)
    BY <1>1, <1>4 DEF WriteQuotaResult, TypeOK
  <2>3. Recorded(acct[a], result.status, authChanged, flipOwner).status
          \in {"recovering", "drain"}
    BY <1>1, <1>2, <2>1 DEF Recorded, StatusAfter, AccountRow
  <2> QED BY <1>1, <1>2, <2>2, <2>3, RecordedRow
<1> QED BY <1>3, <1>4

\* Quarantine is inductive.
LEMMA QuarantineStep ==
    ASSUME TypeOK, BusyWithAccount, Quarantine, [Next]_vars PROVE Quarantine'
<1>1. ASSUME UNCHANGED <<acct, suspect>> PROVE Quarantine'
  BY <1>1 DEF Quarantine
<1>2. ASSUME SaveSweep PROVE Quarantine'
  BY <1>2, SweepQuarantines DEF SaveSweep, Quarantine
<1>3. ASSUME suspect' = SweptSuspects, NEW a \in Account \ SweptSuspects,
             \A b \in Account \ {a} : acct'[b] = Swept[b]
      PROVE  Quarantine'
  BY <1>3, SweepQuarantines DEF Quarantine
<1>4. ASSUME NEW c \in Client, NEW workspace \in Workspace, NEW ttl \in TTL,
             Claim(c, workspace, ttl)
      PROVE  Quarantine'
  <2>1. suspect' = SweptSuspects
    BY <1>4 DEF Claim
  <2>2. CASE acct' = Swept
    BY <2>1, <2>2, SweepQuarantines DEF Quarantine
  <2>3. ASSUME NEW a \in Account, Eligible(Swept[a], auth[a], cache[a].result),
               acct' = [Swept EXCEPT ![a].lease = issued + 1, ![a].client = c,
                                     ![a].left = normalizeLeaseTTL(ttl)]
        PROVE  Quarantine'
    <3>1. a \notin SweptSuspects
      BY <2>3, SweepQuarantines DEF Eligible
    <3> QED BY <1>3, <2>1, <2>3, <3>1 DEF Swept
  <2> QED BY <1>4, <2>2, <2>3 DEF Claim, Picks, Candidates
<1>5. ASSUME NEW c \in Caller, NEW l \in 1..issued, NEW a \in Account,
             LeaseCall(c, l, a)
      PROVE  Quarantine'
  <2>1. ASSUME Holds(c, l, a) PROVE a \in Account \ SweptSuspects
    BY <2>1, SweepQuarantines DEF Holds, TypeOK
  <2>2. ASSUME NEW ttl \in TTL, Touch(c, l, a, ttl) PROVE Quarantine'
    BY <1>3, <2>1, <2>2 DEF Touch, Swept
  <2>3. ASSUME NEW generation, NEW token, NEW status,
               Upload(c, l, a, generation, token, status) PROVE Quarantine'
    BY <1>3, <2>1, <2>3 DEF Upload, Swept
  <2>4. ASSUME Release(c, l, a) PROVE Quarantine'
    BY <1>3, <2>1, <2>4 DEF Release, Swept
  <2>5. ASSUME NEW result, RecordLeasedQuota(c, l, a, result) PROVE Quarantine'
    BY <2>5, ResultQuarantines DEF RecordLeasedQuota
  <2> QED BY <1>5, <2>2, <2>3, <2>4, <2>5 DEF LeaseCall
<1>6. ASSUME NEW p \in Prober, Fetch(p) PROVE Quarantine'
  <2>1. CASE FetchRecord(p)
    <3>1. probe[p].account \in Account
      BY <2>1 DEF FetchRecord, BusyWithAccount
    <3> QED BY <2>1, <3>1, ResultQuarantines DEF FetchRecord
  <2>2. CASE ~ FetchRecord(p)
    <3>1. UNCHANGED <<acct, suspect>>
      BY <1>6, <2>2 DEF Fetch, FetchLoad, FetchRecheck, FetchSend, FetchAnswer,
         FetchRefresh, FetchRefused, history
    <3> QED BY <1>1, <3>1
  <2> QED BY <2>1, <2>2
<1>7. ASSUME NEW a \in Account, Operator(a) PROVE Quarantine'
  <2>1. ASSUME suspect' = suspect \ {a}, \A b \in Account \ {a} : acct'[b] = acct[b]
        PROVE  Quarantine'
    BY <2>1 DEF Quarantine, TypeOK
  <2>2. ASSUME NEW status, SetStatus(a, status) PROVE Quarantine'
    BY <2>1, <2>2 DEF SetStatus, TypeOK
  <2>3. ASSUME NEW owner, SetOwner(a, owner) PROVE Quarantine'
    <3>1. \A b \in Account : acct[b].lease = 0 =>
             acct'[b].lease = 0 /\ acct'[b].status = acct[b].status
      <4>1. acct[a] \in AccountRow
        BY DEF TypeOK
      <4> QED BY <2>3, <4>1 DEF SetOwner, TypeOK, clearAccountLease, AccountRow
    <3> QED BY <2>3, <3>1 DEF SetOwner, Quarantine, TypeOK, history
  <2>4. ASSUME NEW workspace, SetAccountWorkspace(a, workspace) PROVE Quarantine'
    <3>1. \A b \in Account :
             acct'[b].lease = acct[b].lease /\ acct'[b].status = acct[b].status
      BY <2>4 DEF SetAccountWorkspace, TypeOK, AccountRow
    <3> QED BY <2>4, <3>1 DEF SetAccountWorkspace, Quarantine, TypeOK, history
  <2>5. CASE DeleteAccount(a)
    BY <2>1, <2>5 DEF DeleteAccount, TypeOK
  <2>6. ASSUME NEW token, NEW status, NEW owner, Push(a, token, status, owner)
        PROVE  Quarantine'
    BY <2>1, <2>6 DEF Push, TypeOK
  <2>7. ASSUME NEW result, RecordQuotaReport(a, result) PROVE Quarantine'
    BY <2>7, ResultQuarantines DEF RecordQuotaReport
  <2> QED BY <1>7, <2>2, <2>3, <2>4, <2>5, <2>6, <2>7 DEF Operator
<1>8. CASE Tick
  <2>1. \A a \in Account :
           acct'[a].lease = acct[a].lease /\ acct'[a].status = acct[a].status
    BY <1>8 DEF Tick, TypeOK, AccountRow
  <2> QED BY <1>8, <2>1 DEF Tick, Quarantine, TypeOK, history
<1>9. CASE \/ SelectAccountForRun \/ ResetRoundRobin \/ Crash \/ UNCHANGED vars
           \/ \E w \in Worker : WorkerStart(w)
           \/ \E v \in Viewer, a \in Account : ViewerStart(v, a)
           \/ \E a \in Account, token \in Token \cup {NoToken} : CrashBeforeSave(a, token)
  BY <1>1, <1>9 DEF SelectAccountForRun, ResetRoundRobin, Crash, CrashBeforeSave,
     WorkerStart, ViewerStart, history, vars
<1> QED BY <1>2, <1>4, <1>5, <1>6, <1>7, <1>8, <1>9
       DEF Next, ClientStep, ClaimStart, RefusedLeaseCall

\* An account whose lease ran out stays out of the pool until a supported quota
\* result, a new login or an operator vouches for it (lease.go, quota.go).
THEOREM QuarantineHolds == Spec => []Quarantine
<1>1. Init => Quarantine
  BY DEF Init, Quarantine
<1>2. TypeOK /\ BusyWithAccount /\ Quarantine /\ [Next]_vars => Quarantine'
  BY QuarantineStep
<1> QED BY <1>1, <1>2, WellFormed, PTL DEF Spec

-----------------------------------------------------------------------------
(* Probes and leases                                                       *)

\* A claim is the only step that makes a lease run: every other one takes time
\* or the lease away, or renews a lease that is running.
LEMMA OnlyClaimsActivate ==
    ASSUME TypeOK, BusyWithAccount, [Next]_vars,
           \A c \in Client, workspace \in Workspace, ttl \in TTL :
               ~ Claim(c, workspace, ttl),
           NEW a \in Account, Active(acct'[a])
    PROVE  Active(acct[a])
<1> acct[a] \in AccountRow
  BY DEF TypeOK
<1>1. CASE acct'[a].lease = acct[a].lease /\ acct'[a].left = acct[a].left
  BY <1>1 DEF Active
<1>2. ASSUME acct' = Swept PROVE Active(acct[a])
  BY <1>2, SurvivorIsActive DEF Active
<1>3. ASSUME NEW c \in Caller, NEW l \in 1..issued, NEW b \in Account,
             LeaseCall(c, l, b)
      PROVE  Active(acct[a])
  <2>1. CASE Swept[a].lease # 0
    BY <2>1, SurvivorIsActive
  <2>2. CASE Swept[a].lease = 0
    <3>1. ASSUME Holds(c, l, b) PROVE a # b
      BY <2>2, <3>1 DEF Holds
    <3>2. CASE a # b /\ acct'[a] = Swept[a]
      BY <2>2, <3>2 DEF Active
    <3>3. ASSUME NEW result, RecordLeasedQuota(c, l, b, result)
          PROVE  Active(acct[a])
      BY <1>1, <3>3, ResultKeepsLeases DEF RecordLeasedQuota
    <3>4. DOMAIN Swept = Account
      BY DEF Swept
    <3>5. ASSUME NEW ttl, Touch(c, l, b, ttl) PROVE Active(acct[a])
      BY <3>1, <3>2, <3>4, <3>5 DEF Touch
    <3>6. ASSUME NEW generation, NEW token, NEW status,
                 Upload(c, l, b, generation, token, status) PROVE Active(acct[a])
      BY <3>1, <3>2, <3>4, <3>6 DEF Upload
    <3>7. ASSUME Release(c, l, b) PROVE Active(acct[a])
      BY <3>1, <3>2, <3>4, <3>7 DEF Release
    <3> QED BY <1>3, <3>3, <3>5, <3>6, <3>7 DEF LeaseCall
  <2> QED BY <2>1, <2>2
<1>4. ASSUME NEW p \in Prober, Fetch(p) PROVE Active(acct[a])
  <2>1. CASE FetchRecord(p)
    <3>1. WriteQuotaResult(probe[p].account, probe[p].result, probe[p].changed,
                           "cloud", FALSE)
      BY <2>1 DEF FetchRecord
    <3> QED BY <1>1, <3>1, ResultKeepsLeases
  <2>2. CASE ~ FetchRecord(p)
    BY <1>1, <1>4, <2>2 DEF Fetch, FetchLoad, FetchRecheck, FetchSend, FetchAnswer,
       FetchRefresh, FetchRefused
  <2> QED BY <2>1, <2>2
<1>5. ASSUME NEW b \in Account, Operator(b) PROVE Active(acct[a])
  <2> acct[b] \in AccountRow
    BY DEF TypeOK
  <2>1. CASE acct'[a] = acct[a]
    BY <1>1, <2>1
  <2>2. ASSUME NEW status, SetStatus(b, status) PROVE Active(acct[a])
    BY <1>1, <2>2 DEF SetStatus, TypeOK, AccountRow
  <2>3. ASSUME NEW owner, SetOwner(b, owner) PROVE Active(acct[a])
    <3>1. CASE owner = "client" /\ a = b
      BY <2>3, <3>1 DEF SetOwner, TypeOK, clearAccountLease, Active, AccountRow
    <3>2. CASE ~ (owner = "client" /\ a = b)
      BY <1>1, <2>3, <3>2 DEF SetOwner, TypeOK, AccountRow
    <3> QED BY <3>1, <3>2
  <2>4. ASSUME NEW workspace, SetAccountWorkspace(b, workspace) PROVE Active(acct[a])
    BY <1>1, <2>4 DEF SetAccountWorkspace, TypeOK, AccountRow
  <2>5. CASE DeleteAccount(b)
    BY <2>1, <2>5 DEF DeleteAccount, TypeOK, Absent, Active
  <2>6. ASSUME NEW token, NEW status, NEW owner, Push(b, token, status, owner)
        PROVE  Active(acct[a])
    <3> DEFINE row == IF acct[b].present THEN [acct[b] EXCEPT !.generation = @ + 1]
                      ELSE Imported
    <3>1. \/ acct' = [acct EXCEPT ![b] = row]
          \/ acct' = [acct EXCEPT ![b] =
                [row EXCEPT !.status = IF status = "" THEN @ ELSE status,
                            !.owner = IF owner = "" THEN @ ELSE owner]]
      BY <2>6 DEF Push
    <3>2. row.lease = 0 \/ (row.lease = acct[b].lease /\ row.left = acct[b].left)
      <4>1. Imported.lease = 0
        BY DEF Imported, Absent
      <4> QED BY <4>1 DEF AccountRow
    <3>3. row \in AccountRow
      <4>1. Imported \in AccountRow
        BY WorkspaceAssumption
           DEF Imported, Absent, AccountRow, Status, OwnerMode, Caller
      <4> QED BY <4>1, RowFields DEF AccountRow
    <3> HIDE DEF row
    <3>4. \/ acct'[a] = acct[a]
          \/ acct'[a].lease = row.lease /\ acct'[a].left = row.left /\ a = b
      <4>1. ASSUME NEW newStatus, NEW newOwner
            PROVE  /\ [row EXCEPT !.status = newStatus, !.owner = newOwner].lease
                        = row.lease
                   /\ [row EXCEPT !.status = newStatus, !.owner = newOwner].left
                        = row.left
        BY <3>3 DEF AccountRow
      <4>2. PICK new : acct' = [acct EXCEPT ![b] = new]
                       /\ new.lease = row.lease /\ new.left = row.left
        <5> DEFINE newStatus == IF status = "" THEN row.status ELSE status
                   newOwner == IF owner = "" THEN row.owner ELSE owner
                   new == [row EXCEPT !.status = newStatus, !.owner = newOwner]
        <5>1. acct' = [acct EXCEPT ![b] = row] \/ acct' = [acct EXCEPT ![b] = new]
          BY <3>1
        <5>2. new.lease = row.lease /\ new.left = row.left
          BY <4>1
        <5> HIDE DEF new
        <5> QED BY <5>1, <5>2
      <4> QED BY <4>2 DEF TypeOK
    <3>5. CASE acct'[a].lease = row.lease /\ acct'[a].left = row.left /\ a = b
      BY <1>1, <3>2, <3>5 DEF Active
    <3> QED BY <2>1, <3>4, <3>5
  <2>7. ASSUME NEW result, RecordQuotaReport(b, result) PROVE Active(acct[a])
    BY <1>1, <2>7, ResultKeepsLeases DEF RecordQuotaReport
  <2> QED BY <1>5, <2>2, <2>3, <2>4, <2>5, <2>6, <2>7 DEF Operator
<1>6. CASE Tick
  <2>1. acct'[a].lease = acct[a].lease
        /\ acct'[a].left = IF acct[a].left > 0 THEN acct[a].left - 1 ELSE 0
    BY <1>6 DEF Tick, AccountRow
  <2>2. acct[a].left \in Nat
    BY DEF AccountRow
  <2> QED BY <2>1, <2>2 DEF Active
<1>7. CASE \/ SelectAccountForRun \/ ResetRoundRobin \/ Crash \/ UNCHANGED vars
           \/ \E w \in Worker : WorkerStart(w)
           \/ \E v \in Viewer, b \in Account : ViewerStart(v, b)
           \/ \E b \in Account, token \in Token \cup {NoToken} : CrashBeforeSave(b, token)
  BY <1>1, <1>7 DEF SelectAccountForRun, ResetRoundRobin, Crash, CrashBeforeSave,
     WorkerStart, ViewerStart, vars
<1> QED BY <1>2, <1>3, <1>4, <1>5, <1>6, <1>7
       DEF Next, ClientStep, ClaimStart, RefusedLeaseCall, SaveSweep

\* A prober that is past its lease check in the next state was there before, on
\* the same account, or has just found that account not leased.
LEMMA ProbeProgress ==
    ASSUME TypeOK, BusyWithAccount, [Next]_vars, NEW q \in Prober,
           probe'[q].pc \in {"send", "asked", "refreshed", "record"}
    PROVE  /\ probe'[q].account = probe[q].account
           /\ probe[q].account \in Account
           /\ \/ probe[q].pc \in {"send", "asked", "refreshed", "record"}
              \/ UNCHANGED acct /\ ~ Active(acct[probe[q].account])
<1> DEFINE Goal == /\ probe'[q].account = probe[q].account
                   /\ \/ probe[q].pc \in {"send", "asked", "refreshed", "record"}
                      \/ UNCHANGED acct /\ ~ Active(acct[probe[q].account])
<1> SUFFICES Goal
  BY NextBusy DEF BusyWithAccount
<1>1. probe[q] \in ProbeState
  BY DEF TypeOK
<1>2. CASE probe'[q].pc = probe[q].pc /\ probe'[q].account = probe[q].account
  BY <1>2
<1>3. Idle.pc = "next" /\ \A p \in Prober : \A x : Returned(p, x).pc = "next"
  BY DEF Idle, Returned
<1>4. CASE probe'[q].pc = "next"
  BY <1>4
<1>5. ASSUME NEW p \in Prober, Fetch(p) PROVE Goal
  <2>1. CASE q # p
    <3>1. probe'[q] = probe[q]
      BY <1>5, <2>1 DEF Fetch, FetchLoad, FetchRecheck, FetchSend, FetchAnswer,
         FetchRefresh, FetchRefused, FetchRecord, Answered, TypeOK
    <3> QED BY <1>2, <3>1
  <2>2. CASE q = p
    <3>1. ASSUME NEW a, FetchLoad(p, a) PROVE Goal
      <4>1. probe'[q].pc \in {"next", "recheck"}
        BY <1>1, <1>3, <2>2, <3>1 DEF FetchLoad, TypeOK, ProbeState
      <4> QED BY <4>1
    <3>2. CASE FetchRecheck(p)
      <4>1. CASE Active(acct[probe[q].account])
        BY <1>3, <1>4, <2>2, <3>2, <4>1 DEF FetchRecheck, TypeOK
      <4>2. CASE ~ Active(acct[probe[q].account])
        BY <1>1, <2>2, <3>2, <4>2 DEF FetchRecheck, TypeOK, ProbeState
      <4> QED BY <4>1, <4>2
    <3>3. CASE FetchSend(p)
      BY <1>1, <2>2, <3>3 DEF FetchSend, TypeOK, ProbeState
    <3>4. ASSUME NEW result, NEW token, Answered(p, result, token),
                 probe[p].pc \in {"asked", "refreshed"}
          PROVE  Goal
      BY <1>1, <2>2, <3>4 DEF Answered, TypeOK, ProbeState
    <3>5. CASE FetchAnswer(p) \/ FetchRefused(p)
      BY <3>4, <3>5 DEF FetchAnswer, FetchRefused
    <3>6. ASSUME NEW token, FetchRefresh(p, token) PROVE Goal
      <4>1. CASE probe' = [probe EXCEPT ![p].pc = "refreshed"]
        BY <1>1, <2>2, <3>6, <4>1 DEF FetchRefresh, TypeOK, ProbeState
      <4>2. CASE Answered(p, Failure("error"), NoToken)
        BY <3>4, <3>6, <4>2 DEF FetchRefresh
      <4> QED BY <3>6, <4>1, <4>2 DEF FetchRefresh
    <3>7. CASE FetchRecord(p)
      BY <1>3, <1>4, <2>2, <3>7 DEF FetchRecord, TypeOK
    <3> QED BY <1>5, <3>1, <3>2, <3>3, <3>5, <3>6, <3>7 DEF Fetch
  <2> QED BY <2>1, <2>2
<1>6. ASSUME NEW c \in Client, ClientStep(c) PROVE Goal
  <2>1. CASE ClaimStart(c)
    BY <1>1, <1>2, <2>1 DEF ClaimStart, TypeOK, ProbeState
  <2>2. CASE \E workspace \in Workspace, ttl \in TTL : Claim(c, workspace, ttl)
    <3>1. probe' = [probe EXCEPT ![c] = Idle]
      BY <2>2 DEF Claim
    <3> QED BY <1>2, <1>3, <1>4, <3>1 DEF TypeOK
  <2> QED BY <1>6, <2>1, <2>2 DEF ClientStep
<1>7. CASE \/ \E w \in Worker : WorkerStart(w)
           \/ \E v \in Viewer, a \in Account : ViewerStart(v, a)
  <2>1. \A p \in Prober : \A todo :
           probe' = [probe EXCEPT ![p].job = "fetch", ![p].todo = todo] =>
             probe'[q].pc = probe[q].pc /\ probe'[q].account = probe[q].account
    BY <1>1 DEF TypeOK, ProbeState
  <2>2. \E p \in Prober : \E todo :
           probe' = [probe EXCEPT ![p].job = "fetch", ![p].todo = todo]
    BY <1>7 DEF WorkerStart, ViewerStart, Prober
  <2> QED BY <1>2, <2>1, <2>2
<1>8. CASE Tick
  BY <1>1, <1>2, <1>8 DEF Tick, TypeOK, ProbeState
<1>9. CASE Crash \/ \E a \in Account, token \in Token \cup {NoToken} :
                      CrashBeforeSave(a, token)
  BY <1>3, <1>4, <1>9 DEF Crash, CrashBeforeSave, Restart
<1>10. CASE UNCHANGED probe
  BY <1>2, <1>10
<1>11. ASSUME NEW c \in Caller, NEW l \in 1..issued, NEW a \in Account,
              LeaseCall(c, l, a) PROVE UNCHANGED probe
  BY <1>11 DEF LeaseCall, Touch, Upload, Release, RecordLeasedQuota
<1>12. ASSUME NEW a \in Account, Operator(a) PROVE UNCHANGED probe
  BY <1>12 DEF Operator, SetStatus, SetOwner, SetAccountWorkspace, DeleteAccount,
     Push, RecordQuotaReport
<1>13. CASE RefusedLeaseCall \/ SelectAccountForRun \/ ResetRoundRobin \/ UNCHANGED vars
  BY <1>10, <1>13 DEF RefusedLeaseCall, SelectAccountForRun, ResetRoundRobin, vars
<1> QED BY <1>5, <1>6, <1>7, <1>8, <1>9, <1>10, <1>11, <1>12, <1>13 DEF Next

\* Only a prober that records its result is taken off the list, and it is
\* between two accounts then, or the server restarts.
LEMMA CrossedKept ==
    ASSUME TypeOK, [Next]_vars, NEW q \in crossed,
           probe'[q].pc \in {"send", "asked", "refreshed", "record"}
    PROVE  q \in crossed'
<1>1. q \in Prober /\ Idle.pc = "next" /\ \A p \in Prober : \A x : Returned(p, x).pc = "next"
  BY DEF TypeOK, Idle, Returned
<1>2. ASSUME NEW p \in Prober, Fetch(p) PROVE q \in crossed'
  <2>1. CASE FetchRecord(p)
    BY <1>1, <2>1 DEF FetchRecord, TypeOK
  <2>2. CASE ~ FetchRecord(p)
    BY <1>2, <2>2 DEF Fetch, FetchLoad, FetchRecheck, FetchSend, FetchAnswer,
       FetchRefresh, FetchRefused, history
  <2> QED BY <2>1, <2>2
<1>3. CASE Crash \/ \E a \in Account, token \in Token \cup {NoToken} :
                      CrashBeforeSave(a, token)
  BY <1>1, <1>3 DEF Crash, CrashBeforeSave, Restart
<1>4. ASSUME NEW c \in Client, ClientStep(c) PROVE q \in crossed'
  BY <1>4 DEF ClientStep, ClaimStart, Claim
<1>5. ASSUME NEW c \in Caller, NEW l \in 1..issued, NEW a \in Account,
             LeaseCall(c, l, a) PROVE q \in crossed'
  BY <1>5 DEF LeaseCall, Touch, Upload, Release, RecordLeasedQuota
<1>6. ASSUME NEW a \in Account, Operator(a) PROVE q \in crossed'
  BY <1>6 DEF Operator, SetStatus, SetOwner, SetAccountWorkspace, DeleteAccount,
     Push, RecordQuotaReport, history
<1>7. CASE \/ RefusedLeaseCall \/ SelectAccountForRun \/ ResetRoundRobin \/ Tick
           \/ UNCHANGED vars
           \/ \E w \in Worker : WorkerStart(w)
           \/ \E v \in Viewer, a \in Account : ViewerStart(v, a)
  BY <1>7 DEF RefusedLeaseCall, SelectAccountForRun, ResetRoundRobin, Tick,
     WorkerStart, ViewerStart, history, vars
<1> QED BY <1>2, <1>3, <1>4, <1>5, <1>6, <1>7 DEF Next

\* The probes that are under way while their account is leased are those that
\* looked the lease up before it was granted.
LEMMA ProbesStep ==
    ASSUME TypeOK, BusyWithAccount, ProbesPredateLeases, [Next]_vars
    PROVE  ProbesPredateLeases'
<1> SUFFICES ASSUME NEW q \in Prober,
                    probe'[q].pc \in {"send", "asked", "refreshed", "record"},
                    Active(acct'[probe'[q].account])
             PROVE  q \in crossed'
  BY DEF ProbesPredateLeases
<1> DEFINE a == probe[q].account
<1>1. /\ probe'[q].account = a /\ a \in Account
      /\ \/ probe[q].pc \in {"send", "asked", "refreshed", "record"}
         \/ UNCHANGED acct /\ ~ Active(acct[a])
  BY ProbeProgress
<1>2. Active(acct'[a])
  BY <1>1
<1>3. probe[q].pc \in {"send", "asked", "refreshed", "record"}
  BY <1>1, <1>2
<1>4. CASE Active(acct[a])
  BY <1>3, <1>4, CrossedKept DEF ProbesPredateLeases
<1>5. CASE ~ Active(acct[a])
  <2>1. PICK c \in Client, workspace \in Workspace, ttl \in TTL :
               Claim(c, workspace, ttl)
    BY <1>1, <1>2, <1>5, OnlyClaimsActivate
  <2>2. Swept[a].lease = 0 \/ ~ Active(Swept[a])
    BY <1>1, <1>5, SurvivorIsActive DEF Active
  <2>3. acct'[a] # Swept[a]
    BY <1>2, <2>2 DEF Active
  <2>4. crossed' = crossed \cup Probing(a)
    <3>1. ASSUME NEW b \in Picks(Quota, Candidates(workspace), last),
                 acct' = [Swept EXCEPT ![b].lease = issued + 1, ![b].client = c,
                                       ![b].left = normalizeLeaseTTL(ttl)]
          PROVE  b = a
      BY <1>1, <2>3, <3>1 DEF Swept
    <3> QED BY <2>1, <2>3, <3>1 DEF Claim
  <2> QED BY <1>3, <2>4 DEF Probing
<1> QED BY <1>4, <1>5

\* No probe begins on an account that is leased (the check in FetchQuota and
\* the second one in leaseActiveFresh, quota.go).
THEOREM ProbesPredateLeasesHolds == Spec => []ProbesPredateLeases
<1>1. Init => ProbesPredateLeases
  <2>1. Idle.pc = "next"
    BY DEF Idle
  <2> QED BY <2>1 DEF Init, ProbesPredateLeases
<1>2. TypeOK /\ BusyWithAccount /\ ProbesPredateLeases /\ [Next]_vars
        => ProbesPredateLeases'
  BY ProbesStep
<1> QED BY <1>1, <1>2, WellFormed, PTL DEF Spec

-----------------------------------------------------------------------------
(* Recovery checks and the leases they were made for                       *)

\* Every term that is granted is longer than a probe may take: the command line
\* client asks for 90 seconds, and an upload renews for as long.
TermsOutlastProbes ==
    \A ttl \in TTL \cup {DefaultTTL} : normalizeLeaseTTL(ttl) > ProbeMax

\* A probe is no older than it may get, and one whose account was leased in the
\* meantime will end before that lease does; so the lease cannot run out, and
\* make its account a suspect, under the probe.
LeasesOutlast ==
    /\ \A p \in Prober : /\ probe[p].age <= ProbeMax
                         /\ probe[p].pc = "next" => probe[p].account = 0
    /\ \A p \in crossed :
          /\ probe[p].pc \in {"send", "asked", "refreshed", "record"}
          /\ probe[p].account \notin suspect
          /\ acct[probe[p].account].lease # 0 =>
                acct[probe[p].account].left + probe[p].age > ProbeMax

\* But for the clock, a step leaves the time of a lease as it is, or grants one
\* of the terms.
LEMMA LeaseTimes ==
    ASSUME TypeOK, BusyWithAccount, TermsOutlastProbes, [Next]_vars, ~ Tick,
           NEW a \in Account, acct'[a].lease # 0
    PROVE  \/ acct[a].lease # 0 /\ acct'[a].left = acct[a].left
           \/ acct'[a].left > ProbeMax
<1> DEFINE Goal == \/ acct[a].lease # 0 /\ acct'[a].left = acct[a].left
                   \/ acct'[a].left > ProbeMax
<1> SUFFICES Goal
  OBVIOUS
<1> acct[a] \in AccountRow /\ Swept[a] \in AccountRow /\ Swept \in [Account -> AccountRow]
  BY SweepType DEF TypeOK
<1>1. CASE acct'[a].lease = acct[a].lease /\ acct'[a].left = acct[a].left
  BY <1>1
<1>2. CASE acct'[a] = Swept[a]
  BY <1>2, SurvivorIsActive DEF Active
<1>3. ASSUME NEW c \in Client, ClientStep(c) PROVE Goal
  <2>1. CASE ClaimStart(c)
    BY <1>2, <2>1 DEF ClaimStart, SaveSweep
  <2>2. ASSUME NEW workspace \in Workspace, NEW ttl \in TTL, Claim(c, workspace, ttl)
        PROVE  Goal
    <3>1. CASE acct' = Swept
      BY <1>2, <3>1
    <3>2. ASSUME NEW b,
                 acct' = [Swept EXCEPT ![b].lease = issued + 1, ![b].client = c,
                                       ![b].left = normalizeLeaseTTL(ttl)]
          PROVE  Goal
      <4>1. CASE a = b
        <5>1. acct'[a].left = normalizeLeaseTTL(ttl)
          BY <3>2, <4>1 DEF AccountRow
        <5> QED BY <5>1 DEF TermsOutlastProbes
      <4>2. CASE a # b
        BY <1>2, <3>2, <4>2
      <4> QED BY <4>1, <4>2
    <3> QED BY <2>2, <3>1, <3>2 DEF Claim
  <2> QED BY <1>3, <2>1, <2>2 DEF ClientStep
<1>4. ASSUME NEW c \in Caller, NEW l \in 1..issued, NEW b \in Account,
             LeaseCall(c, l, b)
      PROVE  Goal
  <2>1. ASSUME NEW ttl \in TTL, Touch(c, l, b, ttl) PROVE Goal
    <3>1. CASE a = b
      <4>1. acct'[a].left = normalizeLeaseTTL(ttl)
        BY <2>1, <3>1 DEF Touch, AccountRow
      <4> QED BY <4>1 DEF TermsOutlastProbes
    <3> QED BY <1>2, <2>1, <3>1 DEF Touch
  <2>2. ASSUME NEW generation, NEW token, NEW status,
               Upload(c, l, b, generation, token, status) PROVE Goal
    <3>1. CASE a = b
      <4>1. acct'[a].left = normalizeLeaseTTL(DefaultTTL)
        BY <2>2, <3>1 DEF Upload, AccountRow
      <4> QED BY <4>1 DEF TermsOutlastProbes
    <3> QED BY <1>2, <2>2, <3>1 DEF Upload
  <2>3. CASE Release(c, l, b)
    <3>1. CASE a = b
      BY <2>3, <3>1 DEF Release, clearAccountLease, AccountRow
    <3> QED BY <1>2, <2>3, <3>1 DEF Release
  <2>4. ASSUME NEW result, RecordLeasedQuota(c, l, b, result) PROVE Goal
    BY <1>1, <2>4, ResultKeepsLeases DEF RecordLeasedQuota
  <2> QED BY <1>4, <2>1, <2>2, <2>3, <2>4 DEF LeaseCall
<1>5. ASSUME NEW p \in Prober, Fetch(p) PROVE Goal
  <2>1. CASE FetchRecord(p)
    <3>1. WriteQuotaResult(probe[p].account, probe[p].result, probe[p].changed,
                           "cloud", FALSE)
      BY <2>1 DEF FetchRecord
    <3> QED BY <1>1, <3>1, ResultKeepsLeases
  <2>2. CASE ~ FetchRecord(p)
    BY <1>1, <1>5, <2>2 DEF Fetch, FetchLoad, FetchRecheck, FetchSend, FetchAnswer,
       FetchRefresh, FetchRefused
  <2> QED BY <2>1, <2>2
<1>6. ASSUME NEW b \in Account, Operator(b) PROVE Goal
  <2>1. CASE acct'[a] = acct[a]
    BY <1>1, <2>1
  <2>2. CASE \E status \in AdminStatus : SetStatus(b, status)
    BY <1>1, <2>2 DEF SetStatus, TypeOK, AccountRow
  <2>3. ASSUME NEW owner, SetOwner(b, owner) PROVE Goal
    <3>1. CASE owner = "client" /\ a = b
      BY <2>3, <3>1 DEF SetOwner, TypeOK, clearAccountLease, AccountRow
    <3>2. CASE ~ (owner = "client" /\ a = b)
      BY <1>1, <2>3, <3>2 DEF SetOwner, TypeOK, AccountRow
    <3> QED BY <3>1, <3>2
  <2>4. CASE \E workspace \in Workspace : SetAccountWorkspace(b, workspace)
    BY <1>1, <2>4 DEF SetAccountWorkspace, TypeOK, AccountRow
  <2>5. CASE DeleteAccount(b)
    BY <2>1, <2>5 DEF DeleteAccount, TypeOK, Absent
  <2>6. ASSUME NEW token, NEW status, NEW owner, Push(b, token, status, owner)
        PROVE  Goal
    <3>1. ~ Active(acct[b]) /\ acct[b] \in AccountRow
      BY <2>6 DEF Push, TypeOK
    <3> DEFINE row == IF acct[b].present THEN [acct[b] EXCEPT !.generation = @ + 1]
                      ELSE Imported
               new == [row EXCEPT !.status = IF status = "" THEN @ ELSE status,
                                  !.owner = IF owner = "" THEN @ ELSE owner]
    <3>2. acct' = [acct EXCEPT ![b] = row] \/ acct' = [acct EXCEPT ![b] = new]
      BY <2>6 DEF Push
    <3>3. Imported \in AccountRow /\ Imported.lease = 0
      BY WorkspaceAssumption
         DEF Imported, Absent, AccountRow, Status, OwnerMode, Caller
    <3>4. row \in AccountRow /\ (row.lease = 0 \/ (row.lease = acct[b].lease
                                                  /\ row.left = acct[b].left))
      BY <3>1, <3>3 DEF AccountRow
    <3> HIDE DEF row
    <3>5. new.lease = row.lease /\ new.left = row.left
      BY <3>4 DEF AccountRow
    <3> HIDE DEF new
    <3>6. CASE a # b
      BY <2>1, <3>2, <3>6 DEF TypeOK
    <3>7. CASE a = b
      BY <1>1, <3>2, <3>4, <3>5, <3>7 DEF TypeOK
    <3> QED BY <3>6, <3>7
  <2>7. ASSUME NEW result, RecordQuotaReport(b, result) PROVE Goal
    BY <1>1, <2>7, ResultKeepsLeases DEF RecordQuotaReport
  <2> QED BY <1>6, <2>2, <2>3, <2>4, <2>5, <2>6, <2>7 DEF Operator
<1>7. CASE RefusedLeaseCall
  BY <1>2, <1>7 DEF RefusedLeaseCall, SaveSweep
<1>8. CASE \/ SelectAccountForRun \/ ResetRoundRobin \/ Crash \/ UNCHANGED vars
           \/ \E w \in Worker : WorkerStart(w)
           \/ \E v \in Viewer, b \in Account : ViewerStart(v, b)
           \/ \E b \in Account, token \in Token \cup {NoToken} : CrashBeforeSave(b, token)
  BY <1>1, <1>8 DEF SelectAccountForRun, ResetRoundRobin, Crash, CrashBeforeSave,
     WorkerStart, ViewerStart, vars
<1> QED BY <1>3, <1>4, <1>5, <1>6, <1>7, <1>8 DEF Next

\* Only the sweep makes suspects, of accounts whose lease has run out.
LEMMA OnlyLapsesSuspect ==
    ASSUME TypeOK, [Next]_vars
    PROVE  suspect' \subseteq suspect \cup {a \in Account : Lapsed(acct[a])}
<1> DEFINE Goal == suspect' \subseteq suspect \cup {a \in Account : Lapsed(acct[a])}
<1>1. CASE suspect' = SweptSuspects
  BY <1>1 DEF SweptSuspects, LapsedAccounts
<1>2. CASE suspect' \subseteq suspect
  BY <1>2
<1>3. ASSUME NEW c \in Client, ClientStep(c) PROVE Goal
  BY <1>1, <1>3 DEF ClientStep, ClaimStart, SaveSweep, Claim
<1>4. ASSUME NEW c \in Caller, NEW l \in 1..issued, NEW a \in Account,
             LeaseCall(c, l, a) PROVE Goal
  <2>1. ASSUME NEW result, RecordLeasedQuota(c, l, a, result) PROVE Goal
    BY <1>2, <2>1 DEF RecordLeasedQuota, WriteQuotaResult
  <2> QED BY <1>1, <1>4, <2>1 DEF LeaseCall, Touch, Upload, Release
<1>5. ASSUME NEW p \in Prober, Fetch(p) PROVE Goal
  BY <1>2, <1>5 DEF Fetch, FetchLoad, FetchRecheck, FetchSend, FetchAnswer,
     FetchRefresh, FetchRefused, FetchRecord, WriteQuotaResult, history
<1>6. ASSUME NEW a \in Account, Operator(a) PROVE Goal
  BY <1>2, <1>6 DEF Operator, SetStatus, SetOwner, SetAccountWorkspace, DeleteAccount,
     Push, RecordQuotaReport, WriteQuotaResult, history
<1>7. CASE \/ SelectAccountForRun \/ ResetRoundRobin \/ Tick \/ Crash
           \/ \E w \in Worker : WorkerStart(w)
           \/ \E v \in Viewer, a \in Account : ViewerStart(v, a)
           \/ \E a \in Account, token \in Token \cup {NoToken} : CrashBeforeSave(a, token)
           \/ UNCHANGED vars
  BY <1>2, <1>7 DEF SelectAccountForRun, ResetRoundRobin, Tick, Crash, CrashBeforeSave,
     WorkerStart, ViewerStart, history, vars
<1> QED BY <1>1, <1>3, <1>4, <1>5, <1>6, <1>7 DEF Next, RefusedLeaseCall, SaveSweep

\* A prober grows older only with the clock, and starts anew between two accounts;
\* one whose account was leased goes on until it records its result.
LEMMA ProbersAge ==
    ASSUME TypeOK, [Next]_vars, NEW q \in Prober,
           probe[q].age <= ProbeMax, probe[q].pc = "next" => probe[q].account = 0
    PROVE  /\ probe'[q].age <= ProbeMax
           /\ probe'[q].pc = "next" => probe'[q].account = 0
           /\ ~ Tick => probe'[q].pc = "next" \/ probe'[q].age = probe[q].age
           /\ q \in crossed' /\ probe[q].pc \in {"send", "asked", "refreshed", "record"} =>
                 probe'[q].pc \in {"send", "asked", "refreshed", "record"}
<1> DEFINE Past == {"send", "asked", "refreshed", "record"}
           Goal == /\ probe'[q].age <= ProbeMax
                   /\ probe'[q].pc = "next" => probe'[q].account = 0
                   /\ ~ Tick => probe'[q].pc = "next" \/ probe'[q].age = probe[q].age
                   /\ q \in crossed' /\ probe[q].pc \in Past => probe'[q].pc \in Past
<1> SUFFICES Goal
  OBVIOUS
<1>1. probe[q] \in ProbeState /\ ProbeMax \in Nat
  BY TermAssumption DEF TypeOK
<1>2. CASE /\ probe'[q].pc = probe[q].pc /\ probe'[q].account = probe[q].account
           /\ probe'[q].age = probe[q].age
  BY <1>2
<1>3. /\ Idle.pc = "next" /\ Idle.account = 0 /\ Idle.age = 0
      /\ \A p \in Prober : \A x : /\ Returned(p, x).pc = "next"
                                  /\ Returned(p, x).account = 0
                                  /\ Returned(p, x).age = 0
  BY DEF Idle, Returned
<1>4. CASE /\ probe'[q].pc = "next" /\ probe'[q].account = 0 /\ probe'[q].age = 0
           /\ probe[q].pc \notin Past \/ q \notin crossed'
  BY <1>1, <1>4
<1>5. ASSUME NEW p \in Prober, Fetch(p) PROVE Goal
  <2>1. CASE q # p
    <3>1. probe'[q] = probe[q]
      BY <1>5, <2>1 DEF Fetch, FetchLoad, FetchRecheck, FetchSend, FetchAnswer,
         FetchRefresh, FetchRefused, FetchRecord, Answered, TypeOK
    <3> QED BY <1>2, <3>1
  <2>2. CASE q = p
    <3>0. ASSUME NEW s, probe' = [probe EXCEPT ![p] = s], s.age = probe[q].age,
                 s.pc # "next", probe[q].pc \in Past => s.pc \in Past
          PROVE  Goal
      BY <2>2, <3>0 DEF TypeOK
    <3>1. ASSUME NEW a \in Account, FetchLoad(p, a) PROVE Goal
      <4>1. CASE probe' = [probe EXCEPT ![p] = Returned(p, a)]
        BY <1>3, <1>4, <2>2, <3>1, <4>1 DEF FetchLoad, TypeOK
      <4> DEFINE s == [probe[p] EXCEPT !.pc = "recheck", !.account = a]
      <4>2. CASE probe' = [probe EXCEPT ![p] = s]
        <5>1. s.age = probe[q].age /\ s.pc = "recheck" /\ probe[q].pc = "next"
          BY <1>1, <2>2, <3>1 DEF ProbeState, FetchLoad
        <5> QED BY <3>0, <4>2, <5>1
      <4> QED BY <3>1, <4>1, <4>2 DEF FetchLoad, TypeOK
    <3>2. CASE FetchRecheck(p)
      <4>1. CASE Active(acct[probe[q].account])
        BY <1>3, <1>4, <2>2, <3>2, <4>1 DEF FetchRecheck, TypeOK
      <4> DEFINE s == [probe[p] EXCEPT !.pc = "send"]
      <4>2. CASE ~ Active(acct[probe[q].account])
        <5>1. s.age = probe[q].age /\ s.pc = "send"
          BY <1>1, <2>2 DEF ProbeState
        <5> QED BY <2>2, <3>0, <3>2, <4>2, <5>1 DEF FetchRecheck, TypeOK
      <4> QED BY <4>1, <4>2
    <3>3. CASE FetchSend(p)
      BY <1>1, <2>2, <3>3 DEF FetchSend, TypeOK, ProbeState
    <3>4. ASSUME NEW result, NEW token, Answered(p, result, token),
                 probe[p].pc \in {"asked", "refreshed"}
          PROVE  Goal
      BY <1>1, <2>2, <3>4 DEF Answered, TypeOK, ProbeState
    <3>5. CASE FetchAnswer(p) \/ FetchRefused(p)
      BY <3>4, <3>5 DEF FetchAnswer, FetchRefused
    <3>6. ASSUME NEW token, FetchRefresh(p, token) PROVE Goal
      <4>1. CASE probe' = [probe EXCEPT ![p].pc = "refreshed"]
        BY <1>1, <2>2, <3>6, <4>1 DEF FetchRefresh, TypeOK, ProbeState
      <4>2. CASE Answered(p, Failure("error"), NoToken)
        BY <3>4, <3>6, <4>2 DEF FetchRefresh
      <4> QED BY <3>6, <4>1, <4>2 DEF FetchRefresh
    <3>7. CASE FetchRecord(p)
      BY <1>3, <1>4, <2>2, <3>7 DEF FetchRecord, TypeOK
    <3> QED BY <1>5, <3>1, <3>2, <3>3, <3>5, <3>6, <3>7 DEF Fetch
  <2> QED BY <2>1, <2>2
<1>6. ASSUME NEW c \in Client, ClientStep(c) PROVE Goal
  <2>1. CASE ClaimStart(c)
    BY <1>1, <1>2, <2>1 DEF ClaimStart, TypeOK, ProbeState
  <2>2. CASE \E workspace \in Workspace, ttl \in TTL : Claim(c, workspace, ttl)
    <3>1. probe' = [probe EXCEPT ![c] = Idle] /\ probe[c].pc = "next"
      BY <2>2 DEF Claim
    <3> QED BY <1>2, <1>3, <1>4, <3>1 DEF TypeOK
  <2> QED BY <1>6, <2>1, <2>2 DEF ClientStep
<1>7. CASE \/ \E w \in Worker : WorkerStart(w)
           \/ \E v \in Viewer, a \in Account : ViewerStart(v, a)
  <2>1. \A p \in Prober : \A todo :
           probe' = [probe EXCEPT ![p].job = "fetch", ![p].todo = todo] =>
             /\ probe'[q].pc = probe[q].pc /\ probe'[q].account = probe[q].account
             /\ probe'[q].age = probe[q].age
    BY <1>1 DEF TypeOK, ProbeState
  <2>2. \E p \in Prober : \E todo :
           probe' = [probe EXCEPT ![p].job = "fetch", ![p].todo = todo]
    BY <1>7 DEF WorkerStart, ViewerStart, Prober
  <2> QED BY <1>2, <2>1, <2>2
<1>8. CASE Tick
  <2>1. CASE probe[q].pc = "next"
    BY <1>2, <1>8, <2>1 DEF Tick
  <2>2. CASE probe[q].pc # "next"
    <3>1. /\ probe[q].age < ProbeMax
          /\ probe'[q] = [probe[q] EXCEPT !.age = @ + 1, !.result = Aged(@)]
      BY <1>8, <2>2 DEF Tick
    <3>2. probe'[q].age = probe[q].age + 1 /\ probe'[q].pc = probe[q].pc
      BY <1>1, <3>1 DEF ProbeState
    <3>3. probe[q].age \in Nat
      BY <1>1 DEF ProbeState
    <3> QED BY <1>1, <1>8, <2>2, <3>1, <3>2, <3>3
  <2> QED BY <2>1, <2>2
<1>9. CASE Crash \/ \E a \in Account, token \in Token \cup {NoToken} :
                      CrashBeforeSave(a, token)
  BY <1>3, <1>4, <1>9 DEF Crash, CrashBeforeSave, Restart
<1>10. CASE UNCHANGED probe
  BY <1>2, <1>10
<1>11. ASSUME NEW c \in Caller, NEW l \in 1..issued, NEW a \in Account,
              LeaseCall(c, l, a) PROVE UNCHANGED probe
  BY <1>11 DEF LeaseCall, Touch, Upload, Release, RecordLeasedQuota
<1>12. ASSUME NEW a \in Account, Operator(a) PROVE UNCHANGED probe
  BY <1>12 DEF Operator, SetStatus, SetOwner, SetAccountWorkspace, DeleteAccount,
     Push, RecordQuotaReport
<1>13. CASE RefusedLeaseCall \/ SelectAccountForRun \/ ResetRoundRobin \/ UNCHANGED vars
  BY <1>10, <1>13 DEF RefusedLeaseCall, SelectAccountForRun, ResetRoundRobin, vars
<1> QED BY <1>5, <1>6, <1>7, <1>8, <1>9, <1>10, <1>11, <1>12, <1>13 DEF Next

\* A prober is listed as crossed by a claim of its account.
LEMMA OnlyClaimsCross ==
    ASSUME TypeOK, [Next]_vars, NEW q \in crossed', q \notin crossed
    PROVE  \E c \in Client, workspace \in Workspace, ttl \in TTL, a \in Account :
              /\ Claim(c, workspace, ttl) /\ q \in Probing(a)
              /\ acct'[a].lease # 0 /\ acct'[a].left = normalizeLeaseTTL(ttl)
<1>1. ASSUME UNCHANGED crossed \/ crossed' \subseteq crossed PROVE FALSE
  BY <1>1
<1>2. ASSUME NEW c \in Client, NEW workspace \in Workspace, NEW ttl \in TTL,
             Claim(c, workspace, ttl)
      PROVE  \E a \in Account :
                /\ q \in Probing(a)
                /\ acct'[a].lease # 0 /\ acct'[a].left = normalizeLeaseTTL(ttl)
  <2>1. PICK a \in Picks(Quota, Candidates(workspace), last) :
            /\ acct' = [Swept EXCEPT ![a].lease = issued + 1, ![a].client = c,
                                     ![a].left = normalizeLeaseTTL(ttl)]
            /\ crossed' = crossed \cup Probing(a)
    BY <1>1, <1>2 DEF Claim
  <2>2. a \in Account
    BY DEF Picks, Candidates
  <2>3. Swept[a] \in AccountRow /\ Swept \in [Account -> AccountRow] /\ issued \in Nat
    BY <2>2, SweepType DEF TypeOK
  <2>4. acct'[a] = [Swept[a] EXCEPT !.lease = issued + 1, !.client = c,
                                    !.left = normalizeLeaseTTL(ttl)]
    BY <2>1, <2>2, <2>3
  <2>5. acct'[a].lease # 0 /\ acct'[a].left = normalizeLeaseTTL(ttl)
    BY <2>3, <2>4 DEF AccountRow
  <2> QED BY <2>1, <2>2, <2>5
<1>3. ASSUME NEW p \in Prober, Fetch(p) PROVE FALSE
  BY <1>1, <1>3 DEF Fetch, FetchLoad, FetchRecheck, FetchSend, FetchAnswer,
     FetchRefresh, FetchRefused, FetchRecord, history
<1>4. ASSUME NEW c \in Caller, NEW l \in 1..issued, NEW a \in Account,
             LeaseCall(c, l, a) PROVE FALSE
  BY <1>1, <1>4 DEF LeaseCall, Touch, Upload, Release, RecordLeasedQuota
<1>5. ASSUME NEW a \in Account, Operator(a) PROVE FALSE
  BY <1>1, <1>5 DEF Operator, SetStatus, SetOwner, SetAccountWorkspace, DeleteAccount,
     Push, RecordQuotaReport, history
<1>6. CASE \/ RefusedLeaseCall \/ SelectAccountForRun \/ ResetRoundRobin \/ Tick
           \/ Crash \/ UNCHANGED vars \/ \E c \in Client : ClaimStart(c)
           \/ \E w \in Worker : WorkerStart(w)
           \/ \E v \in Viewer, a \in Account : ViewerStart(v, a)
           \/ \E a \in Account, token \in Token \cup {NoToken} : CrashBeforeSave(a, token)
  BY <1>1, <1>6 DEF RefusedLeaseCall, SelectAccountForRun, ResetRoundRobin, Tick, Crash,
     Restart, CrashBeforeSave, ClaimStart, WorkerStart, ViewerStart, history, vars
<1> QED BY <1>2, <1>3, <1>4, <1>5, <1>6 DEF Next, ClientStep

\* LeasesOutlast is inductive.
LEMMA OutlastStep ==
    ASSUME TypeOK, BusyWithAccount, Quarantine, TermsOutlastProbes, LeasesOutlast,
           [Next]_vars
    PROVE  LeasesOutlast'
<1>1. \A p \in Prober : /\ probe'[p].age <= ProbeMax
                        /\ probe'[p].pc = "next" => probe'[p].account = 0
  BY ProbersAge DEF LeasesOutlast
<1>2. ProbeMax \in Nat /\ TypeOK' /\ Quarantine'
  BY TermAssumption, NextType, QuarantineStep
<1>3. ASSUME NEW q \in crossed'
      PROVE  /\ probe'[q].pc \in {"send", "asked", "refreshed", "record"}
             /\ probe'[q].account \notin suspect'
             /\ acct'[probe'[q].account].lease # 0 =>
                   acct'[probe'[q].account].left + probe'[q].age > ProbeMax
  <2>1. q \in Prober
    BY <1>2 DEF TypeOK
  <2>2. probe[q] \in ProbeState /\ probe'[q] \in ProbeState
    BY <1>2, <2>1 DEF TypeOK
  <2>3. probe[q].age \in Nat /\ probe'[q].age \in Nat /\ probe[q].age <= ProbeMax
    BY <2>1, <2>2 DEF ProbeState, LeasesOutlast
  <2>4. CASE q \in crossed
    <3> DEFINE a == probe[q].account
    <3>1. /\ probe[q].pc \in {"send", "asked", "refreshed", "record"}
          /\ a \notin suspect
          /\ acct[a].lease # 0 => acct[a].left + probe[q].age > ProbeMax
      BY <2>4 DEF LeasesOutlast
    <3>2. /\ probe'[q].pc \in {"send", "asked", "refreshed", "record"}
          /\ ~ Tick => probe'[q].pc = "next" \/ probe'[q].age = probe[q].age
      BY <2>1, <3>1, ProbersAge DEF LeasesOutlast
    <3>3. probe'[q].account = a /\ a \in Account
      BY <2>1, <3>2, ProbeProgress
    <3>4. acct[a] \in AccountRow /\ acct'[a] \in AccountRow
      BY <1>2, <3>3 DEF TypeOK
    <3>5. acct[a].left \in Nat /\ acct'[a].left \in Nat
      BY <3>4 DEF AccountRow
    <3>6. ~ Lapsed(acct[a])
      BY <1>2, <2>3, <3>1, <3>5 DEF Lapsed
    <3>7. a \notin suspect'
      BY <3>1, <3>6, OnlyLapsesSuspect
    <3>8. ASSUME acct'[a].lease # 0 PROVE acct'[a].left + probe'[q].age > ProbeMax
      <4>1. CASE Tick
        <5>1. /\ acct'[a].lease = acct[a].lease
              /\ acct'[a].left = IF acct[a].left > 0 THEN acct[a].left - 1 ELSE 0
          BY <3>3, <3>4, <4>1 DEF Tick, AccountRow
        <5>2. probe'[q] = [probe[q] EXCEPT !.age = @ + 1, !.result = Aged(@)]
          BY <2>1, <3>1, <4>1 DEF Tick
        <5>3. probe'[q].age = probe[q].age + 1
          BY <2>2, <5>2 DEF ProbeState
        <5> HIDE DEF a
        <5> QED BY <1>2, <2>3, <3>1, <3>5, <3>8, <5>1, <5>3
      <4>2. CASE ~ Tick
        <5>1. probe'[q].age = probe[q].age
          BY <3>2, <4>2
        <5>2. \/ acct[a].lease # 0 /\ acct'[a].left = acct[a].left
              \/ acct'[a].left > ProbeMax
          BY <3>3, <3>8, <4>2, LeaseTimes
        <5> HIDE DEF a
        <5> QED BY <1>2, <2>3, <3>1, <3>5, <5>1, <5>2
      <4> QED BY <4>1, <4>2
    <3> QED BY <3>2, <3>3, <3>7, <3>8
  <2>5. CASE q \notin crossed
    <3>1. PICK c \in Client, workspace \in Workspace, ttl \in TTL, a \in Account :
              /\ Claim(c, workspace, ttl) /\ q \in Probing(a)
              /\ acct'[a].lease # 0 /\ acct'[a].left = normalizeLeaseTTL(ttl)
      BY <2>5, OnlyClaimsCross
    <3>2. a # 0
      BY AccountAssumption
    <3>3. /\ probe[q].account = a
          /\ probe[q].pc \in {"send", "asked", "refreshed", "record"}
      BY <2>1, <2>2, <3>1, <3>2 DEF Probing, ProbeState, ProbePC, LeasesOutlast
    <3>4. probe' = [probe EXCEPT ![c] = Idle] /\ probe[c].pc = "next"
      BY <3>1 DEF Claim
    <3>5. probe'[q] = probe[q]
      BY <2>1, <3>3, <3>4 DEF TypeOK
    <3>6. a \notin suspect'
      BY <1>2, <3>1 DEF Quarantine
    <3>7. acct'[a].left > ProbeMax /\ acct'[a].left \in Nat
      BY <1>2, <3>1 DEF TermsOutlastProbes, TypeOK, AccountRow
    <3>8. acct'[a].left + probe'[q].age > ProbeMax
      BY <1>2, <2>3, <3>5, <3>7
    <3> QED BY <3>3, <3>5, <3>6, <3>8
  <2> QED BY <2>4, <2>5
<1> QED BY <1>1, <1>3 DEF LeasesOutlast

\* The probe that returns an account to the pool after its lease ran out began
\* after that lease (RecoverExpiredLeases and recordQuotaResult), if the terms
\* are longer than a probe takes: the code relies on its timeouts for that.
THEOREM RecoveriesVerify ==
    ASSUME TermsOutlastProbes PROVE Spec => VerifiedAfterExpiry
<1> DEFINE Late == \A p \in Prober :
              LET a == probe[p].account
              IN  /\ probe[p].pc = "record" /\ probe'[p].pc # "record"
                  /\ a \in suspect /\ acct[a].status = "recovering"
                  /\ acct'[a].status = "ready"
                  => p \notin crossed
<1>1. Init => LeasesOutlast
  <2>1. Idle.account = 0 /\ Idle.age <= ProbeMax
    BY TermAssumption DEF Idle
  <2>2. Init => crossed = {} /\ \A p \in Prober : probe[p] = Idle
    BY DEF Init
  <2> QED BY <2>1, <2>2 DEF LeasesOutlast
<1>2. TypeOK /\ BusyWithAccount /\ Quarantine /\ LeasesOutlast /\ [Next]_vars
        => LeasesOutlast'
  BY OutlastStep
<1>3. LeasesOutlast => Late
  BY DEF LeasesOutlast
<1>4. Spec => []LeasesOutlast
  BY <1>1, <1>2, WellFormed, QuarantineHolds, PTL DEF Spec
<1> HIDE DEF Late
<1>5. Spec => [][Late]_vars
  BY <1>3, <1>4, PTL
<1> QED BY <1>5 DEF Late, VerifiedAfterExpiry

-----------------------------------------------------------------------------
(* The dispatch history and the rows                                       *)

\* LedgerMatchesLeases, of any rows, history and count of leases.
Ledger(rows, log, n) ==
    /\ \A d \in log : d.lease \in 1..n
    /\ \A l \in 1..n : \E d \in log : d.lease = l /\ d.event = "claimed"
    /\ \A d, e \in log : d.lease = e.lease =>
          /\ d.account = e.account /\ d.client = e.client
          /\ d.event # "claimed" /\ e.event # "claimed" => d = e
    /\ \A a \in Account : rows[a].lease # 0 =>
          /\ DispatchOf(rows[a], a, "claimed") \in log
          /\ \A d \in log : d.lease = rows[a].lease => d.event = "claimed"

\* It says the same of the variables.
LEMMA LedgerIs == LedgerMatchesLeases <=> Ledger(acct, dispatches, issued)
<1>1. \A l : Final(l) = {d \in dispatches : d.lease = l /\ d.event # "claimed"}
  BY DEF Final
<1>2. \A a \in Account : Final(acct[a].lease) = {} <=>
         \A d \in dispatches : d.lease = acct[a].lease => d.event = "claimed"
  BY <1>1
<1>3. \A d, e \in dispatches : d.lease = e.lease =>
         (/\ {d, e} \subseteq Final(d.lease) => d = e)
         <=> (d.event # "claimed" /\ e.event # "claimed" => d = e)
  BY <1>1
<1> QED BY <1>2, <1>3 DEF LedgerMatchesLeases, Ledger

\* Two accounts never name the same lease.
LEMMA OneAccountPerLease ==
    ASSUME NEW rows, NEW log, NEW n \in Nat, Ledger(rows, log, n),
           NEW a \in Account, NEW b \in Account,
           rows[a].lease # 0, rows[a].lease = rows[b].lease
    PROVE  a = b
<1>1. /\ DispatchOf(rows[a], a, "claimed") \in log
      /\ DispatchOf(rows[b], b, "claimed") \in log
  BY DEF Ledger
<1>2. DispatchOf(rows[a], a, "claimed").lease = DispatchOf(rows[b], b, "claimed").lease
  BY DEF DispatchOf
<1>3. DispatchOf(rows[a], a, "claimed").account = DispatchOf(rows[b], b, "claimed").account
  BY <1>1, <1>2 DEF Ledger
<1> QED BY <1>3 DEF DispatchOf

\* Leases leave rows: the history says why for those of the accounts in ended,
\* and is silent about the others.
LEMMA LeasesEnd ==
    ASSUME NEW rows \in [Account -> AccountRow], NEW log, NEW n \in Nat,
           Ledger(rows, log, n),
           NEW ended \in SUBSET Account, NEW event \in {"released", "expired"},
           \A a \in ended : rows[a].lease # 0,
           NEW later,
           \A a \in ended : later[a].lease = 0,
           \A a \in Account : \/ later[a].lease = 0
                              \/ /\ later[a].lease = rows[a].lease
                                 /\ later[a].client = rows[a].client
    PROVE  Ledger(later, log \cup {DispatchOf(rows[a], a, event) : a \in ended}, n)
<1> DEFINE new == {DispatchOf(rows[a], a, event) : a \in ended}
           all == log \cup new
<1>1. ASSUME NEW d \in new
      PROVE  \E a \in ended : /\ d = DispatchOf(rows[a], a, event)
                              /\ d.lease = rows[a].lease /\ d.account = a
                              /\ d.client = rows[a].client /\ d.event = event
  BY DEF DispatchOf
<1>2. ASSUME NEW a \in Account, rows[a].lease # 0
      PROVE  /\ rows[a].lease \in 1..n
             /\ \E d \in log : /\ d.lease = rows[a].lease /\ d.account = a
                               /\ d.client = rows[a].client
             /\ \A d \in log : d.lease = rows[a].lease =>
                   d.event = "claimed" /\ d.account = a /\ d.client = rows[a].client
  <2>1. DispatchOf(rows[a], a, "claimed") \in log
    BY <1>2 DEF Ledger
  <2>2. /\ DispatchOf(rows[a], a, "claimed").lease = rows[a].lease
        /\ DispatchOf(rows[a], a, "claimed").account = a
        /\ DispatchOf(rows[a], a, "claimed").client = rows[a].client
    BY DEF DispatchOf
  <2> QED BY <1>2, <2>1, <2>2 DEF Ledger
<1> HIDE DEF new
<1>3. \A d \in all : d.lease \in 1..n
  BY <1>1, <1>2 DEF Ledger
<1>4. \A l \in 1..n : \E d \in all : d.lease = l /\ d.event = "claimed"
  BY DEF Ledger
<1>5. ASSUME NEW d \in all, NEW e \in all, d.lease = e.lease
      PROVE  /\ d.account = e.account /\ d.client = e.client
             /\ d.event # "claimed" /\ e.event # "claimed" => d = e
  <2>1. CASE d \in log /\ e \in log
    BY <1>5, <2>1 DEF Ledger
  <2>2. CASE d \in new /\ e \in log
    BY <1>1, <1>2, <1>5, <2>2
  <2>3. CASE d \in log /\ e \in new
    BY <1>1, <1>2, <1>5, <2>3
  <2>4. CASE d \in new /\ e \in new
    <3>1. PICK a \in ended : d = DispatchOf(rows[a], a, event) /\ d.lease = rows[a].lease
      BY <1>1, <2>4
    <3>2. PICK b \in ended : e = DispatchOf(rows[b], b, event) /\ e.lease = rows[b].lease
      BY <1>1, <2>4
    <3>3. a = b
      BY <1>5, <3>1, <3>2, OneAccountPerLease
    <3> QED BY <3>1, <3>2, <3>3
  <2> QED BY <2>1, <2>2, <2>3, <2>4
<1>6. ASSUME NEW a \in Account, later[a].lease # 0
      PROVE  /\ DispatchOf(later[a], a, "claimed") \in all
             /\ \A d \in all : d.lease = later[a].lease => d.event = "claimed"
  <2>1. /\ later[a].lease = rows[a].lease /\ later[a].client = rows[a].client
        /\ a \notin ended
    BY <1>6
  <2>2. DispatchOf(later[a], a, "claimed") \in log
    BY <1>6, <2>1 DEF DispatchOf, Ledger
  <2>3. ASSUME NEW d \in new, d.lease = later[a].lease PROVE FALSE
    BY <1>1, <1>6, <2>1, <2>3, OneAccountPerLease
  <2> QED BY <1>2, <1>6, <2>1, <2>2, <2>3
<1> QED BY <1>3, <1>4, <1>5, <1>6 DEF Ledger, new

\* A new lease is the next one, on an account that carries none.
LEMMA LeaseBegins ==
    ASSUME NEW rows \in [Account -> AccountRow], NEW log, NEW n \in Nat,
           Ledger(rows, log, n), NEW a \in Account, NEW c, NEW term
    PROVE  Ledger([rows EXCEPT ![a].lease = n + 1, ![a].client = c, ![a].left = term],
                  log \cup {[lease |-> n + 1, account |-> a, client |-> c,
                             event |-> "claimed"]},
                  n + 1)
<1> DEFINE later == [rows EXCEPT ![a].lease = n + 1, ![a].client = c, ![a].left = term]
           claim == [lease |-> n + 1, account |-> a, client |-> c, event |-> "claimed"]
           all == log \cup {claim}
<1>1. /\ later[a].lease = n + 1 /\ later[a].client = c
      /\ \A b \in Account \ {a} : later[b] = rows[b]
  BY DEF AccountRow
<1>2. claim.lease = n + 1 /\ claim.event = "claimed"
  OBVIOUS
<1>3. \A d \in log : d.lease \in 1..n /\ d.lease # n + 1 /\ d.lease \in 1..(n + 1)
  BY DEF Ledger
<1>4. DispatchOf(later[a], a, "claimed") = claim
  BY <1>1 DEF DispatchOf
<1>5. ASSUME NEW b \in Account, later[b].lease # 0
      PROVE  /\ DispatchOf(later[b], b, "claimed") \in all
             /\ \A d \in all : d.lease = later[b].lease => d.event = "claimed"
  <2>1. CASE b = a
    BY <1>1, <1>2, <1>3, <1>4, <2>1
  <2>2. CASE b # a
    BY <1>1, <1>2, <1>5, <2>2 DEF Ledger
  <2> QED BY <2>1, <2>2
<1> HIDE DEF later, claim
<1>6. \A d \in all : d.lease \in 1..(n + 1)
  BY <1>2, <1>3
<1>7. \A l \in 1..(n + 1) : \E d \in all : d.lease = l /\ d.event = "claimed"
  <2>1. ASSUME NEW l \in 1..(n + 1) PROVE l \in 1..n \/ l = n + 1
    OBVIOUS
  <2> QED BY <1>2, <2>1 DEF Ledger
<1>8. \A d, e \in all : d.lease = e.lease =>
         /\ d.account = e.account /\ d.client = e.client
         /\ d.event # "claimed" /\ e.event # "claimed" => d = e
  BY <1>2, <1>3 DEF Ledger
<1>9. Ledger(later, all, n + 1)
  BY <1>5, <1>6, <1>7, <1>8 DEF Ledger
<1> QED BY <1>9 DEF later, claim

\* The sweep ends the lapsed leases and says so.
LEMMA SweepLedger ==
    ASSUME TypeOK, Ledger(acct, dispatches, issued)
    PROVE  Ledger(Swept, SweptDispatches, issued)
<1>1. LapsedAccounts \in SUBSET Account /\ \A a \in LapsedAccounts : acct[a].lease # 0
  BY DEF LapsedAccounts, Lapsed
<1>2. \A a \in LapsedAccounts : Swept[a].lease = 0
  BY SweptRows DEF LapsedAccounts
<1>3. \A a \in Account : \/ Swept[a].lease = 0
                         \/ /\ Swept[a].lease = acct[a].lease
                            /\ Swept[a].client = acct[a].client
  BY SweptRows
<1> QED BY <1>1, <1>2, <1>3, LeasesEnd DEF TypeOK, SweptDispatches

\* A step that only takes leases away, and leaves the history alone.
LEMMA QuietLedger ==
    ASSUME TypeOK, NEW rows \in [Account -> AccountRow], NEW log,
           Ledger(rows, log, issued),
           \A a \in Account : \/ acct'[a].lease = 0
                              \/ /\ acct'[a].lease = rows[a].lease
                                 /\ acct'[a].client = rows[a].client,
           dispatches' = log, issued' = issued
    PROVE  Ledger(acct', dispatches', issued')
<1>1. issued \in Nat /\ {} \in SUBSET Account /\ "expired" \in {"released", "expired"}
  BY DEF TypeOK
<1>2. Ledger(acct', log \cup {DispatchOf(rows[a], a, "expired") : a \in {}}, issued)
  BY <1>1, LeasesEnd
<1>3. log \cup {DispatchOf(rows[a], a, "expired") : a \in {}} = log
  OBVIOUS
<1> QED BY <1>2, <1>3

\* Every step keeps the history and the rows in agreement.
LEMMA LedgerStep ==
    ASSUME TypeOK, Ledger(acct, dispatches, issued), [Next]_vars
    PROVE  Ledger(acct', dispatches', issued')
<1> DEFINE Goal == Ledger(acct', dispatches', issued')
<1> USE DEF TypeOK
<1>1. /\ Ledger(Swept, SweptDispatches, issued)
      /\ Swept \in [Account -> AccountRow]
  BY SweepLedger, SweptType
<1>2. ASSUME UNCHANGED <<dispatches, issued>>,
             \A a \in Account : \/ acct'[a].lease = 0
                                \/ /\ acct'[a].lease = acct[a].lease
                                   /\ acct'[a].client = acct[a].client
      PROVE  Goal
  BY <1>2, QuietLedger
<1>3. ASSUME UNCHANGED issued, dispatches' = SweptDispatches,
             \A a \in Account : acct'[a].lease = Swept[a].lease
                                /\ acct'[a].client = Swept[a].client
      PROVE  Goal
  BY <1>1, <1>3, QuietLedger
<1>4. ASSUME SaveSweep, UNCHANGED issued PROVE Goal
  BY <1>3, <1>4 DEF SaveSweep
<1>5. ASSUME NEW c \in Client, NEW workspace \in Workspace, NEW ttl \in TTL,
             Claim(c, workspace, ttl)
      PROVE  Goal
  <2>1. CASE acct' = Swept /\ dispatches' = SweptDispatches /\ issued' = issued
    BY <1>3, <2>1
  <2>2. ASSUME NEW a \in Account,
               acct' = [Swept EXCEPT ![a].lease = issued + 1, ![a].client = c,
                                     ![a].left = normalizeLeaseTTL(ttl)],
               dispatches' = SweptDispatches
                               \cup {[lease |-> issued + 1, account |-> a,
                                      client |-> c, event |-> "claimed"]},
               issued' = issued + 1
        PROVE  Goal
    BY <1>1, <2>2, LeaseBegins
  <2> QED BY <1>5, <2>1, <2>2 DEF Claim, Picks, Candidates
<1>6. ASSUME NEW c \in Caller, NEW l \in 1..issued, NEW a \in Account,
             LeaseCall(c, l, a)
      PROVE  Goal
  <2>1. Swept[a] \in AccountRow
    BY <1>1
  <2>2. ASSUME NEW ttl, Touch(c, l, a, ttl) PROVE Goal
    <3>1. \A b \in Account : acct'[b].lease = Swept[b].lease
                             /\ acct'[b].client = Swept[b].client
      BY <1>1, <2>2 DEF Touch, AccountRow
    <3> QED BY <1>3, <2>2, <3>1 DEF Touch
  <2>3. ASSUME NEW generation, NEW token, NEW status,
               Upload(c, l, a, generation, token, status)
        PROVE  Goal
    <3> DEFINE newStatus == IF status = "" THEN Swept[a].status ELSE status
               term == normalizeLeaseTTL(DefaultTTL)
               new == [Swept[a] EXCEPT !.status = newStatus, !.generation = @ + 1,
                                       !.left = term]
    <3>0. acct' = [Swept EXCEPT ![a] = new]
      BY <2>3 DEF Upload
    <3> HIDE DEF newStatus, term
    <3>1. \A b \in Account : acct'[b].lease = Swept[b].lease
                             /\ acct'[b].client = Swept[b].client
      <4>1. new.lease = Swept[a].lease /\ new.client = Swept[a].client
        BY <2>1 DEF AccountRow
      <4> HIDE DEF new
      <4> QED BY <1>1, <3>0, <4>1
    <3> QED BY <1>3, <2>3, <3>1 DEF Upload
  <2>4. ASSUME Release(c, l, a) PROVE Goal
    <3>1. acct[a] = Swept[a] /\ Swept[a].lease # 0
      BY <2>4, SurvivorIsActive DEF Release, Holds
    <3>2. Ledger(acct', SweptDispatches
                   \cup {DispatchOf(Swept[b], b, "released") : b \in {a}}, issued)
      <4>1. acct'[a].lease = 0 /\ \A b \in Account \ {a} : acct'[b] = Swept[b]
        BY <1>1, <2>1, <2>4 DEF Release, clearAccountLease, AccountRow
      <4>2. {a} \in SUBSET Account /\ \A b \in {a} : Swept[b].lease # 0
        BY <3>1
      <4> QED BY <1>1, <4>1, <4>2, LeasesEnd
    <3>3. {DispatchOf(Swept[b], b, "released") : b \in {a}}
            = {DispatchOf(acct[a], a, "released")}
      BY <3>1
    <3> QED BY <2>4, <3>2, <3>3 DEF Release
  <2>5. ASSUME NEW result, RecordLeasedQuota(c, l, a, result) PROVE Goal
    BY <1>2, <2>5, ResultKeepsLeases DEF RecordLeasedQuota
  <2> QED BY <1>6, <2>2, <2>3, <2>4, <2>5 DEF LeaseCall
<1>7. ASSUME NEW p \in Prober, Fetch(p) PROVE Goal
  <2>1. CASE FetchRecord(p)
    <3>1. WriteQuotaResult(probe[p].account, probe[p].result, probe[p].changed,
                           "cloud", FALSE)
      BY <2>1 DEF FetchRecord
    <3> QED BY <1>2, <2>1, <3>1, ResultKeepsLeases DEF FetchRecord
  <2>2. CASE ~ FetchRecord(p)
    BY <1>2, <1>7, <2>2 DEF Fetch, FetchLoad, FetchRecheck, FetchSend, FetchAnswer,
       FetchRefresh, FetchRefused
  <2> QED BY <2>1, <2>2
<1>8. ASSUME NEW a \in Account, Operator(a) PROVE Goal
  <2>1. acct[a] \in AccountRow
    OBVIOUS
  <2>2. ASSUME NEW row, acct' = [acct EXCEPT ![a] = row],
               UNCHANGED <<dispatches, issued>>,
               \/ row.lease = 0
               \/ row.lease = acct[a].lease /\ row.client = acct[a].client
        PROVE  Goal
    BY <1>2, <2>2
  <2>3. ASSUME NEW status, SetStatus(a, status) PROVE Goal
    <3>1. [acct[a] EXCEPT !.status = status].lease = acct[a].lease
          /\ [acct[a] EXCEPT !.status = status].client = acct[a].client
      BY <2>1 DEF AccountRow
    <3> QED BY <2>2, <2>3, <3>1 DEF SetStatus
  <2>4. ASSUME NEW owner, SetOwner(a, owner) PROVE Goal
    <3> DEFINE row == IF owner = "client" THEN clearAccountLease(acct[a]) ELSE acct[a]
               new == [row EXCEPT !.owner = owner]
    <3>1. \/ new.lease = 0
          \/ new.lease = acct[a].lease /\ new.client = acct[a].client
      BY <2>1 DEF clearAccountLease, AccountRow
    <3>2. acct' = [acct EXCEPT ![a] = new] /\ UNCHANGED <<dispatches, issued>>
      BY <2>4 DEF SetOwner
    <3> HIDE DEF new
    <3> QED BY <2>2, <3>1, <3>2
  <2>5. ASSUME NEW workspace, SetAccountWorkspace(a, workspace) PROVE Goal
    <3>1. [acct[a] EXCEPT !.workspace = workspace].lease = acct[a].lease
          /\ [acct[a] EXCEPT !.workspace = workspace].client = acct[a].client
      BY <2>1 DEF AccountRow
    <3> QED BY <2>2, <2>5, <3>1 DEF SetAccountWorkspace
  <2>6. CASE DeleteAccount(a)
    <3>1. Absent.lease = 0
      BY DEF Absent
    <3> QED BY <2>2, <2>6, <3>1 DEF DeleteAccount
  <2>7. ASSUME NEW token, NEW status, NEW owner, Push(a, token, status, owner)
        PROVE  Goal
    <3> DEFINE row == IF acct[a].present THEN [acct[a] EXCEPT !.generation = @ + 1]
                      ELSE Imported
               newStatus == IF status = "" THEN row.status ELSE status
               newOwner == IF owner = "" THEN row.owner ELSE owner
               new == [row EXCEPT !.status = newStatus, !.owner = newOwner]
    <3>1. acct' = [acct EXCEPT ![a] = row] \/ acct' = [acct EXCEPT ![a] = new]
      BY <2>7 DEF Push
    <3>2. \/ row.lease = 0
          \/ row.lease = acct[a].lease /\ row.client = acct[a].client
      <4>1. Imported.lease = 0
        BY DEF Imported, Absent
      <4> QED BY <2>1, <4>1 DEF AccountRow
    <3>3. row \in AccountRow
      <4>1. Imported \in AccountRow
        BY WorkspaceAssumption
           DEF Imported, Absent, AccountRow, Status, OwnerMode, Caller
      <4> QED BY <2>1, <4>1, RowFields DEF AccountRow
    <3> HIDE DEF row, newStatus, newOwner
    <3>4. new.lease = row.lease /\ new.client = row.client
      BY <3>3 DEF AccountRow
    <3> HIDE DEF new
    <3> QED BY <2>2, <2>7, <3>1, <3>2, <3>4 DEF Push
  <2>8. ASSUME NEW result, RecordQuotaReport(a, result) PROVE Goal
    BY <1>2, <2>8, ResultKeepsLeases DEF RecordQuotaReport
  <2> QED BY <1>8, <2>3, <2>4, <2>5, <2>6, <2>7, <2>8 DEF Operator
<1>9. CASE Tick
  <2>1. \A a \in Account : acct'[a].lease = acct[a].lease
                           /\ acct'[a].client = acct[a].client
    BY <1>9 DEF Tick, AccountRow
  <2> QED BY <1>2, <1>9, <2>1 DEF Tick
<1>10. CASE \/ SelectAccountForRun \/ ResetRoundRobin \/ Crash \/ UNCHANGED vars
            \/ \E w \in Worker : WorkerStart(w)
            \/ \E v \in Viewer, a \in Account : ViewerStart(v, a)
            \/ \E a \in Account, token \in Token \cup {NoToken} : CrashBeforeSave(a, token)
  BY <1>2, <1>10 DEF SelectAccountForRun, ResetRoundRobin, Crash, CrashBeforeSave,
     WorkerStart, ViewerStart, vars
<1> QED BY <1>4, <1>5, <1>6, <1>7, <1>8, <1>9, <1>10
       DEF Next, ClientStep, ClaimStart, RefusedLeaseCall

\* Every lease was claimed once and ended at most once, and the rows name the
\* leases that the history says are open (lease.go, usage.go).
THEOREM LedgerHolds == Spec => []LedgerMatchesLeases
<1>1. Init => Ledger(acct, dispatches, issued)
  <2> SUFFICES ASSUME Init PROVE Ledger(acct, dispatches, issued)
    OBVIOUS
  <2>1. \A a \in Account : acct[a].lease = 0
    BY DEF Init, Imported, Absent
  <2>2. dispatches = {} /\ issued = 0
    BY DEF Init
  <2>3. 1..0 = {}
    OBVIOUS
  <2> QED BY <2>1, <2>2, <2>3 DEF Ledger
<1>2. TypeOK /\ Ledger(acct, dispatches, issued) /\ [Next]_vars
        => Ledger(acct, dispatches, issued)'
  BY LedgerStep
<1> QED BY <1>1, <1>2, LedgerIs, TypeCorrect, PTL DEF Spec

-----------------------------------------------------------------------------
(* The pick.  Account sets may be infinite here; scores are bounded.       *)

\* Every nonempty set of numbers has a least one.
LEMMA LeastNumber ==
    ASSUME NEW S, S \subseteq Nat, S # {}
    PROVE  \E n \in S : \A m \in S : n <= m
<1>1. PICK n \in S : \A m \in S : ~ (<<m, n>> \in OpToRel(<, Nat))
  BY NatLessThanWellFounded, WFMin
<1>2. ASSUME NEW m \in S PROVE n <= m
  <2>1. ~ (<<m, n>> \in OpToRel(<, Nat))
    BY <1>1
  <2>2. ~ m < n
    BY <2>1 DEF OpToRel
  <2> QED BY <2>2
<1> QED BY <1>2

\* A score is a number, and none is above a full window about to be reset.
LEMMA ScoreBound ==
    ASSUME NEW r \in Result
    PROVE  Score(r) \in Nat /\ Score(r) <= 12500 * NearResetWindow
<1> DEFINE w == bindingWindow(r)
<1>1. NearResetWindow \in Nat
  BY NearResetWindowAssumption
<1>2. w \in Window \cup {NoWindow}
  BY DEF bindingWindow, Result
<1>3. CASE w = NoWindow
  BY <1>1, <1>3 DEF Score, loadBalanceQuotaScore, NoWindow, Unknown,
     loadBalanceMinFiveHourRemaining
<1>4. CASE w \in Window
  <2> DEFINE base == 100 * NearResetWindow * w.remaining
             near == 100 * loadBalanceNearResetBonus * (NearResetWindow - w.reset)
  <2>1. w.remaining \in 0..100 /\ w.reset \in Int
    BY <1>4 DEF Window
  <2>2. base \in Nat /\ base <= 10000 * NearResetWindow
    <3>1. ASSUME NEW n \in Nat, NEW k \in 0..100 PROVE n * k \in Nat /\ n * k <= n * 100
      OBVIOUS
    <3>2. 100 * NearResetWindow \in Nat
      BY <1>1
    <3> QED BY <1>1, <2>1, <3>1, <3>2
  <2>3. w.reset > 0 /\ w.reset < NearResetWindow
          => near \in Nat /\ near <= 2500 * NearResetWindow
    BY <1>1, <2>1 DEF loadBalanceNearResetBonus
  <2>4. \/ loadBalanceQuotaScore(w) \in {0, base}
        \/ /\ w.reset > 0 /\ w.reset < NearResetWindow
           /\ loadBalanceQuotaScore(w) = base + near
    BY DEF loadBalanceQuotaScore
  <2> HIDE DEF w, base, near
  <2>5. loadBalanceQuotaScore(w) \in Nat
        /\ loadBalanceQuotaScore(w) <= 12500 * NearResetWindow
    BY <1>1, <2>2, <2>3, <2>4
  <2> QED BY <2>5 DEF Score, w
<1> QED BY <1>2, <1>3, <1>4

\* A nonempty set of scores has a highest one.
LEMMA HighestScore ==
    ASSUME NEW S, S \subseteq Nat, S # {}, NEW k \in Nat, \A s \in S : s <= k
    PROVE  \E n \in S : \A m \in S : m <= n
<1> DEFINE short == {k - s : s \in S}
<1>1. short \subseteq Nat /\ short # {}
  <2>1. \A s \in S : s \in Nat /\ s <= k
    OBVIOUS
  <2>2. \A s \in S : k - s \in Nat
    BY <2>1
  <2> QED BY <2>2
<1>2. PICK d \in short : \A e \in short : d <= e
  BY <1>1, LeastNumber
<1>3. PICK n \in S : d = k - n
  OBVIOUS
<1>4. ASSUME NEW m \in S PROVE m <= n
  <2>1. k - m \in short
    OBVIOUS
  <2>2. k - n <= k - m
    BY <1>2, <1>3, <2>1
  <2> QED BY <2>2
<1> QED BY <1>4

\* What it means for two scores to be the same.
LEMMA SameScores ==
    ASSUME NEW s \in Nat, NEW t \in Nat
    PROVE  sameLoadBalanceScore(s, t)
             <=> s - t <= NearResetWindow /\ t - s <= NearResetWindow
BY NearResetWindowAssumption DEF sameLoadBalanceScore

\* A score is the same as itself.
LEMMA SameAsItself ==
    ASSUME NEW s \in Nat PROVE sameLoadBalanceScore(s, s)
BY NearResetWindowAssumption DEF sameLoadBalanceScore

\* Where sameness is transitive, the balancer's order has a first candidate: of
\* those that score the same as a highest one, the one with the least id.
LEMMA FirstCandidate ==
    ASSUME NEW quota, NEW available, available \subseteq Account, available # {},
           \A a \in available : quota[a] \in Result,
           Sortable(quota, available)
    PROVE  Leaders(quota, available) # {}
<1> DEFINE s[a \in available] == Score(quota[a])
           scores == {s[a] : a \in available}
           bound == 12500 * NearResetWindow
<1>1. bound \in Nat /\ \A a \in available : s[a] \in Nat /\ s[a] <= bound
  BY ScoreBound, NearResetWindowAssumption
<1>2. scores \subseteq Nat /\ scores # {} /\ \A n \in scores : n <= bound
  BY <1>1
<1> HIDE DEF bound
<1>3. PICK n \in scores : \A m \in scores : m <= n
  BY <1>1, <1>2, HighestScore
<1>4. PICK top \in available : \A b \in available : s[b] <= s[top]
  BY <1>3
<1> DEFINE best == {a \in available : sameLoadBalanceScore(s[a], s[top])}
<1>5. best \subseteq Nat /\ best \subseteq available /\ top \in best
  BY <1>1, AccountAssumption, SameAsItself
<1>6. PICK a \in best : \A b \in best : a <= b
  BY <1>5, LeastNumber
<1>7. ASSUME NEW b \in available, Before(quota, b, a) PROVE FALSE
  <2>0. a \in available /\ s[a] = Score(quota[a]) /\ s[b] = Score(quota[b])
        /\ s[top] = Score(quota[top])
    BY <1>5
  <2>1. CASE sameLoadBalanceScore(s[b], s[a])
    <3>1. b < a
      BY <1>7, <2>0, <2>1 DEF Before
    <3>2. sameLoadBalanceScore(s[a], s[top])
      BY <1>6
    <3>3. b \in best
      <4>1. sameLoadBalanceScore(s[b], s[top])
        BY <2>0, <2>1, <3>2 DEF Sortable
      <4> QED BY <4>1
    <3> QED BY <1>5, <1>6, <3>1, <3>3
  <2>2. CASE ~ sameLoadBalanceScore(s[b], s[a])
    <3>1. s[b] > s[a]
      BY <1>7, <2>0, <2>2 DEF Before
    <3>2. s[b] <= s[top] /\ sameLoadBalanceScore(s[a], s[top])
      BY <1>4, <1>6
    <3>3. s[a] \in Nat /\ s[b] \in Nat /\ s[top] \in Nat /\ NearResetWindow \in Nat
      BY <1>1, <2>0, NearResetWindowAssumption
    <3>4. s[b] - s[a] <= NearResetWindow /\ s[a] - s[b] <= NearResetWindow
      BY <3>1, <3>2, <3>3, SameScores
    <3> QED BY <2>2, <3>3, <3>4, SameScores
  <2> QED BY <2>1, <2>2
<1> QED BY <1>5, <1>7 DEF Leaders

\* Where there are candidates, one of them is picked, whatever the scores and
\* wherever the cursor is: the index of the next one in the top group is always
\* that of a candidate (ClaimLease, lease.go).
THEOREM PicksServe ==
    ASSUME NEW quota, NEW available, available \subseteq Account, available # {},
           \A a \in available : quota[a] \in Result, NEW cursor
    PROVE  /\ Picks(quota, available, cursor) # {}
           /\ Picks(quota, available, cursor) \subseteq available
<1>0. CASE ~ Sortable(quota, available)
  BY <1>0 DEF Picks
<1> SUFFICES ASSUME Sortable(quota, available)
             PROVE  Picks(quota, available, cursor) # {}
  BY <1>0 DEF Picks
<1>1. PICK leader \in Leaders(quota, available) : leader \in available
  BY FirstCandidate DEF Leaders
<1> DEFINE group == TopGroup(quota, available, leader)
<1>2. group \subseteq available /\ available \subseteq Nat
  BY AccountAssumption DEF TopGroup
<1>3. CASE cursor \notin group
  BY <1>1, <1>3 DEF Picks
<1>4. CASE cursor \in group
  <2> DEFINE above == {b \in group : b > cursor}
             ring == IF above = {} THEN group ELSE above
  <2>1. ring \subseteq Nat /\ ring # {} /\ ring \subseteq available
    BY <1>2, <1>4
  <2>2. PICK a \in ring : \A b \in ring : a <= b
    BY <2>1, LeastNumber
  <2>3. IsNextAfter(group, cursor, a)
    BY <2>2 DEF IsNextAfter
  <2>4. a \in group /\ a \in available
    BY <2>1
  <2> HIDE DEF group, ring, above
  <2>5. a \in Picks(quota, available, cursor)
    BY <1>1, <1>4, <2>3, <2>4 DEF Picks, group
  <2> QED BY <2>5
<1> QED BY <1>3, <1>4

\* Whoever is picked scores the same as a leader, itself or another.
LEMMA PickedFromTop ==
    ASSUME NEW quota, NEW available, NEW cursor, NEW a \in Picks(quota, available, cursor),
           Sortable(quota, available), \A b \in available : Score(quota[b]) \in Nat
    PROVE  \E leader \in Leaders(quota, available) :
              /\ leader \in available
              /\ sameLoadBalanceScore(Score(quota[a]), Score(quota[leader]))
<1>1. PICK leader \in Leaders(quota, available) :
         LET group == TopGroup(quota, available, leader)
         IN  IF cursor \in group THEN a \in group /\ IsNextAfter(group, cursor, a)
             ELSE a = leader
  BY DEF Picks
<1>2. leader \in available
  BY DEF Leaders
<1>3. sameLoadBalanceScore(Score(quota[leader]), Score(quota[leader]))
  BY <1>2, SameAsItself
<1>4. a = leader \/ a \in TopGroup(quota, available, leader)
  BY <1>1
<1>5. sameLoadBalanceScore(Score(quota[a]), Score(quota[leader]))
  BY <1>3, <1>4 DEF TopGroup
<1> QED BY <1>2, <1>5

\* No candidate scores higher than the one picked by more than the epsilon.
LEMMA PicksBest ==
    ASSUME NEW quota, NEW available, available \subseteq Account,
           \A a \in available : quota[a] \in Result,
           Sortable(quota, available),
           NEW cursor, NEW a \in Picks(quota, available, cursor), NEW b \in available
    PROVE  Score(quota[b]) - Score(quota[a]) <= NearResetWindow
<1>1. a \in available /\ available # {}
  BY DEF Picks
<1>2. \A c \in available : Score(quota[c]) \in Nat
  BY ScoreBound
<1>3. PICK leader \in Leaders(quota, available) :
              /\ leader \in available
              /\ sameLoadBalanceScore(Score(quota[a]), Score(quota[leader]))
  BY <1>2, PickedFromTop
<1>5. ~ Before(quota, b, leader)
  BY <1>3 DEF Leaders
<1>6. CASE sameLoadBalanceScore(Score(quota[b]), Score(quota[leader]))
  <2>1. sameLoadBalanceScore(Score(quota[leader]), Score(quota[a]))
    BY <1>1, <1>2, <1>3, SameScores
  <2>2. sameLoadBalanceScore(Score(quota[b]), Score(quota[a]))
    BY <1>1, <1>3, <1>6, <2>1 DEF Sortable
  <2> QED BY <1>1, <1>2, <2>2, SameScores
<1>7. CASE ~ sameLoadBalanceScore(Score(quota[b]), Score(quota[leader]))
  <2> DEFINE sa == Score(quota[a])
             sb == Score(quota[b])
             sl == Score(quota[leader])
  <2>1. sa \in Nat /\ sb \in Nat /\ sl \in Nat /\ NearResetWindow \in Nat
    BY <1>1, <1>2, <1>3, NearResetWindowAssumption
  <2>2. ~ sb > sl
    BY <1>5, <1>7 DEF Before
  <2>3. sl - sa <= NearResetWindow
    BY <1>3, <2>1, SameScores
  <2> HIDE DEF sa, sb, sl
  <2>4. sb - sa <= NearResetWindow
    BY <2>1, <2>2, <2>3
  <2> QED BY <2>4 DEF sa, sb
<1> QED BY <1>6, <1>7

\* The account the cursor is at is picked only when no other candidate scores the
\* same: the round robin has gone round a group of one.
LEMMA PicksInTurn ==
    ASSUME NEW quota, NEW available, available \subseteq Account,
           \A b \in available : quota[b] \in Result, Sortable(quota, available),
           NEW a, a \in Picks(quota, available, a), NEW b \in available,
           sameLoadBalanceScore(Score(quota[b]), Score(quota[a]))
    PROVE  b = a
<1>0. a \in available /\ a \in Nat /\ b \in Nat
  BY AccountAssumption DEF Picks
<1>1. PICK leader \in Leaders(quota, available) :
         \/ /\ a \in TopGroup(quota, available, leader)
            /\ IsNextAfter(TopGroup(quota, available, leader), a, a)
         \/ a \notin TopGroup(quota, available, leader) /\ a = leader
  BY DEF Picks
<1>2. leader \in available /\ Score(quota[leader]) \in Nat
  BY ScoreBound DEF Leaders
<1> DEFINE group == TopGroup(quota, available, leader)
<1>3. leader \in group
  BY <1>2, SameAsItself DEF TopGroup
<1>4. a \in group /\ IsNextAfter(group, a, a)
  BY <1>1, <1>3
<1>5. b \in group
  <2>1. sameLoadBalanceScore(Score(quota[a]), Score(quota[leader]))
    BY <1>4 DEF TopGroup
  <2>2. sameLoadBalanceScore(Score(quota[b]), Score(quota[leader]))
    BY <1>0, <1>2, <2>1 DEF Sortable
  <2> QED BY <2>2 DEF TopGroup
<1>6. group \subseteq Nat
  BY AccountAssumption DEF TopGroup
<1> DEFINE above == {c \in group : c > a}
<1>7. above = {}
  <2>1. CASE above # {}
    <3>1. a \in above
      BY <1>4, <2>1 DEF IsNextAfter
    <3> QED BY <1>0, <3>1
  <2> QED BY <2>1
<1>8. a <= b
  BY <1>4, <1>5, <1>7 DEF IsNextAfter
<1>9. ~ b > a
  BY <1>5, <1>7
<1> QED BY <1>0, <1>8, <1>9

-----------------------------------------------------------------------------
(* Claims and the pick                                                     *)

\* Only a claim issues a lease, and it is on the account that was picked.
LEMMA IssuedOnPick ==
    ASSUME TypeOK, LedgerMatchesLeases, [Next]_vars, issued' # issued,
           NEW a \in Account, acct'[a].lease = issued'
    PROVE  /\ a \in Picks(Quota, Candidates(acct[a].workspace), last)
           /\ a \in Candidates(acct[a].workspace)
<1>1. issued \in Nat /\ Swept \in [Account -> AccountRow]
  BY SweepType DEF TypeOK
<1>2. \E c \in Client, workspace \in Workspace, ttl \in TTL : Claim(c, workspace, ttl)
  <2>1. ASSUME NEW c \in Client, ClaimStart(c) PROVE FALSE
    BY <2>1 DEF ClaimStart
  <2>2. ASSUME NEW c \in Caller, NEW l \in 1..issued, NEW b \in Account,
               LeaseCall(c, l, b)
        PROVE  FALSE
    BY <2>2 DEF LeaseCall, Touch, Upload, Release, RecordLeasedQuota
  <2>3. ASSUME NEW p \in Prober, Fetch(p) PROVE FALSE
    BY <2>3 DEF Fetch, FetchLoad, FetchRecheck, FetchSend, FetchAnswer, FetchRefresh,
       FetchRefused, FetchRecord
  <2>4. ASSUME NEW b \in Account, Operator(b) PROVE FALSE
    BY <2>4 DEF Operator, SetStatus, SetOwner, SetAccountWorkspace, DeleteAccount, Push,
       RecordQuotaReport
  <2>5. CASE \/ RefusedLeaseCall \/ SelectAccountForRun \/ ResetRoundRobin \/ Tick
             \/ Crash \/ UNCHANGED vars
             \/ \E w \in Worker : WorkerStart(w)
             \/ \E v \in Viewer, b \in Account : ViewerStart(v, b)
             \/ \E b \in Account, token \in Token \cup {NoToken} :
                   CrashBeforeSave(b, token)
    BY <2>5 DEF RefusedLeaseCall, SelectAccountForRun, ResetRoundRobin, Tick, Crash,
       CrashBeforeSave, WorkerStart, ViewerStart, vars
  <2> QED BY <2>1, <2>2, <2>3, <2>4, <2>5 DEF Next, ClientStep
<1>3. PICK c \in Client, workspace \in Workspace, ttl \in TTL : Claim(c, workspace, ttl)
  BY <1>2
<1>4. PICK b \in Picks(Quota, Candidates(workspace), last) :
         /\ issued' = issued + 1
         /\ acct' = [Swept EXCEPT ![b].lease = issued + 1, ![b].client = c,
                                  ![b].left = normalizeLeaseTTL(ttl)]
  BY <1>3 DEF Claim
<1>5. Swept[a].lease # issued + 1
  <2>1. CASE Swept[a].lease = 0
    BY <1>1, <2>1
  <2>2. CASE Swept[a].lease # 0
    <3>1. Swept[a] = acct[a] /\ acct[a].lease # 0
      BY <2>2, SurvivorIsActive
    <3>2. DispatchOf(acct[a], a, "claimed") \in dispatches
      BY <3>1 DEF LedgerMatchesLeases
    <3>3. DispatchOf(acct[a], a, "claimed").lease \in 1..issued
      BY <3>2 DEF LedgerMatchesLeases
    <3>4. acct[a].lease \in 1..issued
      BY <3>3 DEF DispatchOf
    <3> QED BY <1>1, <3>1, <3>4
  <2> QED BY <2>1, <2>2
<1>6. a = b
  BY <1>1, <1>4, <1>5
<1>7. b \in Candidates(workspace)
  BY <1>4 DEF Picks
<1>8. Swept[b].workspace = workspace /\ b \in Account
  BY <1>7 DEF Candidates
<1>9. Swept[b].workspace = acct[b].workspace
  BY <1>8 DEF Swept, clearAccountLease, TypeOK, AccountRow
<1> QED BY <1>4, <1>6, <1>7, <1>8, <1>9

\* The candidates of a claim are accounts, and their cached quotas are results.
LEMMA CandidatesScored ==
    ASSUME TypeOK, NEW workspace
    PROVE  /\ Candidates(workspace) \subseteq Account
           /\ \A a \in Candidates(workspace) : Quota[a] \in Result
BY DEF Candidates, Quota, TypeOK, CacheEntry

\* A claim never finds itself with candidates and none of them to lease: the
\* balancer has a pick in every state the manager reaches (lease.go, ClaimLease).
THEOREM CandidatesServed ==
    Spec => [](\A workspace \in Workspace :
                  Candidates(workspace) # {}
                    => \E a \in Candidates(workspace) :
                          a \in Picks(Quota, Candidates(workspace), last))
<1> DEFINE Pickable == \A workspace \in Workspace :
                          Candidates(workspace) # {}
                            => \E a \in Candidates(workspace) :
                                  a \in Picks(Quota, Candidates(workspace), last)
<1>1. TypeOK => Pickable
  <2> SUFFICES ASSUME TypeOK, NEW workspace \in Workspace, Candidates(workspace) # {}
               PROVE  \E a \in Candidates(workspace) :
                         a \in Picks(Quota, Candidates(workspace), last)
    OBVIOUS
  <2>1. /\ Picks(Quota, Candidates(workspace), last) # {}
        /\ Picks(Quota, Candidates(workspace), last) \subseteq Candidates(workspace)
    BY CandidatesScored, PicksServe
  <2> QED BY <2>1
<1> QED BY <1>1, TypeCorrect, PTL

\* A claim leases an account that could be leased and that no other account of
\* its workspace outscores (lease.go, ClaimLease; loadbalance.go).
THEOREM ClaimsServeBest == Spec => ServesBest
<1> DEFINE Best == \A a \in Account :
        LET candidates == Candidates(acct[a].workspace)
        IN  issued' # issued /\ acct'[a].lease = issued' =>
              /\ a \in candidates
              /\ Sortable(Quota, candidates) =>
                   \A b \in candidates :
                      Score(Quota[b]) - Score(Quota[a]) <= NearResetWindow
<1>1. TypeOK /\ LedgerMatchesLeases /\ [Next]_vars => [Best]_vars
  <2> SUFFICES ASSUME TypeOK, LedgerMatchesLeases, [Next]_vars,
                      NEW a \in Account, issued' # issued, acct'[a].lease = issued'
               PROVE  LET candidates == Candidates(acct[a].workspace)
                      IN  /\ a \in candidates
                          /\ Sortable(Quota, candidates) =>
                               \A b \in candidates :
                                  Score(Quota[b]) - Score(Quota[a]) <= NearResetWindow
    OBVIOUS
  <2> DEFINE candidates == Candidates(acct[a].workspace)
  <2>1. a \in Picks(Quota, candidates, last) /\ a \in candidates
    BY IssuedOnPick
  <2>2. candidates \subseteq Account /\ \A b \in candidates : Quota[b] \in Result
    BY CandidatesScored
  <2> HIDE DEF candidates
  <2>3. ASSUME Sortable(Quota, candidates), NEW b \in candidates
        PROVE  Score(Quota[b]) - Score(Quota[a]) <= NearResetWindow
    BY <2>1, <2>2, <2>3, PicksBest
  <2> QED BY <2>1, <2>3 DEF candidates
<1> QED BY <1>1, TypeCorrect, LedgerHolds, PTL DEF Spec, ServesBest

\* Accounts of a workspace that score the same take turns (lease.go, ClaimLease;
\* roundrobin.go).
THEOREM ClaimsTakeTurns == Spec => TakesTurns
<1> DEFINE Turns == \A a \in Account :
        LET candidates == Candidates(acct[a].workspace)
        IN  /\ issued' # issued /\ acct'[a].lease = issued' /\ a = last
            /\ Sortable(Quota, candidates)
            => \A b \in candidates :
                  sameLoadBalanceScore(Score(Quota[b]), Score(Quota[a])) => b = a
<1>1. TypeOK /\ LedgerMatchesLeases /\ [Next]_vars => [Turns]_vars
  <2> SUFFICES ASSUME TypeOK, LedgerMatchesLeases, [Next]_vars,
                      NEW a \in Account, issued' # issued, acct'[a].lease = issued',
                      a = last, Sortable(Quota, Candidates(acct[a].workspace)),
                      NEW b \in Candidates(acct[a].workspace),
                      sameLoadBalanceScore(Score(Quota[b]), Score(Quota[a]))
               PROVE  b = a
    OBVIOUS
  <2> DEFINE candidates == Candidates(acct[a].workspace)
  <2>1. a \in Picks(Quota, candidates, last)
    BY IssuedOnPick
  <2>2. a \in Picks(Quota, candidates, a)
    BY <2>1
  <2>3. candidates \subseteq Account /\ \A c \in candidates : Quota[c] \in Result
    BY CandidatesScored
  <2>4. b \in candidates /\ Sortable(Quota, candidates)
    OBVIOUS
  <2> HIDE DEF candidates
  <2> QED BY <2>2, <2>3, <2>4, PicksInTurn
<1> QED BY <1>1, TypeCorrect, LedgerHolds, PTL DEF Spec, TakesTurns
=============================================================================
