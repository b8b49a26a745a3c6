------------------------- MODULE LeaseManagerProofs -------------------------
(***************************************************************************)
(* Proofs about LeaseManager, for every set of accounts, clients and       *)
(* probers, every lease term and every bound.                              *)
(***************************************************************************)
EXTENDS LeaseManager, TLAPS

-----------------------------------------------------------------------------
(* The operators keep the types of what they are given.                    *)

\* The generation of a row is a number, before and after it is counted.
LEMMA RowFields ==
    ASSUME NEW row \in AccountRow
    PROVE  row.generation \in Nat /\ row.generation + 1 \in Nat
BY DEF AccountRow

\* A stored quota result stays one while its windows come closer to a reset.
LEMMA AgedType == ASSUME NEW r \in Result PROVE Aged(r) \in Result
<1>1. ASSUME NEW w \in Window \cup {NoWindow}
      PROVE  [w EXCEPT !.reset = Closer(@)] \in Window \cup {NoWindow}
  <2>1. CASE w \in Window BY <2>1 DEF Window, Closer
  <2>2. CASE w = NoWindow BY <2>2 DEF NoWindow, Unknown, Closer
  <2> QED BY <2>1, <2>2
<1>2. Aged(r) = [r EXCEPT !.fiveHour = [r.fiveHour EXCEPT !.reset = Closer(@)],
                          !.sevenDay = [r.sevenDay EXCEPT !.reset = Closer(@)]]
  BY DEF Aged
<1>3. r.fiveHour \in Window \cup {NoWindow} /\ r.sevenDay \in Window \cup {NoWindow}
  BY DEF Result
<1>4. /\ [r.fiveHour EXCEPT !.reset = Closer(@)] \in Window \cup {NoWindow}
      /\ [r.sevenDay EXCEPT !.reset = Closer(@)] \in Window \cup {NoWindow}
  BY <1>1, <1>3
<1> QED BY <1>2, <1>4 DEF Result

\* What a failed probe reports is a result.
LEMMA FailureType ==
    ASSUME NEW s \in QuotaStatus PROVE Failure(s) \in Result
BY DEF Failure, Result

\* A lease term is positive whatever the client asked for.
LEMMA TermType ==
    ASSUME NEW ttl \in Nat PROVE normalizeLeaseTTL(ttl) \in Nat \ {0}
BY TermAssumption DEF normalizeLeaseTTL

\* A quota result leaves an account row in shape.
LEMMA RecordedType ==
    ASSUME NEW row \in AccountRow, NEW answer,
           NEW authChanged \in BOOLEAN, NEW flipOwner \in BOOLEAN
    PROVE  Recorded(row, answer, authChanged, flipOwner) \in AccountRow
<1> DEFINE owner == IF flipOwner THEN "client" ELSE row.owner
           status == StatusAfter(row.status, answer)
           generation == IF authChanged /\ answer # "refresh_invalid"
                         THEN row.generation + 1 ELSE row.generation
<1>2. status \in Status
  BY DEF StatusAfter, AccountRow, Status
<1>3. owner \in OwnerMode /\ generation \in Nat
  BY DEF AccountRow, OwnerMode
<1>4. CASE ~ row.present
  BY <1>4 DEF Recorded
<1>5. CASE row.present
  <2>1. Recorded(row, answer, authChanged, flipOwner) =
          [row EXCEPT !.owner = owner, !.status = status, !.generation = generation]
    BY <1>5 DEF Recorded
  <2> HIDE DEF owner, status, generation
  <2> QED BY <1>2, <1>3, <2>1 DEF AccountRow
<1> QED BY <1>4, <1>5

\* So does the expiry sweep.
LEMMA SweptType ==
    ASSUME acct \in [Account -> AccountRow]
    PROVE  Swept \in [Account -> AccountRow]
<1>1. ASSUME NEW row \in AccountRow
      PROVE  [clearAccountLease(row) EXCEPT
                !.status = IF @ = "ready" THEN "recovering" ELSE @] \in AccountRow
  <2>1. clearAccountLease(row) \in AccountRow
    BY DEF clearAccountLease, AccountRow, Caller
  <2>2. \A r \in AccountRow : \A status \in Status :
           [r EXCEPT !.status = status] \in AccountRow
    BY DEF AccountRow
  <2>3. (IF clearAccountLease(row).status = "ready" THEN "recovering"
         ELSE clearAccountLease(row).status) \in Status
    BY <2>1 DEF AccountRow, Status
  <2> QED BY <2>1, <2>2, <2>3
<1>2. \A a \in Account : acct[a] \in AccountRow
  OBVIOUS
<1> QED BY <1>1, <1>2 DEF Swept

\* The sweep and its record, together.
LEMMA SweepType ==
    ASSUME TypeOK
    PROVE  /\ Swept \in [Account -> AccountRow]
           /\ SweptDispatches \subseteq DispatchEvent
           /\ SweptSuspects \subseteq Account
           /\ LapsedAccounts \subseteq Account
<1>1. \A a \in Account : DispatchOf(acct[a], a, "expired") \in DispatchEvent
  BY DEF TypeOK, DispatchOf, DispatchEvent, AccountRow, Event
<1> QED BY <1>1, SweptType
       DEF TypeOK, SweptDispatches, SweptSuspects, LapsedAccounts

-----------------------------------------------------------------------------
(* Type correctness, action by action                                      *)

LEMMA InitType == Init => TypeOK
<1> SUFFICES ASSUME Init PROVE TypeOK
  OBVIOUS
<1>1. Imported \in AccountRow
  BY WorkspaceAssumption
     DEF Imported, Absent, AccountRow, Status, OwnerMode, Caller
<1>2. InitialQuota \in Result
  BY ResultAssumption
<1>3. cache \in [Account -> CacheEntry]
  BY <1>2 DEF Init, CacheEntry, Source
<1>4. Idle \in ProbeState
  BY FailureType DEF Idle, ProbeState, Job, ProbePC, NotChecked, QuotaStatus
<1> QED BY <1>1, <1>3, <1>4 DEF Init, TypeOK

\* A prober that is through with an account is in a proper state.
LEMMA ReturnedType ==
    ASSUME TypeOK, NEW p \in Prober, NEW a
    PROVE  Returned(p, a) \in ProbeState
<1>1. Idle \in ProbeState
  BY FailureType DEF Idle, ProbeState, Job, ProbePC, NotChecked, QuotaStatus
<1>2. /\ probe[p].job \in Job
      /\ probe[p].todo \ {a} \in SUBSET Account
  BY DEF TypeOK, ProbeState
<1> QED BY <1>1, <1>2 DEF Returned, ProbeState

LEMMA ClaimStartType ==
    ASSUME TypeOK, NEW c \in Client, ClaimStart(c) PROVE TypeOK'
<1>1. c \in Prober /\ LapsedAccounts \in SUBSET Account
  BY SweepType DEF Prober
<1>2. [probe[c] EXCEPT !.job = "claim", !.todo = LapsedAccounts] \in ProbeState
  BY <1>1 DEF TypeOK, ProbeState, Job
<1>3. probe' = [probe EXCEPT
         ![c] = [probe[c] EXCEPT !.job = "claim", !.todo = LapsedAccounts]]
  BY <1>1 DEF ClaimStart, TypeOK
<1>4. probe' \in [Prober -> ProbeState]
  BY <1>1, <1>2, <1>3 DEF TypeOK
<1> QED BY <1>4, SweepType DEF ClaimStart, SaveSweep, TypeOK

LEMMA ClaimType ==
    ASSUME TypeOK, NEW c \in Client, NEW workspace \in Workspace, NEW ttl \in Nat,
           Claim(c, workspace, ttl)
    PROVE  TypeOK'
<1>1. Idle \in ProbeState
  BY FailureType DEF Idle, ProbeState, Job, ProbePC, NotChecked, QuotaStatus
<1>2. /\ probe' \in [Prober -> ProbeState]
      /\ suspect' \subseteq Account
  BY <1>1, SweepType DEF Claim, TypeOK
<1> DEFINE available == Candidates(workspace)
<1>3. CASE UNCHANGED <<last, issued, crossed>> /\ acct' = Swept
           /\ dispatches' = SweptDispatches
  BY <1>2, <1>3, SweepType DEF Claim, TypeOK
<1>4. ASSUME NEW a \in Picks(Quota, available, last),
             acct' = [Swept EXCEPT ![a].lease = issued + 1, ![a].client = c,
                                   ![a].left = normalizeLeaseTTL(ttl)],
             dispatches' = SweptDispatches
                             \cup {[lease |-> issued + 1, account |-> a,
                                    client |-> c, event |-> "claimed"]},
             last' = a, issued' = issued + 1, crossed' = crossed \cup Probing(a)
      PROVE  TypeOK'
  <2>1. a \in Account
    BY DEF Picks, Candidates
  <2>2. issued + 1 \in Nat /\ c \in Caller /\ normalizeLeaseTTL(ttl) \in Nat
    BY TermType DEF TypeOK, Caller
  <2>3. acct' \in [Account -> AccountRow]
    <3> DEFINE row == [Swept[a] EXCEPT !.lease = issued + 1, !.client = c,
                                       !.left = normalizeLeaseTTL(ttl)]
    <3>1. Swept \in [Account -> AccountRow] /\ Swept[a] \in AccountRow
      BY <2>1, SweepType
    <3>2. row \in AccountRow
      <4>1. ASSUME NEW r \in AccountRow, NEW n \in Nat
            PROVE  /\ [r EXCEPT !.lease = n] \in AccountRow
                   /\ [r EXCEPT !.left = n] \in AccountRow
        BY DEF AccountRow
      <4>2. ASSUME NEW r \in AccountRow
            PROVE  [r EXCEPT !.client = c] \in AccountRow
        BY <2>2 DEF AccountRow
      <4>3. [Swept[a] EXCEPT !.lease = issued + 1] \in AccountRow
        BY <2>2, <3>1, <4>1
      <4>4. [[Swept[a] EXCEPT !.lease = issued + 1] EXCEPT !.client = c] \in AccountRow
        BY <4>2, <4>3
      <4> QED BY <2>2, <4>1, <4>4
    <3>3. \A b \in Account : acct'[b] = IF b = a THEN row ELSE Swept[b]
      BY <1>4, <2>1, <3>1
    <3>4. acct' = [b \in Account |-> acct'[b]]
      BY <1>4, <3>1
    <3> HIDE DEF row
    <3> QED BY <3>1, <3>2, <3>3, <3>4
  <2>4. dispatches' \subseteq DispatchEvent
    BY <1>4, <2>1, <2>2, SweepType DEF DispatchEvent, Event
  <2>5. crossed' \subseteq Prober
    BY <1>4 DEF TypeOK, Probing
  <2> QED BY <1>2, <1>4, <2>1, <2>2, <2>3, <2>4, <2>5 DEF Claim, TypeOK
<1> QED BY <1>3, <1>4 DEF Claim

\* A heartbeat, for whatever term.
LEMMA TouchType ==
    ASSUME TypeOK, NEW c, NEW l, NEW a \in Account, NEW ttl \in Nat, Touch(c, l, a, ttl)
    PROVE  TypeOK'
<1>1. normalizeLeaseTTL(ttl) \in Nat
  BY TermType
<1>2. acct' \in [Account -> AccountRow]
  BY <1>1, SweepType DEF Touch, AccountRow
<1> QED BY <1>2, SweepType DEF Touch, TypeOK

\* An upload, of whatever content and status.
LEMMA UploadType ==
    ASSUME TypeOK, NEW c, NEW l, NEW a \in Account, NEW generation,
           NEW token \in Token \cup {NoToken}, NEW status \in Status \cup {""},
           Upload(c, l, a, generation, token, status)
    PROVE  TypeOK'
<1>0. DefaultTTL \in Nat
  BY TermAssumption
<1>1. normalizeLeaseTTL(DefaultTTL) \in Nat
  BY <1>0, TermType
<1> DEFINE newStatus == IF status = "" THEN Swept[a].status ELSE status
<1>2. newStatus \in Status
  BY SweepType DEF AccountRow
<1>3. acct' = [Swept EXCEPT ![a] =
         [Swept[a] EXCEPT !.status = newStatus, !.generation = @ + 1,
                          !.left = normalizeLeaseTTL(DefaultTTL)]]
  BY SweepType DEF Upload
<1> HIDE DEF newStatus
<1>4. Swept[a] \in AccountRow
  BY SweepType
<1>5. Swept[a].generation + 1 \in Nat
  BY <1>4, RowFields
<1>6. [Swept[a] EXCEPT !.status = newStatus, !.generation = @ + 1,
                       !.left = normalizeLeaseTTL(DefaultTTL)] \in AccountRow
  BY <1>1, <1>2, <1>4, <1>5 DEF AccountRow
<1>7. acct' \in [Account -> AccountRow]
  BY <1>3, <1>6, SweepType
<1> QED BY <1>7, SweepType DEF Upload, TypeOK

\* A report with a heartbeat, of whatever result.
LEMMA LeasedReportType ==
    ASSUME TypeOK, NEW c, NEW l, NEW a \in Account, NEW result \in Result,
           RecordLeasedQuota(c, l, a, result)
    PROVE  TypeOK'
<1>1. acct' \in [Account -> AccountRow]
  BY RecordedType DEF RecordLeasedQuota, WriteQuotaResult, TypeOK
<1>2. cache' \in [Account -> CacheEntry]
  BY DEF RecordLeasedQuota, WriteQuotaResult, TypeOK, CacheEntry, Source
<1> QED BY <1>1, <1>2 DEF RecordLeasedQuota, WriteQuotaResult, TypeOK

\* The four calls of a lease holder.
LEMMA LeaseCallType ==
    ASSUME TypeOK, NEW c \in Caller, NEW l \in 1..issued, NEW a \in Account,
           LeaseCall(c, l, a)
    PROVE  TypeOK'
<1>1. ASSUME NEW ttl \in TTL, Touch(c, l, a, ttl) PROVE TypeOK'
  BY <1>1, TouchType, TermAssumption
<1>2. ASSUME NEW generation \in 0..MaxGeneration, NEW token \in Token,
             NEW status \in AdminStatus \cup {""},
             Upload(c, l, a, generation, token, status)
      PROVE  TypeOK'
  BY <1>2, UploadType, AdminAssumption
<1>3. ASSUME Release(c, l, a) PROVE TypeOK'
  <2>1. acct' \in [Account -> AccountRow]
    BY <1>3, SweepType DEF Release, clearAccountLease, AccountRow, Caller
  <2>2. DispatchOf(acct[a], a, "released") \in DispatchEvent
    BY DEF TypeOK, DispatchOf, DispatchEvent, AccountRow, Event
  <2> QED BY <1>3, <2>1, <2>2, SweepType DEF Release, TypeOK
<1>4. ASSUME NEW result \in Reports, RecordLeasedQuota(c, l, a, result)
      PROVE  TypeOK'
  BY <1>4, LeasedReportType, ResultAssumption
<1> QED BY <1>1, <1>2, <1>3, <1>4 DEF LeaseCall

\* A prober that is not between two accounts is busy with one.
BusyWithAccount ==
    \A p \in Prober : probe[p].pc # "next" => probe[p].account \in Account

\* The steps of a probe.
LEMMA FetchType ==
    ASSUME TypeOK, BusyWithAccount, NEW p \in Prober, Fetch(p) PROVE TypeOK'
<1> DEFINE b == probe[p].account
<1>1. probe[p] \in ProbeState /\ \A x : Returned(p, x) \in ProbeState
  BY ReturnedType DEF TypeOK
<1>2. ASSUME NEW s \in ProbeState, probe' = [probe EXCEPT ![p] = s],
             UNCHANGED <<acct, auth, cache, last, dispatches, issued, history>>
      PROVE  TypeOK'
  BY <1>2 DEF TypeOK, history
<1>3. ASSUME NEW result \in Result, NEW token, Answered(p, result, token)
      PROVE  probe' \in [Prober -> ProbeState]
  <2> DEFINE changed == token \notin {probe[p].before, NoToken}
  <2>1. probe' = [probe EXCEPT ![p] =
           [probe[p] EXCEPT !.pc = "record", !.result = result, !.changed = changed]]
    BY <1>3 DEF Answered, TypeOK
  <2>2. changed \in BOOLEAN
    OBVIOUS
  <2> HIDE DEF changed
  <2>3. [probe[p] EXCEPT !.pc = "record", !.result = result, !.changed = changed]
          \in ProbeState
    BY <1>1, <2>2 DEF ProbeState, ProbePC
  <2> QED BY <2>1, <2>3 DEF TypeOK
<1>4. ASSUME NEW a \in Account, FetchLoad(p, a) PROVE TypeOK'
  <2>1. [probe[p] EXCEPT !.pc = "recheck", !.account = a] \in ProbeState
    BY <1>1 DEF ProbeState, ProbePC
  <2>2. CASE ~ acct[a].present \/ acct[a].owner = "client" \/ Active(acct[a])
    BY <1>1, <1>2, <1>4, <2>2 DEF FetchLoad
  <2>3. CASE ~ (~ acct[a].present \/ acct[a].owner = "client" \/ Active(acct[a]))
    BY <1>2, <1>4, <2>1, <2>3 DEF FetchLoad, TypeOK
  <2> QED BY <2>2, <2>3
<1>5. ASSUME FetchRecheck(p) PROVE TypeOK'
  <2>1. [probe[p] EXCEPT !.pc = "send"] \in ProbeState
    BY <1>1 DEF ProbeState, ProbePC
  <2>2. CASE Active(acct[b])
    BY <1>1, <1>2, <1>5, <2>2 DEF FetchRecheck
  <2>3. CASE ~ Active(acct[b])
    BY <1>2, <1>5, <2>1, <2>3 DEF FetchRecheck, TypeOK
  <2> QED BY <2>2, <2>3
<1>6. ASSUME FetchSend(p) PROVE TypeOK'
  <2>1. b \in Account \cup {0} /\ Failure("not_configured") \in Result
    BY <1>1, FailureType DEF ProbeState, QuotaStatus
  <2>2. CASE auth[b] = NoToken
    <3>1. [probe[p] EXCEPT !.pc = "record", !.result = Failure("not_configured")]
            \in ProbeState
      BY <1>1, <2>1 DEF ProbeState, ProbePC
    <3> QED BY <1>2, <1>6, <2>2, <3>1 DEF FetchSend, TypeOK
  <2>3. CASE auth[b] # NoToken
    <3>1. auth[b] \in Token \cup {NoToken}
      BY <1>6 DEF TypeOK, FetchSend, BusyWithAccount
    <3>2. [probe[p] EXCEPT !.pc = "asked", !.before = auth[b]] \in ProbeState
      BY <1>1, <3>1 DEF ProbeState, ProbePC
    <3> QED BY <1>2, <1>6, <2>3, <3>2 DEF FetchSend, TypeOK
  <2> QED BY <2>2, <2>3
<1>7. ASSUME FetchAnswer(p) PROVE TypeOK'
  <2>1. Answers \cup {Failure("error")} \subseteq Result
    BY ResultAssumption, FailureType DEF QuotaStatus
  <2>2. probe' \in [Prober -> ProbeState]
    BY <1>3, <1>7, <2>1 DEF FetchAnswer
  <2> QED BY <1>7, <2>2 DEF FetchAnswer, TypeOK, history
<1>8. ASSUME NEW token \in Token, FetchRefresh(p, token) PROVE TypeOK'
  <2>1. [probe[p] EXCEPT !.pc = "refreshed"] \in ProbeState
    BY <1>1 DEF ProbeState, ProbePC
  <2>2. Failure("error") \in Result
    BY FailureType DEF QuotaStatus
  <2>3. probe' \in [Prober -> ProbeState] /\ auth' \in [Account -> Token \cup {NoToken}]
    BY <1>3, <1>8, <2>1, <2>2 DEF FetchRefresh, TypeOK
  <2> QED BY <1>8, <2>3 DEF FetchRefresh, TypeOK, history
<1>9. ASSUME FetchRefused(p) PROVE TypeOK'
  <2>1. Failure("refresh_invalid") \in Result
    BY FailureType DEF QuotaStatus
  <2>2. probe' \in [Prober -> ProbeState]
    BY <1>3, <1>9, <2>1 DEF FetchRefused
  <2> QED BY <1>9, <2>2 DEF FetchRefused, TypeOK, history
<1>10. ASSUME FetchRecord(p) PROVE TypeOK'
  <2>1. probe[p].result \in Result /\ probe[p].changed \in BOOLEAN
    BY <1>1 DEF ProbeState
  <2>2. acct' \in [Account -> AccountRow]
    BY <1>10, <2>1, RecordedType DEF FetchRecord, WriteQuotaResult, TypeOK
  <2>3. cache' \in [Account -> CacheEntry]
    BY <1>10, <2>1 DEF FetchRecord, WriteQuotaResult, TypeOK, CacheEntry, Source
  <2>4. probe' \in [Prober -> ProbeState]
    BY <1>1, <1>10 DEF FetchRecord, TypeOK
  <2>5. suspect' \subseteq Account /\ crossed' \subseteq Prober
    BY <1>10 DEF FetchRecord, WriteQuotaResult, TypeOK
  <2> QED BY <1>10, <2>2, <2>3, <2>4, <2>5 DEF FetchRecord, TypeOK
<1> QED BY <1>4, <1>5, <1>6, <1>7, <1>8, <1>9, <1>10 DEF Fetch

\* What an operator does to an account.
LEMMA OperatorType ==
    ASSUME TypeOK, NEW a \in Account, Operator(a) PROVE TypeOK'
<1>1. acct[a] \in AccountRow
  BY DEF TypeOK
<1>2. Absent \in AccountRow /\ Imported \in AccountRow
  BY WorkspaceAssumption
     DEF Imported, Absent, AccountRow, Status, OwnerMode, Caller
<1>3. ASSUME NEW status \in AdminStatus, SetStatus(a, status) PROVE TypeOK'
  <2>1. acct' \in [Account -> AccountRow]
    BY <1>1, <1>3, AdminAssumption DEF SetStatus, TypeOK, AccountRow
  <2> QED BY <1>3, <2>1 DEF SetStatus, TypeOK
<1>4. ASSUME NEW owner \in AdminOwner, SetOwner(a, owner) PROVE TypeOK'
  <2> DEFINE row == IF owner = "client" THEN clearAccountLease(acct[a]) ELSE acct[a]
  <2>1. row \in AccountRow
    BY <1>1 DEF clearAccountLease, AccountRow, Caller
  <2>2. acct' = [acct EXCEPT ![a] = [row EXCEPT !.owner = owner]]
    BY <1>4 DEF SetOwner
  <2> HIDE DEF row
  <2>3. [row EXCEPT !.owner = owner] \in AccountRow
    BY <2>1, AdminAssumption DEF AccountRow
  <2> QED BY <1>4, <2>2, <2>3 DEF SetOwner, TypeOK, history
<1>5. ASSUME NEW workspace \in Workspace, SetAccountWorkspace(a, workspace)
      PROVE  TypeOK'
  <2>1. acct' \in [Account -> AccountRow]
    BY <1>1, <1>5 DEF SetAccountWorkspace, TypeOK, AccountRow
  <2> QED BY <1>5, <2>1 DEF SetAccountWorkspace, TypeOK, history
<1>6. ASSUME DeleteAccount(a) PROVE TypeOK'
  BY <1>2, <1>6 DEF DeleteAccount, TypeOK
<1>7. ASSUME NEW token \in Token, NEW status \in AdminStatus \cup {"", "unknown"},
             NEW owner \in AdminOwner \cup {""}, Push(a, token, status, owner)
      PROVE  TypeOK'
  <2> DEFINE row == IF acct[a].present
                    THEN [acct[a] EXCEPT !.generation = @ + 1] ELSE Imported
  <2>1. row \in AccountRow
    BY <1>1, <1>2, RowFields DEF AccountRow
  <2>2. CASE acct' = [acct EXCEPT ![a] = row]
    BY <1>7, <2>1, <2>2 DEF Push, TypeOK
  <2>3. CASE status # "unknown"
             /\ acct' = [acct EXCEPT ![a] =
                   [row EXCEPT !.status = IF status = "" THEN @ ELSE status,
                               !.owner = IF owner = "" THEN @ ELSE owner]]
    <3> HIDE DEF row
    <3> DEFINE newStatus == IF status = "" THEN row.status ELSE status
               newOwner == IF owner = "" THEN row.owner ELSE owner
    <3>1. newStatus \in Status /\ newOwner \in OwnerMode
      BY <2>1, <2>3, AdminAssumption DEF AccountRow
    <3>2. acct' = [acct EXCEPT ![a] =
             [row EXCEPT !.status = newStatus, !.owner = newOwner]]
      BY <2>3
    <3> HIDE DEF newStatus, newOwner
    <3>3. [row EXCEPT !.status = newStatus, !.owner = newOwner] \in AccountRow
      BY <2>1, <3>1 DEF AccountRow
    <3> QED BY <1>7, <3>2, <3>3 DEF Push, TypeOK
  <2> QED BY <1>7, <2>2, <2>3 DEF Push
<1>8. ASSUME NEW result \in Reports, RecordQuotaReport(a, result) PROVE TypeOK'
  <2>1. result \in Result
    BY ResultAssumption
  <2>2. acct' \in [Account -> AccountRow]
    BY <1>8, RecordedType DEF RecordQuotaReport, WriteQuotaResult, TypeOK
  <2>3. cache' \in [Account -> CacheEntry]
    BY <1>8, <2>1 DEF RecordQuotaReport, WriteQuotaResult, TypeOK, CacheEntry, Source
  <2> QED BY <1>8, <2>2, <2>3 DEF RecordQuotaReport, WriteQuotaResult, TypeOK
<1> QED BY <1>3, <1>4, <1>5, <1>6, <1>7, <1>8 DEF Operator

LEMMA TickType ==
    ASSUME TypeOK, Tick PROVE TypeOK'
<1>1. acct' \in [Account -> AccountRow]
  <2>1. ASSUME NEW a \in Account
        PROVE  [acct[a] EXCEPT !.left = IF @ > 0 THEN @ - 1 ELSE 0] \in AccountRow
    <3> DEFINE row == acct[a]
               later == IF row.left > 0 THEN row.left - 1 ELSE 0
    <3>1. row \in AccountRow
      BY DEF TypeOK
    <3>2. row.left \in Nat
      BY <3>1 DEF AccountRow
    <3>3. later \in Nat
      BY <3>2
    <3> HIDE DEF later
    <3>4. [row EXCEPT !.left = later] \in AccountRow
      BY <3>1, <3>3 DEF AccountRow
    <3> QED BY <3>4 DEF later
  <2> QED BY <2>1 DEF Tick
<1>2. cache' \in [Account -> CacheEntry]
  <2>1. ASSUME NEW a \in Account
        PROVE  [cache[a] EXCEPT !.result = Aged(@)] \in CacheEntry
    <3>1. cache[a] \in CacheEntry
      BY DEF TypeOK
    <3>2. Aged(cache[a].result) \in Result
      BY <3>1, AgedType DEF CacheEntry
    <3> QED BY <3>1, <3>2 DEF CacheEntry
  <2> QED BY <2>1 DEF Tick
<1>3. probe' \in [Prober -> ProbeState]
  <2>1. ASSUME NEW p \in Prober
        PROVE  [probe[p] EXCEPT !.age = @ + 1, !.result = Aged(@)] \in ProbeState
    <3>1. probe[p] \in ProbeState
      BY DEF TypeOK
    <3>2. probe[p].age + 1 \in Nat /\ Aged(probe[p].result) \in Result
      BY <3>1, AgedType DEF ProbeState
    <3> QED BY <3>1, <3>2 DEF ProbeState
  <2> QED BY <2>1 DEF Tick, TypeOK
<1> QED BY <1>1, <1>2, <1>3 DEF Tick, TypeOK, history

\* Every step, from the lemmas above.
LEMMA NextType ==
    ASSUME TypeOK, BusyWithAccount, [Next]_vars PROVE TypeOK'
<1>1. CASE UNCHANGED vars
  BY <1>1 DEF vars, TypeOK
<1>2. ASSUME NEW c \in Client, ClientStep(c) PROVE TypeOK'
  BY <1>2, ClaimStartType, ClaimType, TermAssumption DEF ClientStep
<1>3. CASE RefusedLeaseCall
  BY <1>3, SweepType DEF RefusedLeaseCall, SaveSweep, TypeOK
<1>4. ASSUME NEW w \in Worker, WorkerStart(w) PROVE TypeOK'
  <2> DEFINE queue == {a \in Account : ShouldRefresh(a)}
  <2>1. w \in Prober /\ queue \in SUBSET Account
    BY DEF Prober
  <2> HIDE DEF queue
  <2>2. [probe[w] EXCEPT !.job = "fetch", !.todo = queue] \in ProbeState
    BY <2>1 DEF TypeOK, ProbeState, Job
  <2>3. probe' = [probe EXCEPT
           ![w] = [probe[w] EXCEPT !.job = "fetch", !.todo = queue]]
    BY <1>4, <2>1 DEF WorkerStart, TypeOK, queue
  <2> QED BY <1>4, <2>2, <2>3 DEF WorkerStart, TypeOK, history
<1>5. ASSUME NEW v \in Viewer, NEW a \in Account, ViewerStart(v, a) PROVE TypeOK'
  <2>1. v \in Prober
    BY DEF Prober
  <2>2. [probe[v] EXCEPT !.job = "fetch", !.todo = {a}] \in ProbeState
    BY <2>1 DEF TypeOK, ProbeState, Job
  <2> QED BY <1>5, <2>1, <2>2 DEF ViewerStart, TypeOK, history
<1>6. CASE SelectAccountForRun \/ ResetRoundRobin
  <2>1. last' \in Account \cup {0}
    BY <1>6 DEF SelectAccountForRun, ResetRoundRobin, Picks
  <2> QED BY <1>6, <2>1 DEF SelectAccountForRun, ResetRoundRobin, TypeOK, history
<1>7. CASE Crash \/ \E a \in Account, token \in Token \cup {NoToken} :
                      CrashBeforeSave(a, token)
  <2>1. Idle \in ProbeState
    BY FailureType DEF Idle, ProbeState, Job, ProbePC, NotChecked, QuotaStatus
  <2> QED BY <1>7, <2>1 DEF Crash, CrashBeforeSave, Restart, TypeOK
<1> QED BY <1>1, <1>2, <1>3, <1>4, <1>5, <1>6, <1>7,
           LeaseCallType, FetchType, OperatorType, TickType DEF Next

\* A claim that is answered leaves its prober between two accounts.
LEMMA ClaimBusy ==
    ASSUME TypeOK, BusyWithAccount, NEW c \in Client, NEW workspace, NEW ttl,
           Claim(c, workspace, ttl)
    PROVE  BusyWithAccount'
<1>1. c \in Prober /\ probe' = [probe EXCEPT ![c] = Idle] /\ Idle.pc = "next"
  BY DEF Claim, Prober, Idle
<1> QED BY <1>1 DEF BusyWithAccount, TypeOK

\* Returning from an account leaves a prober between two accounts.
LEMMA NextBusy ==
    ASSUME TypeOK, BusyWithAccount, [Next]_vars PROVE BusyWithAccount'
<1> SUFFICES ASSUME NEW q \in Prober, probe'[q].pc # "next"
             PROVE  probe'[q].account \in Account
  BY DEF BusyWithAccount
<1>1. Idle.pc = "next" /\ \A p \in Prober : \A x : Returned(p, x).pc = "next"
  BY DEF Idle, Returned
<1>2. CASE probe'[q].pc = probe[q].pc /\ probe'[q].account = probe[q].account
  BY <1>2 DEF BusyWithAccount
<1> USE <1>1 DEF TypeOK
<1>3. CASE UNCHANGED probe
  BY <1>2, <1>3
<1>4. ASSUME NEW c \in Client, ClientStep(c) PROVE probe'[q].account \in Account
  <2>1. c \in Prober
    BY DEF Prober
  <2>2. CASE ClaimStart(c)
    BY <1>2, <2>1, <2>2 DEF ClaimStart, ProbeState
  <2>3. CASE \E workspace \in Workspace, ttl \in TTL : Claim(c, workspace, ttl)
    BY <2>3, ClaimBusy DEF BusyWithAccount
  <2> QED BY <1>4, <2>2, <2>3 DEF ClientStep
<1>5. ASSUME NEW p \in Prober, Fetch(p) PROVE probe'[q].account \in Account
  <2>1. CASE q # p
    <3>1. probe'[q] = probe[q]
      BY <1>5, <2>1 DEF Fetch, FetchLoad, FetchRecheck, FetchSend, FetchAnswer,
         FetchRefresh, FetchRefused, FetchRecord, Answered
    <3> QED BY <1>2, <3>1
  <2>2. CASE q = p
    <3>1. probe[p] \in ProbeState
      OBVIOUS
    <3>2. ASSUME NEW a \in Account, FetchLoad(p, a) PROVE probe'[q].account \in Account
      BY <2>2, <3>1, <3>2 DEF FetchLoad, ProbeState
    <3>3. CASE FetchRecheck(p)
      BY <1>2, <2>2, <3>1, <3>3 DEF FetchRecheck, BusyWithAccount, ProbeState
    <3>4. CASE FetchSend(p)
      BY <2>2, <3>1, <3>4 DEF FetchSend, BusyWithAccount, ProbeState
    <3>5. CASE FetchAnswer(p) \/ FetchRefused(p)
      <4>1. PICK result, token : Answered(p, result, token)
        BY <3>5 DEF FetchAnswer, FetchRefused
      <4>2. probe[p].account \in Account
        BY <3>5 DEF FetchAnswer, FetchRefused, BusyWithAccount
      <4>3. probe'[p].account = probe[p].account
        BY <3>1, <4>1 DEF Answered, ProbeState
      <4> QED BY <2>2, <4>2, <4>3
    <3>6. ASSUME NEW token \in Token, FetchRefresh(p, token)
          PROVE  probe'[q].account \in Account
      BY <2>2, <3>1, <3>6 DEF FetchRefresh, Answered, BusyWithAccount, ProbeState
    <3>7. CASE FetchRecord(p)
      BY <2>2, <3>1, <3>7 DEF FetchRecord
    <3> QED BY <1>5, <3>2, <3>3, <3>4, <3>5, <3>6, <3>7 DEF Fetch
  <2> QED BY <2>1, <2>2
<1>6. ASSUME NEW w \in Worker, WorkerStart(w) PROVE probe'[q].account \in Account
  BY <1>2, <1>6 DEF WorkerStart, ProbeState
<1>7. ASSUME NEW v \in Viewer, NEW a \in Account, ViewerStart(v, a)
      PROVE  probe'[q].account \in Account
  BY <1>2, <1>7 DEF ViewerStart, ProbeState
<1>8. CASE Tick
  BY <1>2, <1>8 DEF Tick, ProbeState
<1>9. CASE Crash \/ \E a \in Account, token \in Token \cup {NoToken} :
                      CrashBeforeSave(a, token)
  BY <1>9 DEF Crash, CrashBeforeSave, Restart
<1>10. ASSUME NEW c \in Caller, NEW l \in 1..issued, NEW a \in Account,
              LeaseCall(c, l, a) PROVE UNCHANGED probe
  BY <1>10 DEF LeaseCall, Touch, Upload, Release, RecordLeasedQuota
<1>11. ASSUME NEW a \in Account, Operator(a) PROVE UNCHANGED probe
  BY <1>11 DEF Operator, SetStatus, SetOwner, SetAccountWorkspace, DeleteAccount,
     Push, RecordQuotaReport
<1>12. CASE RefusedLeaseCall \/ SelectAccountForRun \/ ResetRoundRobin \/ UNCHANGED vars
  BY <1>3, <1>12 DEF RefusedLeaseCall, SelectAccountForRun, ResetRoundRobin, vars
<1> QED BY <1>3, <1>4, <1>5, <1>6, <1>7, <1>8, <1>9, <1>10, <1>11, <1>12 DEF Next

\* In every state the variables keep to their types, and a prober that is not
\* between two accounts names the one it is busy with.
THEOREM WellFormed == Spec => [](TypeOK /\ BusyWithAccount)
<1>1. Init => TypeOK /\ BusyWithAccount
  <2>1. Idle.pc = "next"
    BY DEF Idle
  <2>2. Init => \A p \in Prober : probe[p].pc = "next"
    BY <2>1 DEF Init
  <2> QED BY <2>2, InitType DEF BusyWithAccount
<1>2. TypeOK /\ BusyWithAccount /\ [Next]_vars => (TypeOK /\ BusyWithAccount)'
  BY NextType, NextBusy
<1> QED BY <1>1, <1>2, PTL DEF Spec

\* Every variable keeps to its type, whatever clients, probes, operators and
\* crashes do.
THEOREM TypeCorrect == Spec => []TypeOK
BY WellFormed, PTL
=============================================================================
