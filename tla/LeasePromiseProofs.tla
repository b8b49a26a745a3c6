------------------------- MODULE LeasePromiseProofs -------------------------
(***************************************************************************)
(* The lease manager implements LeasePool: read off the rows and the       *)
(* history, every step of it is a step of the pool, or none.               *)
(***************************************************************************)
EXTENDS LeaseSafetyProofs, FiniteSetTheorems

-----------------------------------------------------------------------------
(* What the mapping shows of one lease                                     *)

Ids == 1..MaxLeases

\* The three functions of the mapping are functions of the lease.
LEMMA Shapes ==
    ASSUME NEW rows, NEW log, NEW n
    PROVE  /\ PhaseOf(rows, log, n) = [l \in Ids |-> PhaseOf(rows, log, n)[l]]
           /\ AccountOf(log, n) = [l \in Ids |-> AccountOf(log, n)[l]]
           /\ LeftOf(rows) = [l \in Ids |-> LeftOf(rows)[l]]
BY DEF Ids, PhaseOf, AccountOf, LeftOf

\* A lease that was never issued is free.
LEMMA FreeLease ==
    ASSUME NEW rows, NEW log, NEW n \in Nat, Ledger(rows, log, n),
           NEW l \in Ids, l > n
    PROVE  /\ PhaseOf(rows, log, n)[l] = "free"
           /\ AccountOf(log, n)[l] = 0
           /\ LeftOf(rows)[l] = 0
<1>1. ASSUME NEW a \in Account PROVE rows[a].lease # l
  <2>1. CASE rows[a].lease # 0
    <3>1. DispatchOf(rows[a], a, "claimed") \in log
      BY <2>1 DEF Ledger
    <3>2. DispatchOf(rows[a], a, "claimed").lease \in 1..n
      BY <3>1 DEF Ledger
    <3> QED BY <3>2 DEF DispatchOf
  <2> QED BY <2>1 DEF Ids
<1> QED BY <1>1 DEF Ids, PhaseOf, AccountOf, LeftOf, LeasedAs

\* A lease is for the account of any event the history has of it.
LEMMA LeaseAccount ==
    ASSUME NEW rows, NEW log, NEW n \in Nat, Ledger(rows, log, n),
           NEW l \in Ids, NEW d \in log, d.lease = l
    PROVE  l <= n /\ AccountOf(log, n)[l] = d.account
<1>1. l <= n
  BY DEF Ledger
<1> DEFINE e == CHOOSE x \in log : x.lease = l
<1>2. e \in log /\ e.lease = l
  OBVIOUS
<1>3. AccountOf(log, n)[l] = e.account
  BY <1>1 DEF AccountOf, Ids
<1> HIDE DEF e
<1> QED BY <1>1, <1>2, <1>3 DEF Ledger

\* A lease that a row names is held on that account, for as long as it says.
LEMMA HeldLease ==
    ASSUME NEW rows, NEW log, NEW n \in Nat, Ledger(rows, log, n),
           NEW l \in Ids, NEW a \in Account, rows[a].lease = l
    PROVE  /\ l <= n
           /\ PhaseOf(rows, log, n)[l] = "held"
           /\ AccountOf(log, n)[l] = a
           /\ LeftOf(rows)[l] = rows[a].left
<1>0. l # 0
  BY DEF Ids
<1>1. DispatchOf(rows[a], a, "claimed") \in log
  BY <1>0 DEF Ledger
<1>2. /\ DispatchOf(rows[a], a, "claimed").lease = l
      /\ DispatchOf(rows[a], a, "claimed").account = a
  BY DEF DispatchOf
<1>3. l <= n /\ AccountOf(log, n)[l] = a
  BY <1>1, <1>2, LeaseAccount
<1> DEFINE b == CHOOSE x \in Account : rows[x].lease = l
<1>4. b \in Account /\ rows[b].lease = l
  OBVIOUS
<1>5. a \in LeasedAs(rows, l)
  BY DEF LeasedAs
<1>6. LeftOf(rows)[l] = rows[b].left
  BY <1>5 DEF LeftOf, Ids
<1> HIDE DEF b
<1>7. a = b
  BY <1>0, <1>4, OneAccountPerLease
<1> QED BY <1>3, <1>5, <1>6, <1>7 DEF PhaseOf, Ids

\* A lease that no row names any more ended as the history says.
LEMMA OverLease ==
    ASSUME NEW rows, NEW log, NEW n \in Nat, NEW l \in Ids, l <= n,
           \A a \in Account : rows[a].lease # l
    PROVE  /\ PhaseOf(rows, log, n)[l] = EndedAs(log, l)
           /\ LeftOf(rows)[l] = 0
BY DEF PhaseOf, LeftOf, LeasedAs, Ids

\* A lease the history ended is not one a row names, nor one held.
LEMMA EndIsNotHeld ==
    ASSUME NEW rows, NEW log, NEW n \in Nat, NEW l \in Ids
    PROVE  PhaseOf(rows, log, n)[l] = "held"
             => l <= n /\ \E a \in Account : rows[a].lease = l
BY DEF PhaseOf, LeasedAs, EndedAs, Ids

\* A lease that the same rows name, and of which the history says what it said,
\* is where it was.
LEMMA Unmoved ==
    ASSUME NEW rows, NEW log, NEW n \in Nat, Ledger(rows, log, n),
           NEW later, NEW record, NEW count \in Nat, Ledger(later, record, count),
           NEW l \in Ids, n <= count, l <= n \/ l > count,
           log \subseteq record, \A d \in record \ log : d.lease # l,
           \A a \in Account : later[a].lease = l <=> rows[a].lease = l
    PROVE  /\ PhaseOf(later, record, count)[l] = PhaseOf(rows, log, n)[l]
           /\ AccountOf(record, count)[l] = AccountOf(log, n)[l]
           /\ (\A a \in Account : rows[a].lease = l => later[a].left = rows[a].left)
                => LeftOf(later)[l] = LeftOf(rows)[l]
<1>1. CASE l > count
  <2>1. l > n
    BY <1>1 DEF Ids
  <2> QED BY <1>1, <2>1, FreeLease
<1>2. CASE l <= n
  <2>1. l <= count
    BY <1>2 DEF Ids
  <2>2. PICK d \in log : d.lease = l
    BY <1>2 DEF Ledger, Ids
  <2>3. AccountOf(record, count)[l] = AccountOf(log, n)[l]
    BY <2>2, LeaseAccount
  <2>4. CASE \E a \in Account : rows[a].lease = l
    BY <2>3, <2>4, HeldLease
  <2>5. CASE \A a \in Account : rows[a].lease # l
    <3>1. EndedAs(record, l) = EndedAs(log, l)
      BY DEF EndedAs
    <3> QED BY <1>2, <2>1, <2>3, <2>5, <3>1, OverLease
  <2> QED BY <2>4, <2>5
<1> QED BY <1>1, <1>2

-----------------------------------------------------------------------------
(* The changes to rows and history that steps are made of                  *)

\* The sweep is the pool's, of all the leases that are out of time.
LEMMA SweepPromise ==
    ASSUME TypeOK, Ledger(acct, dispatches, issued)
    PROVE  /\ PhaseOf(Swept, SweptDispatches, issued) = Pool!Swept(Pool!OutOfTime)
           /\ AccountOf(SweptDispatches, issued) = AccountOf(dispatches, issued)
           /\ LeftOf(Swept) = LeftOf(acct)
           /\ LendableOf(Swept) = LendableOf(acct)
<1>1. Ledger(Swept, SweptDispatches, issued) /\ issued \in Nat
  BY SweepLedger DEF TypeOK
<1>2. ASSUME NEW l \in Ids
      PROVE  /\ PhaseOf(Swept, SweptDispatches, issued)[l]
                  = IF l \in Pool!OutOfTime THEN "expired"
                    ELSE PhaseOf(acct, dispatches, issued)[l]
             /\ AccountOf(SweptDispatches, issued)[l] = AccountOf(dispatches, issued)[l]
             /\ LeftOf(Swept)[l] = LeftOf(acct)[l]
  <2>1. l \in Pool!OutOfTime <=> /\ PhaseOf(acct, dispatches, issued)[l] = "held"
                                 /\ LeftOf(acct)[l] = 0
    BY DEF Pool!OutOfTime, Ids
  <2>2. CASE \E a \in Account : acct[a].lease = l /\ Lapsed(acct[a])
    <3>1. PICK a \in Account : acct[a].lease = l /\ Lapsed(acct[a])
      BY <2>2
    <3>2. /\ l <= issued /\ acct[a].left = 0
          /\ PhaseOf(acct, dispatches, issued)[l] = "held"
          /\ AccountOf(dispatches, issued)[l] = a
          /\ LeftOf(acct)[l] = 0
      BY <1>1, <3>1, HeldLease DEF Lapsed
    <3>3. \A b \in Account : Swept[b].lease # l
      <4> SUFFICES ASSUME NEW b \in Account, Swept[b].lease = l PROVE FALSE
        OBVIOUS
      <4>1. Active(acct[b]) /\ acct[b].lease = l
        BY SurvivorIsActive DEF Ids
      <4>2. a = b
        BY <1>1, <3>1, <4>1, OneAccountPerLease DEF Ids
      <4> QED BY <3>2, <4>1, <4>2 DEF Active
    <3>4. DispatchOf(acct[a], a, "expired") \in SweptDispatches
      BY <3>1 DEF SweptDispatches, LapsedAccounts
    <3>5. /\ DispatchOf(acct[a], a, "expired").lease = l
          /\ DispatchOf(acct[a], a, "expired").account = a
          /\ DispatchOf(acct[a], a, "expired").event = "expired"
      BY <3>1 DEF DispatchOf
    <3>6. \A d \in SweptDispatches : d.lease = l => d.event # "released"
      BY <1>1, <3>4, <3>5 DEF Ledger
    <3>7. EndedAs(SweptDispatches, l) = "expired"
      BY <3>4, <3>5, <3>6 DEF EndedAs
    <3>8. AccountOf(SweptDispatches, issued)[l] = a
      BY <1>1, <3>4, <3>5, LeaseAccount
    <3> QED BY <1>1, <2>1, <3>2, <3>3, <3>7, <3>8, OverLease
  <2>3. CASE \A a \in Account : acct[a].lease = l => ~ Lapsed(acct[a])
    <3>1. \A a \in Account : (Swept[a].lease = l <=> acct[a].lease = l)
                             /\ (acct[a].lease = l => Swept[a] = acct[a])
      <4> TAKE a \in Account
      <4>1. CASE ~ Lapsed(acct[a])
        BY <4>1, SweptRows
      <4>2. CASE Lapsed(acct[a])
        BY <2>3, <4>2, SweptRows DEF Ids
      <4> QED BY <4>1, <4>2
    <3>2. \A d \in SweptDispatches \ dispatches : d.lease # l
      BY <2>3 DEF SweptDispatches, LapsedAccounts, DispatchOf
    <3>3. dispatches \subseteq SweptDispatches /\ issued <= issued
          /\ (l <= issued \/ l > issued)
      BY <1>1 DEF SweptDispatches, Ids
    <3>4. /\ PhaseOf(Swept, SweptDispatches, issued)[l]
               = PhaseOf(acct, dispatches, issued)[l]
          /\ AccountOf(SweptDispatches, issued)[l] = AccountOf(dispatches, issued)[l]
          /\ LeftOf(Swept)[l] = LeftOf(acct)[l]
      BY <1>1, <3>1, <3>2, <3>3, Unmoved
    <3>5. l \notin Pool!OutOfTime
      <4> SUFFICES ASSUME l \in Pool!OutOfTime PROVE FALSE
        OBVIOUS
      <4>1. PICK a \in Account : acct[a].lease = l
        BY <1>1, <2>1, EndIsNotHeld
      <4>2. acct[a].left = 0
        BY <1>1, <2>1, <4>1, HeldLease
      <4> QED BY <2>3, <4>1, <4>2 DEF Lapsed, Ids
    <3> QED BY <3>4, <3>5
  <2> QED BY <2>2, <2>3
<1>3. LendableOf(Swept) = LendableOf(acct)
  <2>1. \A a \in Account : /\ Swept[a].present = acct[a].present
                           /\ Swept[a].owner = acct[a].owner
    BY DEF TypeOK, Swept, clearAccountLease, AccountRow
  <2> QED BY <2>1 DEF LendableOf
<1>4. Pool!Swept(Pool!OutOfTime) =
        [l \in Ids |-> IF l \in Pool!OutOfTime THEN "expired"
                       ELSE PhaseOf(acct, dispatches, issued)[l]]
  BY DEF Pool!Swept, Ids
<1>5. PhaseOf(Swept, SweptDispatches, issued) = Pool!Swept(Pool!OutOfTime)
  BY <1>2, <1>4, Shapes
<1>6. /\ AccountOf(SweptDispatches, issued) = AccountOf(dispatches, issued)
      /\ LeftOf(Swept) = LeftOf(acct)
  BY <1>2, Shapes
<1> QED BY <1>3, <1>5, <1>6

\* A claim begins the next lease, held on its account for its term.
LEMMA GrantPromise ==
    ASSUME NEW rows, NEW log, NEW n \in Nat, Ledger(rows, log, n),
           NEW l \in Ids, n < l, l <= n + 1, NEW a \in Account, rows[a].lease = 0, NEW later,
           \A b \in Account \ {a} : later[b] = rows[b],
           later[a].lease = l,
           NEW record, log \subseteq record, \A d \in record \ log : d.lease = l,
           Ledger(later, record, l)
    PROVE  /\ PhaseOf(later, record, l) = [PhaseOf(rows, log, n) EXCEPT ![l] = "held"]
           /\ AccountOf(record, l) = [AccountOf(log, n) EXCEPT ![l] = a]
           /\ LeftOf(later) = [LeftOf(rows) EXCEPT ![l] = later[a].left]
<1>0. l \in Nat /\ n <= l
  BY DEF Ids
<1>1. /\ PhaseOf(later, record, l)[l] = "held"
      /\ AccountOf(record, l)[l] = a
      /\ LeftOf(later)[l] = later[a].left
  BY <1>0, HeldLease
<1>2. ASSUME NEW k \in Ids, k # l
      PROVE  /\ PhaseOf(later, record, l)[k] = PhaseOf(rows, log, n)[k]
             /\ AccountOf(record, l)[k] = AccountOf(log, n)[k]
             /\ LeftOf(later)[k] = LeftOf(rows)[k]
  <2>1. k <= n \/ k > l
    BY <1>2 DEF Ids
  <2>2. \A d \in record \ log : d.lease # k
    BY <1>2
  <2>3. \A b \in Account : /\ later[b].lease = k <=> rows[b].lease = k
                           /\ rows[b].lease = k => later[b].left = rows[b].left
    BY <1>2 DEF Ids
  <2> QED BY <1>0, <2>1, <2>2, <2>3, Unmoved
<1> QED BY <1>1, <1>2, Shapes

\* A renewal changes nothing of a lease but the time it has left.
LEMMA RenewPromise ==
    ASSUME NEW rows, NEW log, NEW n \in Nat, Ledger(rows, log, n),
           NEW l \in Ids, NEW a \in Account, rows[a].lease = l, NEW later,
           \A b \in Account \ {a} : later[b] = rows[b],
           later[a].lease = l,
           Ledger(later, log, n)
    PROVE  /\ PhaseOf(later, log, n) = PhaseOf(rows, log, n)
           /\ LeftOf(later) = [LeftOf(rows) EXCEPT ![l] = later[a].left]
<1>1. LeftOf(later)[l] = later[a].left
  BY HeldLease
<1>2. ASSUME NEW k \in Ids
      PROVE  /\ PhaseOf(later, log, n)[k] = PhaseOf(rows, log, n)[k]
             /\ k # l => LeftOf(later)[k] = LeftOf(rows)[k]
  <2>1. n <= n /\ (k <= n \/ k > n)
    BY DEF Ids
  <2>2. log \subseteq log /\ \A d \in log \ log : d.lease # k
    OBVIOUS
  <2>3. \A b \in Account : /\ later[b].lease = k <=> rows[b].lease = k
                           /\ rows[b].lease = k /\ k # l => later[b].left = rows[b].left
    OBVIOUS
  <2> QED BY <2>1, <2>2, <2>3, Unmoved
<1> QED BY <1>1, <1>2, Shapes

\* A lease leaves its row, and the history says why or, when an operator took
\* the account, says nothing.
LEMMA EndPromise ==
    ASSUME NEW rows, NEW log, NEW n \in Nat, Ledger(rows, log, n),
           NEW l \in Ids, NEW a \in Account, rows[a].lease = l, NEW later,
           \A b \in Account \ {a} : later[b] = rows[b],
           later[a].lease = 0,
           NEW record, log \subseteq record, \A d \in record \ log : d.lease = l,
           Ledger(later, record, n)
    PROVE  /\ PhaseOf(later, record, n)
                = [PhaseOf(rows, log, n) EXCEPT ![l] = EndedAs(record, l)]
           /\ AccountOf(record, n) = AccountOf(log, n)
           /\ LeftOf(later) = [LeftOf(rows) EXCEPT ![l] = 0]
<1>0. l # 0 /\ l <= n
  BY HeldLease DEF Ids
<1>1. \A b \in Account : later[b].lease # l
  <2> SUFFICES ASSUME NEW b \in Account, later[b].lease = l PROVE FALSE
    OBVIOUS
  <2>1. b # a /\ rows[b].lease = l
    BY <1>0
  <2> QED BY <1>0, <2>1, OneAccountPerLease
<1>2. PhaseOf(later, record, n)[l] = EndedAs(record, l) /\ LeftOf(later)[l] = 0
  BY <1>0, <1>1, OverLease
<1>3. AccountOf(record, n)[l] = AccountOf(log, n)[l]
  <2>1. PICK d \in log : d.lease = l
    BY <1>0 DEF Ledger, Ids
  <2>2. d \in record
    BY <2>1
  <2> QED BY <2>1, <2>2, LeaseAccount
<1>4. ASSUME NEW k \in Ids, k # l
      PROVE  /\ PhaseOf(later, record, n)[k] = PhaseOf(rows, log, n)[k]
             /\ AccountOf(record, n)[k] = AccountOf(log, n)[k]
             /\ LeftOf(later)[k] = LeftOf(rows)[k]
  <2>1. n <= n /\ (k <= n \/ k > n)
    BY DEF Ids
  <2>2. log \subseteq record /\ \A d \in record \ log : d.lease # k
    BY <1>4
  <2>3. \A b \in Account : /\ later[b].lease = k <=> rows[b].lease = k
                           /\ rows[b].lease = k => later[b].left = rows[b].left
    BY <1>4 DEF Ids
  <2> QED BY <2>1, <2>2, <2>3, Unmoved
<1> QED BY <1>2, <1>3, <1>4, Shapes

\* When every row keeps its lease and its time, so does the pool.
LEMMA QuietPromise ==
    ASSUME NEW rows, NEW log, NEW n \in Nat, Ledger(rows, log, n),
           NEW later, Ledger(later, log, n),
           \A a \in Account : /\ later[a].lease = rows[a].lease
                              /\ rows[a].lease # 0 => later[a].left = rows[a].left
    PROVE  /\ PhaseOf(later, log, n) = PhaseOf(rows, log, n)
           /\ LeftOf(later) = LeftOf(rows)
<1>1. ASSUME NEW k \in Ids
      PROVE  /\ PhaseOf(later, log, n)[k] = PhaseOf(rows, log, n)[k]
             /\ LeftOf(later)[k] = LeftOf(rows)[k]
  <2>1. n <= n /\ (k <= n \/ k > n)
    BY DEF Ids
  <2>2. log \subseteq log /\ \A d \in log \ log : d.lease # k
    OBVIOUS
  <2>3. \A a \in Account : rows[a].lease = k => later[a].left = rows[a].left
    BY DEF Ids
  <2> QED BY <2>1, <2>2, <2>3, Unmoved
<1> QED BY <1>1, Shapes

-----------------------------------------------------------------------------
(* Rows of accounts that are not there                                     *)

\* A row without an account names no lease: nothing is lost when one is
\* imported over it.
AbsentIsBare == \A a \in Account : ~ acct[a].present => acct[a].lease = 0

\* What a step on one account does to its row, as far as the pool can tell:
\* it leaves the lease alone, or drops it and takes the account from the pool.
OneRow(a) ==
    /\ \A b \in Account \ {a} : acct'[b] = acct[b]
    /\ acct'[a].present \/ acct'[a].lease = 0
    /\ \/ /\ acct'[a].lease = acct[a].lease
          /\ acct[a].lease # 0 => acct'[a].left = acct[a].left
       \/ acct'[a].lease = 0 /\ a \notin LendableOf(acct')

\* A quota result is such a step.
LEMMA ResultOneRow ==
    ASSUME TypeOK, AbsentIsBare, NEW a \in Account, NEW result, NEW authChanged,
           NEW source, NEW flipOwner,
           WriteQuotaResult(a, result, authChanged, source, flipOwner)
    PROVE  OneRow(a)
<1>1. acct[a] \in AccountRow
  BY DEF TypeOK
<1>2. /\ \A b \in Account \ {a} : acct'[b] = acct[b]
      /\ acct'[a] = Recorded(acct[a], result.status, authChanged, flipOwner)
  BY DEF WriteQuotaResult, TypeOK
<1>3. acct'[a].present = acct[a].present
  BY <1>1, <1>2 DEF Recorded, AccountRow
<1> QED BY <1>1, <1>2, <1>3, RecordedRow DEF OneRow, AbsentIsBare

\* So is everything an operator does.
LEMMA OperatorOneRow ==
    ASSUME TypeOK, AbsentIsBare, NEW a \in Account, Operator(a)
    PROVE  OneRow(a) /\ UNCHANGED <<dispatches, issued>>
<1>1. acct[a] \in AccountRow /\ acct \in [Account -> AccountRow]
  BY DEF TypeOK
<1>2. ASSUME NEW row, acct' = [acct EXCEPT ![a] = row],
             row.present \/ row.lease = 0,
             \/ /\ row.lease = acct[a].lease
                /\ acct[a].lease # 0 => row.left = acct[a].left
             \/ row.lease = 0 /\ ~ (row.present /\ row.owner = "cloud")
      PROVE  OneRow(a)
  BY <1>1, <1>2 DEF OneRow, LendableOf
<1>3. ASSUME NEW status, SetStatus(a, status)
      PROVE  OneRow(a) /\ UNCHANGED <<dispatches, issued>>
  <2> DEFINE new == [acct[a] EXCEPT !.status = status]
  <2>1. /\ new.lease = acct[a].lease /\ new.left = acct[a].left
        /\ new.present = acct[a].present
    BY <1>1 DEF AccountRow
  <2>2. acct' = [acct EXCEPT ![a] = new] /\ acct[a].present
        /\ UNCHANGED <<dispatches, issued>>
    BY <1>3 DEF SetStatus
  <2> HIDE DEF new
  <2> QED BY <1>2, <2>1, <2>2
<1>4. ASSUME NEW owner, SetOwner(a, owner)
      PROVE  OneRow(a) /\ UNCHANGED <<dispatches, issued>>
  <2> DEFINE row == IF owner = "client" THEN clearAccountLease(acct[a]) ELSE acct[a]
             new == [row EXCEPT !.owner = owner]
  <2>1. /\ new.present = acct[a].present
        /\ \/ new.lease = acct[a].lease /\ new.left = acct[a].left
           \/ new.lease = 0 /\ new.owner = "client"
    BY <1>1 DEF clearAccountLease, AccountRow
  <2>2. acct' = [acct EXCEPT ![a] = new] /\ acct[a].present
        /\ UNCHANGED <<dispatches, issued>>
    BY <1>4 DEF SetOwner
  <2> HIDE DEF new
  <2> QED BY <1>2, <2>1, <2>2
<1>5. ASSUME NEW workspace, SetAccountWorkspace(a, workspace)
      PROVE  OneRow(a) /\ UNCHANGED <<dispatches, issued>>
  <2> DEFINE new == [acct[a] EXCEPT !.workspace = workspace]
  <2>1. /\ new.lease = acct[a].lease /\ new.left = acct[a].left
        /\ new.present = acct[a].present
    BY <1>1 DEF AccountRow
  <2>2. acct' = [acct EXCEPT ![a] = new] /\ acct[a].present
        /\ UNCHANGED <<dispatches, issued>>
    BY <1>5 DEF SetAccountWorkspace
  <2> HIDE DEF new
  <2> QED BY <1>2, <2>1, <2>2
<1>6. CASE DeleteAccount(a)
  <2>1. Absent.lease = 0 /\ ~ Absent.present
    BY DEF Absent
  <2> QED BY <1>2, <1>6, <2>1 DEF DeleteAccount
<1>7. ASSUME NEW token, NEW status, NEW owner, Push(a, token, status, owner)
      PROVE  OneRow(a) /\ UNCHANGED <<dispatches, issued>>
  <2> DEFINE row == IF acct[a].present THEN [acct[a] EXCEPT !.generation = @ + 1]
                    ELSE Imported
             newStatus == IF status = "" THEN row.status ELSE status
             newOwner == IF owner = "" THEN row.owner ELSE owner
             new == [row EXCEPT !.status = newStatus, !.owner = newOwner]
  <2>1. /\ acct' = [acct EXCEPT ![a] = row] \/ acct' = [acct EXCEPT ![a] = new]
        /\ UNCHANGED <<dispatches, issued>>
    BY <1>7 DEF Push
  <2>2. Imported.lease = 0 /\ Imported.present
    BY DEF Imported, Absent
  <2>3. Imported \in AccountRow
    BY WorkspaceAssumption DEF Imported, Absent, AccountRow, Status, OwnerMode, Caller
  <2>4. /\ row \in AccountRow /\ row.present /\ row.lease = acct[a].lease
        /\ acct[a].lease # 0 => row.left = acct[a].left
    <3>1. CASE acct[a].present
      BY <1>1, <3>1, RowFields DEF AccountRow
    <3>2. CASE ~ acct[a].present
      BY <2>2, <2>3, <3>2 DEF AbsentIsBare
    <3> QED BY <3>1, <3>2
  <2> HIDE DEF row, newStatus, newOwner
  <2>5. new.lease = row.lease /\ new.left = row.left /\ new.present = row.present
    BY <2>4 DEF AccountRow
  <2> HIDE DEF new
  <2> QED BY <1>2, <2>1, <2>4, <2>5
<1>8. ASSUME NEW result, RecordQuotaReport(a, result)
      PROVE  OneRow(a) /\ UNCHANGED <<dispatches, issued>>
  BY <1>8, ResultOneRow DEF RecordQuotaReport
<1> QED BY <1>3, <1>4, <1>5, <1>6, <1>7, <1>8 DEF Operator

\* What a lease holder's call does to the swept rows: the lease it names was
\* running, and is renewed for some term or given back.
LEMMA HolderRow ==
    ASSUME TypeOK, NEW c \in Caller, NEW l \in 1..issued, NEW a \in Account,
           LeaseCall(c, l, a),
           \A result \in Reports : ~ RecordLeasedQuota(c, l, a, result)
    PROVE  /\ Active(acct[a]) /\ acct[a].lease = l /\ Swept[a] = acct[a]
           /\ \A b \in Account \ {a} : acct'[b] = Swept[b]
           /\ acct'[a].present = acct[a].present /\ acct'[a].owner = acct[a].owner
           /\ issued' = issued
           /\ \/ /\ acct'[a].lease = l /\ acct'[a].left \in 1..MaxTTL
                 /\ dispatches' = SweptDispatches
              \/ /\ acct'[a].lease = 0
                 /\ dispatches' = SweptDispatches
                                    \cup {DispatchOf(acct[a], a, "released")}
<1>1. Holds(c, l, a)
  BY DEF LeaseCall, Touch, Upload, Release
<1>2. /\ Active(acct[a]) /\ acct[a].lease = l /\ Swept[a] = acct[a]
      /\ acct[a] \in AccountRow
  BY <1>1, SurvivorIsActive DEF Holds, TypeOK
<1>3. Swept = [b \in Account |-> Swept[b]]
  BY DEF Swept
<1>4. ASSUME NEW ttl \in Nat PROVE normalizeLeaseTTL(ttl) \in 1..MaxTTL
  BY TermAssumption DEF normalizeLeaseTTL
<1>5. ASSUME NEW row, acct' = [Swept EXCEPT ![a] = row]
      PROVE  acct'[a] = row /\ \A b \in Account \ {a} : acct'[b] = Swept[b]
  BY <1>3, <1>5
<1>6. ASSUME NEW ttl \in TTL, Touch(c, l, a, ttl)
      PROVE  /\ \A b \in Account \ {a} : acct'[b] = Swept[b]
             /\ acct'[a].present = acct[a].present /\ acct'[a].owner = acct[a].owner
             /\ acct'[a].lease = l /\ acct'[a].left \in 1..MaxTTL
             /\ dispatches' = SweptDispatches /\ issued' = issued
  <2> DEFINE term == normalizeLeaseTTL(ttl)
             new == [Swept[a] EXCEPT !.left = term]
  <2>1. acct' = [Swept EXCEPT ![a] = new]
        /\ dispatches' = SweptDispatches /\ issued' = issued
    BY <1>6 DEF Touch
  <2>2. term \in 1..MaxTTL
    BY <1>4, TermAssumption
  <2> HIDE DEF term
  <2>3. /\ new.present = acct[a].present /\ new.owner = acct[a].owner
        /\ new.lease = l /\ new.left = term
    BY <1>2 DEF AccountRow
  <2> HIDE DEF new
  <2> QED BY <1>5, <2>1, <2>2, <2>3
<1>7. ASSUME NEW generation, NEW token, NEW status,
             Upload(c, l, a, generation, token, status)
      PROVE  /\ \A b \in Account \ {a} : acct'[b] = Swept[b]
             /\ acct'[a].present = acct[a].present /\ acct'[a].owner = acct[a].owner
             /\ acct'[a].lease = l /\ acct'[a].left \in 1..MaxTTL
             /\ dispatches' = SweptDispatches /\ issued' = issued
  <2> DEFINE newStatus == IF status = "" THEN Swept[a].status ELSE status
             term == normalizeLeaseTTL(DefaultTTL)
             new == [Swept[a] EXCEPT !.status = newStatus, !.generation = @ + 1,
                                     !.left = term]
  <2>1. acct' = [Swept EXCEPT ![a] = new]
        /\ dispatches' = SweptDispatches /\ issued' = issued
    BY <1>7 DEF Upload
  <2>2. term \in 1..MaxTTL
    BY <1>4, TermAssumption
  <2> HIDE DEF newStatus, term
  <2>3. /\ new.present = acct[a].present /\ new.owner = acct[a].owner
        /\ new.lease = l /\ new.left = term
    BY <1>2 DEF AccountRow
  <2> HIDE DEF new
  <2> QED BY <1>5, <2>1, <2>2, <2>3
<1>8. ASSUME Release(c, l, a)
      PROVE  /\ \A b \in Account \ {a} : acct'[b] = Swept[b]
             /\ acct'[a].present = acct[a].present /\ acct'[a].owner = acct[a].owner
             /\ acct'[a].lease = 0
             /\ dispatches' = SweptDispatches \cup {DispatchOf(acct[a], a, "released")}
             /\ issued' = issued
  <2> DEFINE new == clearAccountLease(Swept[a])
  <2>1. /\ acct' = [Swept EXCEPT ![a] = new] /\ issued' = issued
        /\ dispatches' = SweptDispatches \cup {DispatchOf(acct[a], a, "released")}
    BY <1>8 DEF Release
  <2>2. /\ new.present = acct[a].present /\ new.owner = acct[a].owner
        /\ new.lease = 0
    BY <1>2 DEF AccountRow, clearAccountLease
  <2> HIDE DEF new
  <2> QED BY <1>5, <2>1, <2>2
<1> QED BY <1>2, <1>6, <1>7, <1>8 DEF LeaseCall

\* What a claim that finds an account does to the swept rows.
LEMMA ClaimRow ==
    ASSUME TypeOK, NEW c \in Client, NEW workspace \in Workspace, NEW ttl \in TTL,
           Claim(c, workspace, ttl)
    PROVE  \/ acct' = Swept /\ dispatches' = SweptDispatches /\ issued' = issued
           \/ \E a \in Account :
                /\ a \in LendableOf(Swept) /\ Swept[a].lease = 0
                /\ \A b \in Account \ {a} : acct'[b] = Swept[b]
                /\ acct'[a].lease = issued + 1 /\ acct'[a].left \in 1..MaxTTL
                /\ acct'[a].present = Swept[a].present
                /\ acct'[a].owner = Swept[a].owner
                /\ dispatches' = SweptDispatches
                                   \cup {[lease |-> issued + 1, account |-> a,
                                          client |-> c, event |-> "claimed"]}
                /\ issued' = issued + 1
<1>1. Swept = [b \in Account |-> Swept[b]] /\ Swept \in [Account -> AccountRow]
  BY SweptType DEF Swept, TypeOK
<1>2. ASSUME NEW a \in Account,
             Eligible(Swept[a], auth[a], cache[a].result),
             acct' = [Swept EXCEPT ![a].lease = issued + 1, ![a].client = c,
                                   ![a].left = normalizeLeaseTTL(ttl)]
      PROVE  /\ a \in LendableOf(Swept) /\ Swept[a].lease = 0
             /\ \A b \in Account \ {a} : acct'[b] = Swept[b]
             /\ acct'[a].lease = issued + 1 /\ acct'[a].left \in 1..MaxTTL
             /\ acct'[a].present = Swept[a].present
             /\ acct'[a].owner = Swept[a].owner
  <2>1. a \in LendableOf(Swept)
    BY <1>2 DEF Eligible, LendableOf
  <2>2. Swept[a].lease = 0
    BY <1>2, SurvivorIsActive DEF Eligible
  <2> DEFINE term == normalizeLeaseTTL(ttl)
             lease == issued + 1
             new == [Swept[a] EXCEPT !.lease = lease, !.client = c, !.left = term]
  <2>3. term \in 1..MaxTTL
    BY TermAssumption DEF normalizeLeaseTTL
  <2>4. acct' = [Swept EXCEPT ![a] = new]
    BY <1>2
  <2> HIDE DEF term, lease
  <2>5. /\ new.lease = lease /\ new.left = term
        /\ new.present = Swept[a].present /\ new.owner = Swept[a].owner
    BY <1>1 DEF AccountRow
  <2> HIDE DEF new
  <2>6. acct'[a] = new /\ \A b \in Account \ {a} : acct'[b] = Swept[b]
    BY <1>1, <2>4
  <2> QED BY <2>1, <2>2, <2>3, <2>5, <2>6 DEF lease
<1> QED BY <1>2 DEF Claim, Picks, Candidates

\* A probe changes rows only when it records its result.
LEMMA FetchOneRow ==
    ASSUME TypeOK, BusyWithAccount, AbsentIsBare, NEW p \in Prober, Fetch(p)
    PROVE  /\ UNCHANGED acct \/ \E a \in Account : OneRow(a)
           /\ UNCHANGED <<dispatches, issued>>
<1>1. CASE FetchRecord(p)
  <2>1. /\ WriteQuotaResult(probe[p].account, probe[p].result, probe[p].changed,
                            "cloud", FALSE)
        /\ UNCHANGED <<dispatches, issued>>
    BY <1>1 DEF FetchRecord
  <2>2. probe[p].account \in Account
    BY <1>1 DEF FetchRecord, BusyWithAccount
  <2> QED BY <2>1, <2>2, ResultOneRow
<1>2. CASE ~ FetchRecord(p)
  BY <1>2 DEF Fetch, FetchLoad, FetchRecheck, FetchSend, FetchAnswer,
     FetchRefresh, FetchRefused
<1> QED BY <1>1, <1>2

\* The remaining steps but the tick change neither rows, history nor count.
LEMMA OtherSteps ==
    ASSUME \/ SelectAccountForRun \/ ResetRoundRobin \/ Crash \/ UNCHANGED vars
           \/ \E w \in Worker : WorkerStart(w)
           \/ \E v \in Viewer, a \in Account : ViewerStart(v, a)
           \/ \E a \in Account, token \in Token \cup {NoToken} : CrashBeforeSave(a, token)
    PROVE  UNCHANGED <<acct, dispatches, issued>>
BY DEF SelectAccountForRun, ResetRoundRobin, Crash, CrashBeforeSave,
   WorkerStart, ViewerStart, vars

\* Every step keeps the rows of absent accounts bare.
LEMMA BareStep ==
    ASSUME TypeOK, BusyWithAccount, AbsentIsBare, [Next]_vars PROVE AbsentIsBare'
<1>1. ASSUME NEW a \in Account, ~ Swept[a].present PROVE Swept[a].lease = 0
  <2>1. Swept[a].present = acct[a].present
    BY DEF TypeOK, Swept, clearAccountLease, AccountRow
  <2>2. Swept[a].lease = 0 \/ Swept[a] = acct[a]
    BY SweptRows
  <2> QED BY <1>1, <2>1, <2>2 DEF AbsentIsBare
<1>2. ASSUME NEW a \in Account, OneRow(a) PROVE AbsentIsBare'
  BY <1>2 DEF OneRow, AbsentIsBare
<1>3. CASE SaveSweep
  BY <1>1, <1>3 DEF SaveSweep, AbsentIsBare
<1>4. ASSUME NEW c \in Client, NEW workspace \in Workspace, NEW ttl \in TTL,
             Claim(c, workspace, ttl)
      PROVE  AbsentIsBare'
  BY <1>1, <1>4, ClaimRow DEF AbsentIsBare, LendableOf
<1>5. ASSUME NEW c \in Caller, NEW l \in 1..issued, NEW a \in Account,
             LeaseCall(c, l, a)
      PROVE  AbsentIsBare'
  <2>1. CASE \E result \in Reports : RecordLeasedQuota(c, l, a, result)
    BY <1>2, <2>1, ResultOneRow DEF RecordLeasedQuota
  <2>2. CASE \A result \in Reports : ~ RecordLeasedQuota(c, l, a, result)
    BY <1>1, <1>5, <2>2, HolderRow DEF AbsentIsBare
  <2> QED BY <2>1, <2>2
<1>6. ASSUME NEW p \in Prober, Fetch(p) PROVE AbsentIsBare'
  BY <1>2, <1>6, FetchOneRow DEF AbsentIsBare
<1>7. ASSUME NEW a \in Account, Operator(a) PROVE AbsentIsBare'
  BY <1>2, <1>7, OperatorOneRow
<1>8. CASE Tick
  <2>1. \A a \in Account : acct'[a].present = acct[a].present
                           /\ acct'[a].lease = acct[a].lease
    BY <1>8 DEF Tick, TypeOK, AccountRow
  <2> QED BY <2>1 DEF AbsentIsBare
<1>9. CASE UNCHANGED acct
  BY <1>9 DEF AbsentIsBare
<1> QED BY <1>3, <1>4, <1>5, <1>6, <1>7, <1>8, <1>9, OtherSteps
       DEF Next, ClientStep, ClaimStart, RefusedLeaseCall

-----------------------------------------------------------------------------
(* The bound of the model: a claim under way has a lease set aside for it  *)

Claimants == {d \in Client : probe[d].job = "claim"}

Reserved == issued + Cardinality(Claimants) <= MaxLeases

\* There are finitely many claims under way, and none without a client.
LEMMA ClaimantsFinite == IsFiniteSet(Claimants) /\ Cardinality(Claimants) \in Nat
<1>1. Claimants \in SUBSET Client
  BY DEF Claimants
<1> QED BY <1>1, ClientAssumption, FS_Subset, FS_CardinalityType

\* The clients with a claim under way, in the state after a step.
LEMMA ClaimantsAfter == Claimants' = {d \in Client : probe'[d].job = "claim"}
BY DEF Claimants

\* Nothing but the start of a claim puts a client among the claimants.
LEMMA NoNewClaimant ==
    ASSUME TypeOK, BusyWithAccount, [Next]_vars,
           \A c \in Client : ~ ClaimStart(c)
    PROVE  Claimants' \subseteq Claimants
<1> SUFFICES ASSUME NEW d \in Client, probe'[d].job = "claim"
             PROVE  probe[d].job = "claim"
  BY ClaimantsAfter DEF Claimants
<1>0. /\ probe = [p \in Prober |-> probe[p]] /\ d \in Prober
      /\ \A p \in Prober : probe[p] \in ProbeState
      /\ Idle.job = "none"
  BY DEF TypeOK, Prober, Idle
<1> USE <1>0
<1>1. CASE UNCHANGED probe
  BY <1>1
<1>2. ASSUME NEW c \in Client, NEW workspace, NEW ttl, Claim(c, workspace, ttl)
      PROVE  probe[d].job = "claim"
  BY <1>2 DEF Claim
<1>3. ASSUME NEW p \in Prober, Fetch(p) PROVE probe[d].job = "claim"
  <2>1. CASE d # p
    BY <1>3, <2>1 DEF Fetch, FetchLoad, FetchRecheck, FetchSend, FetchAnswer,
       FetchRefresh, FetchRefused, FetchRecord, Answered
  <2>2. CASE d = p
    <3>1. ASSUME NEW a PROVE Returned(p, a).job = "claim" => probe[p].job = "claim"
      BY DEF Returned, Idle
    <3>2. ASSUME NEW a \in Account, FetchLoad(p, a) PROVE probe[d].job = "claim"
      BY <2>2, <3>1, <3>2 DEF FetchLoad, ProbeState
    <3>3. CASE FetchRecheck(p)
      BY <2>2, <3>1, <3>3 DEF FetchRecheck, ProbeState
    <3>4. CASE FetchSend(p)
      BY <2>2, <3>4 DEF FetchSend, ProbeState
    <3>5. ASSUME NEW result, NEW token, Answered(p, result, token)
          PROVE  probe[d].job = "claim"
      BY <2>2, <3>5 DEF Answered, ProbeState
    <3>6. CASE FetchAnswer(p) \/ FetchRefused(p)
      BY <3>5, <3>6 DEF FetchAnswer, FetchRefused
    <3>7. ASSUME NEW token, FetchRefresh(p, token) PROVE probe[d].job = "claim"
      BY <2>2, <3>5, <3>7 DEF FetchRefresh, ProbeState
    <3>8. CASE FetchRecord(p)
      BY <2>2, <3>1, <3>8 DEF FetchRecord
    <3> QED BY <1>3, <3>2, <3>3, <3>4, <3>6, <3>7, <3>8 DEF Fetch
  <2> QED BY <2>1, <2>2
<1>4. ASSUME NEW w \in Worker, WorkerStart(w) PROVE probe[d].job = "claim"
  <2> DEFINE queue == {a \in Account : ShouldRefresh(a)}
             new == [probe[w] EXCEPT !.job = "fetch", !.todo = queue]
  <2>1. probe' = [probe EXCEPT ![w] = new] /\ w \in Prober
    BY <1>4 DEF WorkerStart, Prober
  <2> HIDE DEF queue
  <2>2. new.job = "fetch"
    BY <2>1 DEF ProbeState
  <2> HIDE DEF new
  <2> QED BY <2>1, <2>2
<1>5. ASSUME NEW v \in Viewer, NEW a, ViewerStart(v, a) PROVE probe[d].job = "claim"
  BY <1>5 DEF ViewerStart, ProbeState, Prober
<1>6. CASE Tick
  BY <1>6 DEF Tick, ProbeState
<1>7. CASE Crash \/ \E a \in Account, token \in Token \cup {NoToken} :
                      CrashBeforeSave(a, token)
  BY <1>7 DEF Crash, CrashBeforeSave, Restart
<1>8. ASSUME NEW c \in Caller, NEW l \in 1..issued, NEW a \in Account,
             LeaseCall(c, l, a) PROVE UNCHANGED probe
  BY <1>8 DEF LeaseCall, Touch, Upload, Release, RecordLeasedQuota
<1>9. ASSUME NEW a \in Account, Operator(a) PROVE UNCHANGED probe
  BY <1>9 DEF Operator, SetStatus, SetOwner, SetAccountWorkspace, DeleteAccount,
     Push, RecordQuotaReport
<1>10. CASE RefusedLeaseCall \/ SelectAccountForRun \/ ResetRoundRobin \/ UNCHANGED vars
  BY <1>1, <1>10 DEF RefusedLeaseCall, SelectAccountForRun, ResetRoundRobin, vars
<1> QED BY <1>1, <1>2, <1>3, <1>4, <1>5, <1>6, <1>7, <1>8, <1>9, <1>10
       DEF Next, ClientStep

\* Only a claim issues a lease.
LEMMA OnlyClaimsIssue ==
    ASSUME [Next]_vars,
           \A c \in Client, workspace \in Workspace, ttl \in TTL :
               ~ Claim(c, workspace, ttl)
    PROVE  issued' = issued
<1>1. ASSUME NEW c, ClaimStart(c) PROVE issued' = issued
  BY <1>1, Zenon DEF ClaimStart
<1>2. ASSUME NEW c, NEW l, NEW a, LeaseCall(c, l, a) PROVE issued' = issued
  BY <1>2, Zenon DEF LeaseCall, Touch, Upload, Release, RecordLeasedQuota
<1>3. ASSUME NEW p, Fetch(p) PROVE issued' = issued
  BY <1>3, Zenon DEF Fetch, FetchLoad, FetchRecheck, FetchSend, FetchAnswer,
     FetchRefresh, FetchRefused, FetchRecord
<1>4. ASSUME NEW a, Operator(a) PROVE issued' = issued
  BY <1>4, Zenon DEF Operator, SetStatus, SetOwner, SetAccountWorkspace,
     DeleteAccount, Push, RecordQuotaReport
<1>5. CASE RefusedLeaseCall \/ Tick
  BY <1>5, Zenon DEF RefusedLeaseCall, Tick
<1> QED BY <1>1, <1>2, <1>3, <1>4, <1>5, OtherSteps DEF Next, ClientStep

\* No more leases are issued than the model has.
LEMMA ReservedStep ==
    ASSUME TypeOK, BusyWithAccount, Reserved, [Next]_vars PROVE Reserved'
<1>1. /\ issued \in Nat /\ MaxLeases \in Nat
      /\ IsFiniteSet(Claimants) /\ Cardinality(Claimants) \in Nat
  BY ClaimantsFinite, BoundAssumption DEF TypeOK
<1>2. Reserved' <=> issued' + Cardinality(Claimants') <= MaxLeases
  BY DEF Reserved
<1>3. ASSUME NEW c \in Client, NEW workspace \in Workspace, NEW ttl \in TTL,
             Claim(c, workspace, ttl)
      PROVE  Reserved'
  <2>1. c \in Claimants /\ (issued' = issued \/ issued' = issued + 1)
    BY <1>3 DEF Claim, Claimants
  <2>2. probe' = [probe EXCEPT ![c] = Idle] /\ Idle.job = "none" /\ c \in Prober
        /\ probe = [p \in Prober |-> probe[p]] /\ Client \subseteq Prober
    BY <1>3 DEF Claim, Idle, Prober, TypeOK
  <2>3. Claimants' = Claimants \ {c}
    BY <2>2, ClaimantsAfter DEF Claimants
  <2>4. Cardinality(Claimants') = Cardinality(Claimants) - 1
    BY <1>1, <2>1, <2>3, FS_RemoveElement
  <2> QED BY <1>1, <1>2, <2>1, <2>4 DEF Reserved
<1>4. ASSUME \A c \in Client, workspace \in Workspace, ttl \in TTL :
                ~ Claim(c, workspace, ttl),
             NEW c \in Client, ClaimStart(c)
      PROVE  Reserved'
  <2>1. issued' = issued /\ issued + Cardinality(Claimants) < MaxLeases
    <3>1. /\ issued' = issued
          /\ issued + Cardinality({d \in Client : probe[d].job = "claim"}) < MaxLeases
      BY <1>4, Zenon DEF ClaimStart
    <3> QED BY <3>1 DEF Claimants
  <2>2. \A d \in Client \ {c} : probe'[d] = probe[d]
    BY <1>4 DEF ClaimStart, TypeOK, Prober
  <2>3. Claimants' \subseteq Claimants \cup {c}
    BY <2>2, ClaimantsAfter DEF Claimants
  <2>4. /\ IsFiniteSet(Claimants \cup {c})
        /\ Cardinality(Claimants \cup {c}) <= Cardinality(Claimants) + 1
    <3>1. /\ IsFiniteSet(Claimants \cup {c})
          /\ Cardinality(Claimants \cup {c})
               = IF c \in Claimants THEN Cardinality(Claimants)
                 ELSE Cardinality(Claimants) + 1
      BY <1>1, FS_AddElement, Zenon
    <3> QED BY <1>1, <3>1
  <2>5. /\ Cardinality(Claimants') <= Cardinality(Claimants \cup {c})
        /\ IsFiniteSet(Claimants')
    BY <2>3, <2>4, FS_Subset
  <2>6. Cardinality(Claimants') \in Nat /\ Cardinality(Claimants \cup {c}) \in Nat
    BY <2>4, <2>5, FS_CardinalityType
  <2> QED BY <1>1, <1>2, <2>1, <2>4, <2>5, <2>6
<1>5. CASE /\ \A c \in Client : ~ ClaimStart(c)
           /\ \A c \in Client, workspace \in Workspace, ttl \in TTL :
                 ~ Claim(c, workspace, ttl)
  <2>1. issued' = issued
    BY <1>5, OnlyClaimsIssue
  <2>2. Claimants' \in SUBSET Claimants
    BY <1>5, NoNewClaimant
  <2>3. Cardinality(Claimants') <= Cardinality(Claimants) /\ IsFiniteSet(Claimants')
    BY <1>1, <2>2, FS_Subset
  <2>4. Cardinality(Claimants') \in Nat
    BY <2>3, FS_CardinalityType
  <2> QED BY <1>1, <1>2, <2>1, <2>3, <2>4 DEF Reserved
<1> QED BY <1>3, <1>4, <1>5

-----------------------------------------------------------------------------
(* Every step of the manager is a step of the pool, or none                *)

\* A step on one account takes the account from the pool or leaves it there;
\* it ends a lease only in the first case.
LEMMA OneRowPromise ==
    ASSUME TypeOK, Ledger(acct, dispatches, issued),
           Ledger(acct', dispatches', issued'), issued <= MaxLeases,
           UNCHANGED <<dispatches, issued>>, NEW a \in Account, OneRow(a)
    PROVE  Pool!TakeAway(a) \/ Pool!ReturnToPool(a)
<1>0. /\ issued \in Nat /\ acct \in [Account -> AccountRow] /\ MaxLeases \in Nat
      /\ Ledger(acct', dispatches, issued)
  BY BoundAssumption DEF TypeOK
<1>1. AccountOf(dispatches', issued') = AccountOf(dispatches, issued)
  OBVIOUS
<1>2. \A b \in Account \ {a} : b \in LendableOf(acct') <=> b \in LendableOf(acct)
  BY DEF OneRow, LendableOf
<1>3. \/ LendableOf(acct') = LendableOf(acct) \ {a}
      \/ LendableOf(acct') = LendableOf(acct) \cup {a}
  <2>1. LendableOf(acct') \subseteq Account /\ LendableOf(acct) \subseteq Account
    BY DEF LendableOf
  <2> QED BY <1>2, <2>1
<1>4. CASE /\ acct'[a].lease = acct[a].lease
           /\ acct[a].lease # 0 => acct'[a].left = acct[a].left
  <2>1. \A b \in Account : /\ acct'[b].lease = acct[b].lease
                           /\ acct[b].lease # 0 => acct'[b].left = acct[b].left
    BY <1>4 DEF OneRow
  <2>2. /\ PhaseOf(acct', dispatches, issued) = PhaseOf(acct, dispatches, issued)
        /\ LeftOf(acct') = LeftOf(acct)
    BY <1>0, <2>1, QuietPromise
  <2> QED BY <1>1, <1>3, <2>2 DEF Pool!TakeAway, Pool!ReturnToPool
<1>5. CASE acct'[a].lease = 0 /\ acct[a].lease # 0 /\ a \notin LendableOf(acct')
  <2>0. PICK l : acct[a].lease = l
    OBVIOUS
  <2> DEFINE revoked == {k \in Ids : /\ PhaseOf(acct, dispatches, issued)[k] = "held"
                                     /\ AccountOf(dispatches, issued)[k] = a}
  <2>1. LendableOf(acct') = LendableOf(acct) \ {a}
    BY <1>3, <1>5
  <2>2. l \in Ids
    <3>1. /\ DispatchOf(acct[a], a, "claimed") \in dispatches
          /\ DispatchOf(acct[a], a, "claimed").lease = l
      BY <1>5, <2>0 DEF Ledger, DispatchOf
    <3>2. l \in 1..issued
      BY <3>1 DEF Ledger
    <3> QED BY <1>0, <3>2 DEF Ids
  <2>3. EndedAs(dispatches, l) = "revoked"
    BY <1>5, <2>0 DEF Ledger, EndedAs
  <2>4. revoked = {l}
    <3>1. ASSUME NEW k \in revoked PROVE k = l
      <4>1. PICK b \in Account : acct[b].lease = k
        BY <1>0, EndIsNotHeld
      <4>2. AccountOf(dispatches, issued)[k] = b
        BY <1>0, <4>1, HeldLease
      <4> QED BY <2>0, <4>1, <4>2
    <3>2. l \in revoked
      BY <1>0, <2>0, <2>2, HeldLease
    <3> QED BY <3>1, <3>2
  <2>5. /\ PhaseOf(acct', dispatches, issued)
             = [PhaseOf(acct, dispatches, issued) EXCEPT ![l] = "revoked"]
        /\ LeftOf(acct') = [LeftOf(acct) EXCEPT ![l] = 0]
    <3>1. /\ dispatches \subseteq dispatches
          /\ \A d \in dispatches \ dispatches : d.lease = l
      OBVIOUS
    <3>2. \A b \in Account \ {a} : acct'[b] = acct[b]
      BY DEF OneRow
    <3> QED BY <1>0, <1>5, <2>0, <2>2, <2>3, <3>1, <3>2, EndPromise
  <2> HIDE DEF revoked
  <2>6. /\ PhaseOf(acct', dispatches, issued)
             = [k \in Ids |-> IF k \in revoked THEN "revoked"
                              ELSE PhaseOf(acct, dispatches, issued)[k]]
        /\ LeftOf(acct')
             = [k \in Ids |-> IF k \in revoked THEN 0 ELSE LeftOf(acct)[k]]
    <3>1. l \in Ids /\ \A k : k \in revoked <=> k = l
      BY <2>2, <2>4
    <3>2. PhaseOf(acct, dispatches, issued)
            = [k \in Ids |-> PhaseOf(acct, dispatches, issued)[k]]
      BY Shapes
    <3>3. LeftOf(acct) = [k \in Ids |-> LeftOf(acct)[k]]
      BY Shapes
    <3> QED BY <2>5, <3>1, <3>2, <3>3
  <2>7. Pool!TakeAway(a)
    BY <1>1, <2>1, <2>6 DEF Pool!TakeAway, Ids, revoked
  <2> QED BY <2>7
<1> QED BY <1>4, <1>5 DEF OneRow

\* A step that only saves the sweep ends the leases that are out of time.
LEMMA SweepStep ==
    ASSUME TypeOK, Ledger(acct, dispatches, issued),
           acct' = Swept, dispatches' = SweptDispatches, issued' = issued
    PROVE  Pool!Sweep(Pool!OutOfTime)
BY SweepPromise DEF Pool!Sweep

\* A claim lends an account that no running lease is on.
LEMMA ClaimStep ==
    ASSUME TypeOK, Ledger(acct, dispatches, issued),
           Ledger(acct', dispatches', issued'), Reserved,
           NEW c \in Client, NEW workspace \in Workspace, NEW ttl \in TTL,
           Claim(c, workspace, ttl)
    PROVE  Pool!PoolNext
<1>0. /\ issued \in Nat /\ Ledger(Swept, SweptDispatches, issued)
      /\ issued + 1 \in Ids
  <2>1. issued \in Nat /\ MaxLeases \in Nat
        /\ IsFiniteSet(Claimants) /\ Cardinality(Claimants) \in Nat
    BY ClaimantsFinite, BoundAssumption DEF TypeOK
  <2>2. c \in Claimants
    BY Zenon DEF Claim, Claimants
  <2>3. Cardinality(Claimants) # 0
    BY <2>1, <2>2, FS_EmptySet
  <2> QED BY <2>1, <2>3, SweepLedger DEF Reserved, Ids
<1>1. CASE acct' = Swept /\ dispatches' = SweptDispatches /\ issued' = issued
  BY <1>1, SweepStep DEF Pool!PoolNext
<1>2. ASSUME NEW a \in Account,
             a \in LendableOf(Swept), Swept[a].lease = 0,
             \A b \in Account \ {a} : acct'[b] = Swept[b],
             acct'[a].lease = issued + 1, acct'[a].left \in 1..MaxTTL,
             acct'[a].present = Swept[a].present, acct'[a].owner = Swept[a].owner,
             dispatches' = SweptDispatches
                             \cup {[lease |-> issued + 1, account |-> a,
                                    client |-> c, event |-> "claimed"]},
             issued' = issued + 1
      PROVE  Pool!PoolNext
  <2>0. PICK lease : lease = issued + 1
    OBVIOUS
  <2>1. PICK record : record = dispatches'
    OBVIOUS
  <2>2. /\ SweptDispatches \subseteq record
        /\ \A d \in record \ SweptDispatches : d.lease = lease
        /\ Ledger(acct', record, lease)
        /\ lease \in Ids /\ acct'[a].lease = lease
    BY <1>0, <1>2, <2>0, <2>1
  <2>3. /\ PhaseOf(acct', record, lease)
             = [PhaseOf(Swept, SweptDispatches, issued) EXCEPT ![lease] = "held"]
        /\ AccountOf(record, lease)
             = [AccountOf(SweptDispatches, issued) EXCEPT ![lease] = a]
        /\ LeftOf(acct') = [LeftOf(Swept) EXCEPT ![lease] = acct'[a].left]
    <3>1. Swept[a].lease = 0 /\ \A b \in Account \ {a} : acct'[b] = Swept[b]
      BY <1>2
    <3> QED BY <1>0, <2>0, <2>2, <3>1, GrantPromise
  <2>4. LendableOf(acct') = LendableOf(Swept)
    BY <1>2 DEF LendableOf
  <2>5. PhaseOf(acct, dispatches, issued)[lease] = "free"
    BY <1>0, <2>0, <2>2, FreeLease
  <2>6. \A k \in Ids : PhaseOf(Swept, SweptDispatches, issued)[k] = "held"
                         => AccountOf(SweptDispatches, issued)[k] # a
    <3> SUFFICES ASSUME NEW k \in Ids,
                        PhaseOf(Swept, SweptDispatches, issued)[k] = "held"
                 PROVE  AccountOf(SweptDispatches, issued)[k] # a
      OBVIOUS
    <3>1. PICK b \in Account : Swept[b].lease = k
      BY <1>0, EndIsNotHeld
    <3>2. AccountOf(SweptDispatches, issued)[k] = b
      BY <1>0, <3>1, HeldLease
    <3>3. k # 0
      BY DEF Ids
    <3> QED BY <1>2, <3>1, <3>2, <3>3
  <2>7. PICK term : term = acct'[a].left
    OBVIOUS
  <2>8. Pool!Grant(Pool!OutOfTime, lease, a, term)
    <3>1. dispatches' = record /\ issued' = lease
      BY <1>2, <2>0, <2>1
    <3> QED BY <1>2, <2>3, <2>4, <2>5, <2>6, <2>7, <3>1, SweepPromise
            DEF Pool!Grant, Ids
  <2> QED BY <1>2, <2>2, <2>7, <2>8 DEF Pool!PoolNext, Ids
<1> QED BY <1>1, <1>2, ClaimRow

\* A call of a holder renews its lease or gives it back.
LEMMA HolderStep ==
    ASSUME TypeOK, Ledger(acct, dispatches, issued),
           Ledger(acct', dispatches', issued'), issued <= MaxLeases,
           NEW c \in Caller, NEW l \in 1..issued, NEW a \in Account,
           LeaseCall(c, l, a),
           \A result \in Reports : ~ RecordLeasedQuota(c, l, a, result)
    PROVE  Pool!PoolNext
<1>0. /\ issued \in Nat /\ Ledger(Swept, SweptDispatches, issued)
      /\ l \in Ids /\ issued' = issued
  BY BoundAssumption, SweepLedger, HolderRow DEF TypeOK, Ids
<1>1. /\ Active(acct[a]) /\ acct[a].lease = l /\ Swept[a].lease = l
      /\ \A b \in Account \ {a} : acct'[b] = Swept[b]
  BY HolderRow
<1>2. LendableOf(acct') = LendableOf(acct)
  <2>1. LendableOf(acct') = LendableOf(Swept)
    BY HolderRow DEF LendableOf
  <2> QED BY <2>1, SweepPromise
<1>3. PhaseOf(acct, dispatches, issued)[l] = "held" /\ LeftOf(acct)[l] > 0
  BY <1>0, <1>1, HeldLease DEF Active
<1>4. CASE /\ acct'[a].lease = l /\ acct'[a].left \in 1..MaxTTL
           /\ dispatches' = SweptDispatches
  <2>1. PICK term : term = acct'[a].left
    OBVIOUS
  <2>2. Ledger(acct', SweptDispatches, issued)
    BY <1>0, <1>4
  <2>3. /\ PhaseOf(acct', SweptDispatches, issued)
             = PhaseOf(Swept, SweptDispatches, issued)
        /\ LeftOf(acct') = [LeftOf(Swept) EXCEPT ![l] = acct'[a].left]
    BY <1>0, <1>1, <1>4, <2>2, RenewPromise
  <2>4. Pool!Renew(Pool!OutOfTime, l, term)
    BY <1>0, <1>2, <1>3, <1>4, <2>1, <2>3, SweepPromise DEF Pool!Renew
  <2> QED BY <1>0, <1>4, <2>1, <2>4 DEF Pool!PoolNext, Ids
<1>5. CASE /\ acct'[a].lease = 0
           /\ dispatches' = SweptDispatches \cup {DispatchOf(acct[a], a, "released")}
  <2>0. PICK record : record = dispatches'
    OBVIOUS
  <2>1. PICK d \in record : /\ d.lease = l /\ d.event = "released"
                            /\ record = SweptDispatches \cup {d}
    BY <1>1, <1>5, <2>0 DEF DispatchOf
  <2>2. /\ SweptDispatches \subseteq record
        /\ \A e \in record \ SweptDispatches : e.lease = l
    BY <2>1
  <2>3. Ledger(acct', record, issued) /\ acct'[a].lease = 0
    BY <1>0, <1>5, <2>0
  <2>4. EndedAs(record, l) = "released"
    <3>1. \A e \in record : e.lease = l => e.event # "expired"
      BY <2>1, <2>3 DEF Ledger
    <3> QED BY <2>1, <3>1 DEF EndedAs
  <2>5. /\ PhaseOf(acct', record, issued)
             = [PhaseOf(Swept, SweptDispatches, issued)
                  EXCEPT ![l] = EndedAs(record, l)]
        /\ AccountOf(record, issued) = AccountOf(SweptDispatches, issued)
        /\ LeftOf(acct') = [LeftOf(Swept) EXCEPT ![l] = 0]
    BY <1>0, <1>1, <2>2, <2>3, EndPromise
  <2>6. Pool!GiveBack(Pool!OutOfTime, l)
    BY <1>0, <1>2, <1>3, <2>0, <2>4, <2>5, SweepPromise DEF Pool!GiveBack
  <2> QED BY <1>0, <2>6 DEF Pool!PoolNext, Ids
<1> QED BY <1>4, <1>5, HolderRow

\* A tick brings every held lease closer to its end.
LEMMA TickStep ==
    ASSUME TypeOK, Ledger(acct, dispatches, issued),
           Ledger(acct', dispatches', issued'), Tick
    PROVE  Pool!Pass
<1>0. /\ issued \in Nat /\ UNCHANGED <<dispatches, issued>>
      /\ Ledger(acct', dispatches, issued)
  BY DEF TypeOK, Tick
<1>1. \A a \in Account :
         /\ acct'[a].lease = acct[a].lease
         /\ acct'[a].left = IF acct[a].left > 0 THEN acct[a].left - 1 ELSE 0
         /\ acct'[a].present = acct[a].present /\ acct'[a].owner = acct[a].owner
  BY DEF TypeOK, Tick, AccountRow
<1>2. LendableOf(acct') = LendableOf(acct)
  BY <1>1 DEF LendableOf
<1>3. ASSUME NEW l \in Ids
      PROVE  /\ PhaseOf(acct', dispatches, issued)[l] = PhaseOf(acct, dispatches, issued)[l]
             /\ LeftOf(acct')[l] = IF LeftOf(acct)[l] > 0 THEN LeftOf(acct)[l] - 1 ELSE 0
  <2>1. issued <= issued /\ (l <= issued \/ l > issued)
    BY <1>0 DEF Ids
  <2>2. dispatches \subseteq dispatches /\ \A d \in dispatches \ dispatches : d.lease # l
    OBVIOUS
  <2>3. \A a \in Account : acct'[a].lease = l <=> acct[a].lease = l
    BY <1>1
  <2>4. PhaseOf(acct', dispatches, issued)[l] = PhaseOf(acct, dispatches, issued)[l]
    BY <1>0, <2>1, <2>2, <2>3, Unmoved
  <2>5. CASE \E a \in Account : acct[a].lease = l
    <3>1. PICK a \in Account : acct[a].lease = l
      BY <2>5
    <3>2. LeftOf(acct)[l] = acct[a].left /\ LeftOf(acct')[l] = acct'[a].left
      BY <1>0, <2>3, <3>1, HeldLease
    <3> QED BY <1>1, <2>4, <3>2
  <2>6. CASE \A a \in Account : acct[a].lease # l
    <3>1. LeftOf(acct)[l] = 0 /\ LeftOf(acct')[l] = 0
      BY <2>3, <2>6 DEF LeftOf, LeasedAs, Ids
    <3> QED BY <2>4, <3>1
  <2> QED BY <2>5, <2>6
<1>4. PhaseOf(acct', dispatches, issued) = PhaseOf(acct, dispatches, issued)
  BY <1>3, Shapes
<1>5. LeftOf(acct') = [l \in Ids |-> IF LeftOf(acct)[l] > 0 THEN LeftOf(acct)[l] - 1 ELSE 0]
  BY <1>3, Shapes
<1> QED BY <1>0, <1>2, <1>4, <1>5 DEF Pool!Pass, Ids

\* What the refinement rests on.
Promising ==
    /\ TypeOK
    /\ BusyWithAccount
    /\ Ledger(acct, dispatches, issued)
    /\ AbsentIsBare
    /\ Reserved

(* At the start no lease was given, so nothing is claimed, held or reserved. *)
LEMMA PromisingInit == Init => Promising
<1> SUFFICES ASSUME Init PROVE Promising
  OBVIOUS
<1>1. /\ \A a \in Account : acct[a].lease = 0
      /\ dispatches = {} /\ issued = 0 /\ 1..0 = {}
  <2>1. \A a \in Account : acct[a].lease = 0
    BY DEF Init, Imported, Absent
  <2>2. dispatches = {} /\ issued = 0
    BY DEF Init
  <2> QED BY <2>1, <2>2
<1>2. Ledger(acct, dispatches, issued) /\ AbsentIsBare
  BY <1>1 DEF Ledger, AbsentIsBare
<1>3. TypeOK /\ BusyWithAccount
  BY InitType DEF Init, BusyWithAccount, Idle, Prober
<1>4. Reserved
  <2>1. Claimants = {}
    BY DEF Claimants, Init, Idle, Prober
  <2>2. Cardinality(Claimants) = 0
    BY <2>1, FS_EmptySet
  <2> QED BY <1>1, <2>2, BoundAssumption DEF Reserved
<1> QED BY <1>2, <1>3, <1>4 DEF Promising

(* Every action keeps the facts the refinement rests on: one step per action of Next. *)
LEMMA PromisingStep == Promising /\ [Next]_vars => Promising'
BY NextType, NextBusy, LedgerStep, BareStep, ReservedStep DEF Promising

\* The pool begins with every account in it and no lease.
LEMMA PromiseInit == Init => Pool!PoolInit
<1> SUFFICES ASSUME Init PROVE Pool!PoolInit
  OBVIOUS
<1>1. /\ Ledger(acct, dispatches, issued) /\ issued = 0 /\ issued \in Nat
      /\ \A l \in Ids : l > issued
  <2>1. Ledger(acct, dispatches, issued)
    BY PromisingInit DEF Promising
  <2>2. issued = 0
    BY DEF Init
  <2> QED BY <2>1, <2>2 DEF Ids
<1>2. \A l \in Ids : /\ PhaseOf(acct, dispatches, issued)[l] = "free"
                     /\ AccountOf(dispatches, issued)[l] = 0
                     /\ LeftOf(acct)[l] = 0
  BY <1>1, FreeLease
<1>3. /\ PhaseOf(acct, dispatches, issued) = [l \in Ids |-> "free"]
      /\ AccountOf(dispatches, issued) = [l \in Ids |-> 0]
      /\ LeftOf(acct) = [l \in Ids |-> 0]
  BY <1>2, Shapes
<1>4. LendableOf(acct) = Account
  BY DEF Init, LendableOf, Imported, Absent
<1> QED BY <1>3, <1>4 DEF Pool!PoolInit, Ids

\* Every step of the manager is one of the pool, or leaves the pool alone.
LEMMA PromiseStep ==
    ASSUME Promising, [Next]_vars PROVE [Pool!PoolNext]_(Pool!poolVars)
<1> DEFINE Goal == Pool!PoolNext \/ UNCHANGED Pool!poolVars
<1>0. /\ TypeOK /\ BusyWithAccount /\ AbsentIsBare /\ Reserved
      /\ Ledger(acct, dispatches, issued)
      /\ Ledger(acct', dispatches', issued')
      /\ issued <= MaxLeases
  <2>1. issued \in Nat /\ MaxLeases \in Nat /\ Cardinality(Claimants) \in Nat
    BY ClaimantsFinite, BoundAssumption DEF Promising, TypeOK
  <2> QED BY <2>1, PromisingStep DEF Promising, Reserved
<1>1. ASSUME UNCHANGED <<acct, dispatches, issued>> PROVE UNCHANGED Pool!poolVars
  BY <1>1 DEF Pool!poolVars
<1>2. ASSUME NEW a \in Account, OneRow(a), UNCHANGED <<dispatches, issued>>
      PROVE  Pool!PoolNext
  BY <1>0, <1>2, OneRowPromise DEF Pool!PoolNext
<1>3. ASSUME SaveSweep, UNCHANGED issued PROVE Pool!PoolNext
  BY <1>0, <1>3, SweepStep DEF SaveSweep, Pool!PoolNext
<1>4. ASSUME NEW c \in Client, NEW workspace \in Workspace, NEW ttl \in TTL,
             Claim(c, workspace, ttl)
      PROVE  Pool!PoolNext
  BY <1>0, <1>4, ClaimStep
<1>5. ASSUME NEW c \in Caller, NEW l \in 1..issued, NEW a \in Account,
             LeaseCall(c, l, a)
      PROVE  Pool!PoolNext
  <2>1. ASSUME NEW result \in Reports, RecordLeasedQuota(c, l, a, result)
        PROVE  Pool!PoolNext
    <3>1. OneRow(a) /\ UNCHANGED <<dispatches, issued>>
      BY <1>0, <2>1, ResultOneRow DEF RecordLeasedQuota
    <3> QED BY <1>2, <3>1
  <2>2. CASE \A result \in Reports : ~ RecordLeasedQuota(c, l, a, result)
    BY <1>0, <1>5, <2>2, HolderStep
  <2> QED BY <2>1, <2>2
<1>6. ASSUME NEW p \in Prober, Fetch(p) PROVE Goal
  BY <1>0, <1>1, <1>2, <1>6, FetchOneRow
<1>7. ASSUME NEW a \in Account, Operator(a) PROVE Pool!PoolNext
  BY <1>0, <1>2, <1>7, OperatorOneRow
<1>8. CASE Tick
  BY <1>0, <1>8, TickStep DEF Pool!PoolNext
<1> HIDE DEF Goal
<1>9. Goal
  <2>1. ASSUME UNCHANGED Pool!poolVars PROVE Goal
    BY <2>1 DEF Goal
  <2>2. ASSUME Pool!PoolNext PROVE Goal
    BY <2>2 DEF Goal
  <2> QED BY <1>1, <1>3, <1>4, <1>5, <1>6, <1>7, <1>8, <2>1, <2>2, OtherSteps
          DEF Next, ClientStep, ClaimStart, RefusedLeaseCall
<1> QED BY <1>9 DEF Goal

\* The manager of one server keeps what the pool promises its borrowers, for
\* any accounts, clients, terms and faults of the model (lease.go): an account
\* is lent to one holder at a time, and a lease ends only by its time, its
\* holder or an operator, with the end on record.
THEOREM PromiseKept == Spec => KeepsThePromise
<1>1. Spec => []Promising
  BY PromisingInit, PromisingStep, PTL DEF Spec
<1>2. Promising /\ [Next]_vars => [Pool!PoolNext]_(Pool!poolVars)
  BY PromiseStep
<1> QED BY <1>1, <1>2, PromiseInit, PTL DEF Spec, KeepsThePromise, Pool!PoolSpec
=============================================================================
