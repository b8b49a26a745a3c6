---------------------------- MODULE PgStoreProofs ----------------------------
(***************************************************************************)
(* Proofs about PgStore, for any servers, accounts and operations and any  *)
(* bound: what several servers on one database keep, and why the advisory  *)
(* lock and updated_at are enough for it.                                  *)
(***************************************************************************)
EXTENDS PgStore, TLAPS

-----------------------------------------------------------------------------
(* The inductive invariant                                                 *)

\* Every lease that a row, an operation or a client names was issued.
LeasesIssued ==
    /\ \A a \in Account : db[a].lease <= issued
    /\ \A s \in Server : /\ tx[s].lease <= issued
                         /\ \A a \in Account : tx[s].rows[a].lease <= issued
    /\ \A l \in Held : l <= issued /\ held[l].account \in Account

\* The leases that rows of an account name, saved or not.
Named(a) == {db[a].lease} \cup {tx[s].rows[a].lease : s \in Server}

\* No lease is on two accounts.
OneHome == \A a, b \in Account : a # b => Named(a) \cap Named(b) \subseteq {0}

\* A row that is not there carries no lease and has counted nothing.
Bare(row) == ~ row.present => row.lease = 0 /\ row.generation = 0
AbsentBare ==
    \A a \in Account : Bare(db[a]) /\ \A s \in Server : Bare(tx[s].rows[a])

\* No row is stamped with a time to come, and none with the time that an
\* answered quota result is still to be committed under.
Stamped ==
    /\ \A a \in Account : db[a].stamp <= clock
    /\ \A s \in Server : /\ tx[s].now <= clock
                         /\ \A a \in Account : tx[s].rows[a].stamp <= clock
    /\ \A s \in Server :
          /\ job[s].pc # "idle" => job[s].account \in Account
          /\ job[s].pc = "answered" =>
                /\ job[s].stamp \in 1..clock
                /\ \A a \in Account :
                      /\ db[a].stamp # job[s].stamp
                      /\ \A t \in Server : tx[t].rows[a].stamp # job[s].stamp
                /\ \A t \in Server \ {s} :
                      job[t].pc = "answered" => job[t].stamp # job[s].stamp

\* Two rows that differ at most in status, owner and auth.
Alike(row, other) ==
    /\ row.present = other.present /\ row.generation = other.generation
    /\ row.lease = other.lease /\ row.stamp = other.stamp

\* What the operation of server s changed of row a, as it still is in the
\* database: it takes away no lease that is live, unless it is an operator who
\* does, and counts up.
Changed(s, a) ==
    LET row == tx[s].rows[a]
    IN  /\ tx[s].pc = "decided" /\ row.stamp = tx[s].now /\ db[a].stamp < tx[s].now
        /\ row.present
        /\ row.generation >= db[a].generation
        /\ \/ row.lease = db[a].lease
           \/ tx[s].op = "setOwner" /\ row.lease = 0
           \/ /\ tx[s].op \in LeaseOperation /\ db[a].lease \notin Live
              /\ row.lease = 0 \/ (tx[s].op = "claim" /\ row.lease = tx[s].lease)

\* The rows of an operation under way against those of the database: nobody
\* has written row a since, or a save of it loses, or is a race.
UpToDate(s, a) ==
    LET row == tx[s].rows[a]
    IN  IF a \notin tx[s].overtaken
        THEN Alike(row, db[a]) \/ Changed(s, a)
        ELSE \/ ~ row.present \/ ~ db[a].present
             \/ row.stamp < db[a].stamp
             \/ tx[s].pc = "decided" /\ row.stamp = tx[s].now

RowsUpToDate ==
    \A s \in Server, a \in Account \ raced :
        tx[s].pc \in {"loaded", "decided"} => UpToDate(s, a)

\* Server s is about to save an account that, as far as it knows, is not there.
Adds(s, a) ==
    /\ tx[s].pc = "decided" /\ a \notin tx[s].overtaken
    /\ tx[s].rows[a].present /\ tx[s].rows[a].stamp = tx[s].now
    /\ ~ db[a].present

\* It does so under a later time than that of any row that was loaded while the
\* account was still there.
AddsLater ==
    \A s, t \in Server, a \in Account \ raced :
        Adds(s, a) /\ tx[t].rows[a].present =>
            \/ tx[t].rows[a].stamp < tx[s].now
            \/ tx[t].pc = "decided" /\ tx[t].rows[a].stamp = tx[t].now

\* The lease of a claim or an upload that is about to be saved is on one of its
\* rows, which it changes.
Placed ==
    \A s \in Server :
        tx[s].pc = "decided" /\ tx[s].op \in {"claim", "upload"} /\ tx[s].lease # 0 =>
            \E a \in Account : /\ tx[s].rows[a].lease = tx[s].lease
                              /\ tx[s].rows[a].present
                              /\ tx[s].rows[a].stamp = tx[s].now

\* The lease of a claim that is about to be saved is nowhere else.
ClaimsFresh ==
    \A s \in Server :
        tx[s].pc = "decided" /\ tx[s].op = "claim" /\ tx[s].lease # 0 =>
            /\ tx[s].lease \notin ended
            /\ \A b \in Account :
                  /\ db[b].lease # tx[s].lease
                  /\ \A t \in Server \ {s} : tx[t].rows[b].lease # tx[s].lease

\* An upload that is about to be saved: it counts up the generation it came
\* with, on the row that has it still.
UploadsCount ==
    \A s \in Server, a \in Account \ raced :
        /\ tx[s].pc = "decided" /\ tx[s].op = "upload" /\ tx[s].lease # 0
        /\ tx[s].rows[a].lease = tx[s].lease /\ a \notin tx[s].overtaken
        => /\ db[a].generation = tx[s].generation
           /\ tx[s].rows[a].generation = tx[s].generation + 1

\* An operation that has decided nothing yet works on the lease it was sent.
LeaseBegun ==
    \A s \in Server :
        tx[s].pc = "loaded" /\ tx[s].lease # 0 =>
            tx[s].op \in {"touch", "upload", "release"}

\* The client of a lease that is being released goes by it no more.
ReleasesGiven ==
    \A s \in Server : tx[s].pc # "idle" /\ tx[s].op = "release" => tx[s].lease \notin Held

\* A lease that was taken off its row is on no row.
EndedGone == \A a \in Account \ raced : db[a].lease \notin ended

\* The generation of a row is past those of the uploads it has accepted.
AcceptedBelow ==
    \A u \in accepted :
        u.account \notin raced => u.generation < db[u.account].generation

\* An idle server has nothing loaded, and one that is to load again is halfway
\* through a push.
IdleIsBare ==
    \A s \in Server : /\ tx[s].pc = "idle" => tx[s] = NoTx
                      /\ tx[s].pc = "again" => tx[s].op = "settings"

\* accepted was sent for accounts.
AcceptedKnown == \A u \in accepted : u.account \in Account

\* The inductive invariant.
PgInv ==
    /\ PgTypeOK /\ LeasesIssued /\ OneHome /\ AbsentBare /\ Stamped /\ RowsUpToDate
    /\ AddsLater /\ Placed /\ ClaimsFresh /\ UploadsCount /\ LeaseBegun
    /\ ReleasesGiven /\ EndedGone /\ AcceptedBelow /\ IdleIsBare /\ AcceptedKnown
    /\ HoldersRecorded /\ UploadsInTurn

-----------------------------------------------------------------------------
(* What a step does to the operation of one server                         *)

\* A step that leaves the operations of all servers but s alone.
Alone(s) == \A t \in Server \ {s} : tx'[t] = tx[t]

\* A server that loads has the rows of the database.
LEMMA LoadedTx ==
    ASSUME PgTypeOK, NEW s \in Server, NEW op \in Operation, NEW lease \in Nat,
           NEW request \in Hold, Load(s, op, lease, request)
    PROVE  /\ tx' \in [Server -> TxState] /\ Alone(s)
           /\ tx'[s].pc = "loaded" /\ tx'[s].op = op /\ tx'[s].lease = lease
           /\ tx'[s].rows = db /\ tx'[s].now = 0 /\ tx'[s].overtaken = {}
           /\ tx'[s].generation = request.generation
<1> DEFINE B == [NoTx EXCEPT
                 !.pc = "loaded", !.op = op, !.lease = lease, !.rows = db,
                 !.account = request.account, !.generation = request.generation,
                 !.auth = request.auth]
<1>1. /\ B \in TxState
      /\ B.pc = "loaded" /\ B.op = op /\ B.lease = lease
      /\ B.rows = db /\ B.now = 0 /\ B.overtaken = {} /\ B.generation = request.generation
    BY DEF NoTx, TxState, PgTypeOK, Hold, Operation, LeaseOperation
<1>2. tx' = [tx EXCEPT ![s] = B]
    BY DEF Load
<1> HIDE DEF B
<1>3. QED
    BY <1>1, <1>2 DEF PgTypeOK, Alone

\* A server that has decided has other rows, a time and a lease.
LEMMA DecidedTx ==
    ASSUME PgTypeOK, NEW s \in Server, NEW rows \in [Account -> Row],
           NEW lease \in Nat, Decided(s, rows, lease)
    PROVE  /\ tx' \in [Server -> TxState] /\ Alone(s)
           /\ tx'[s].pc = "decided" /\ tx'[s].op = tx[s].op /\ tx'[s].lease = lease
           /\ tx'[s].rows = rows /\ tx'[s].now = clock + 1
           /\ tx'[s].overtaken = tx[s].overtaken
           /\ tx'[s].generation = tx[s].generation
<1> DEFINE A == [tx[s] EXCEPT !.pc = "decided"]
           B == [A EXCEPT !.rows = rows]
           C == [B EXCEPT !.now = clock + 1]
           D == [C EXCEPT !.lease = lease]
<1>1. tx[s] \in TxState /\ clock + 1 \in Nat
    BY DEF PgTypeOK
<1>2. /\ A \in TxState /\ A.pc = "decided" /\ A.op = tx[s].op
      /\ A.overtaken = tx[s].overtaken /\ A.generation = tx[s].generation
    BY <1>1 DEF TxState
<1> HIDE DEF A
<1>3. /\ B \in TxState /\ B.pc = "decided" /\ B.op = tx[s].op /\ B.rows = rows
      /\ B.overtaken = tx[s].overtaken /\ B.generation = tx[s].generation
    BY <1>2 DEF TxState
<1> HIDE DEF B
<1>4. /\ C \in TxState /\ C.pc = "decided" /\ C.op = tx[s].op /\ C.rows = rows
      /\ C.overtaken = tx[s].overtaken /\ C.generation = tx[s].generation
      /\ C.now = clock + 1
    BY <1>1, <1>3 DEF TxState
<1> HIDE DEF C
<1>5. /\ D \in TxState /\ D.pc = "decided" /\ D.op = tx[s].op /\ D.rows = rows
      /\ D.overtaken = tx[s].overtaken /\ D.generation = tx[s].generation
      /\ D.now = clock + 1 /\ D.lease = lease
    BY <1>4 DEF TxState
<1>6. tx' = [tx EXCEPT ![s] = D]
  <2>1. tx' = [tx EXCEPT ![s].pc = "decided", ![s].rows = rows,
                         ![s].now = clock + 1, ![s].lease = lease]
      BY Zenon DEF Decided
  <2>2. QED
      BY <2>1 DEF A, B, C, D, PgTypeOK, TxState
<1> HIDE DEF D
<1>7. QED
    BY <1>5, <1>6 DEF PgTypeOK, Alone

\* A server whose operation is over, or gone, is idle.
LEMMA EndedTx ==
    ASSUME PgTypeOK, NEW s \in Server, tx' = [tx EXCEPT ![s] = NoTx]
    PROVE  tx' \in [Server -> TxState] /\ Alone(s) /\ tx'[s] = NoTx
<1>1. NoTx \in TxState
    BY DEF NoTx, TxState, NoRow, Row, Status, OwnerMode, Operation, LeaseOperation
<1>2. QED
    BY <1>1 DEF PgTypeOK, Alone

\* The operations of ops under way are told which rows were written; nothing
\* else in them changes.
LEMMA Overtaking ==
    ASSUME PgTypeOK, NEW ops, NEW rows \in [Account -> Row], NEW t \in Server
    PROVE  LET o == Overtake(ops, rows)[t]
           IN  /\ o \in TxState
               /\ o.pc = tx[t].pc /\ o.op = tx[t].op /\ o.lease = tx[t].lease
               /\ o.rows = tx[t].rows /\ o.now = tx[t].now
               /\ o.generation = tx[t].generation
               /\ o.overtaken = IF tx[t].pc # "idle" /\ tx[t].op \in ops
                                THEN tx[t].overtaken \cup Overwritten(rows)
                                ELSE tx[t].overtaken
               /\ tx[t].pc = "idle" => o = tx[t]
<1>1. tx[t] \in TxState
    BY DEF PgTypeOK
<1>2. tx[t].overtaken \cup Overwritten(rows) \in SUBSET Account
    BY <1>1 DEF Overwritten, TxState
<1>3. PICK told \in SUBSET Account : told = tx[t].overtaken \cup Overwritten(rows)
    BY <1>2
<1> DEFINE T == [tx[t] EXCEPT !.overtaken = told]
<1>4. Overtake(ops, rows)[t]
      = IF tx[t].pc # "idle" /\ tx[t].op \in ops THEN T ELSE tx[t]
    BY <1>3 DEF Overtake
<1>5. /\ T \in TxState /\ T.pc = tx[t].pc /\ T.op = tx[t].op /\ T.lease = tx[t].lease
      /\ T.rows = tx[t].rows /\ T.now = tx[t].now
      /\ T.generation = tx[t].generation /\ T.overtaken = told
    BY <1>1 DEF TxState
<1> HIDE DEF T
<1>6. QED
    BY <1>1, <1>3, <1>4, <1>5

\* What is written into the auth.json files is a version.
LEMMA MaterializedTyped ==
    ASSUME PgTypeOK, NEW s \in Server, NEW rows \in [Account -> Row]
    PROVE  Materialized(s, rows) \in [Server -> [Account -> Nat]]
<1> DEFINE F == [a \in Account |->
                   IF rows[a].present /\ rows[a].auth # 0 THEN rows[a].auth ELSE disk[s][a]]
<1>1. F \in [Account -> Nat]
    BY DEF PgTypeOK, Row
<1>2. Materialized(s, rows) = [disk EXCEPT ![s] = F]
    BY DEF Materialized, PgTypeOK
<1> HIDE DEF F
<1>3. QED
    BY <1>1, <1>2 DEF PgTypeOK

\* A sweep takes the leases that have lapsed off their rows, and stamps those.
LEMMA SweptRows ==
    ASSUME NEW rows \in [Account -> Row], NEW now \in Nat
    PROVE  /\ Swept(rows, now) \in [Account -> Row]
           /\ \A a \in Account :
                 /\ rows[a].lease \notin lapsed => Swept(rows, now)[a] = rows[a]
                 /\ rows[a].lease \in lapsed =>
                      /\ Swept(rows, now)[a].lease = 0
                      /\ Swept(rows, now)[a].stamp = now
                      /\ Swept(rows, now)[a].present = rows[a].present
                      /\ Swept(rows, now)[a].generation = rows[a].generation
<1>1. ASSUME NEW a \in Account
      PROVE  /\ Swept(rows, now)[a] \in Row
             /\ rows[a].lease \notin lapsed => Swept(rows, now)[a] = rows[a]
             /\ rows[a].lease \in lapsed =>
                      /\ Swept(rows, now)[a].lease = 0
                      /\ Swept(rows, now)[a].stamp = now
                      /\ Swept(rows, now)[a].present = rows[a].present
                      /\ Swept(rows, now)[a].generation = rows[a].generation
  <2>1. PICK r \in Row : r = rows[a]
      OBVIOUS
  <2>2. PICK status \in Status :
            status = IF r.status = "ready" THEN "recovering" ELSE r.status
      BY DEF Row, Status
  <2> DEFINE A == [r EXCEPT !.lease = 0]
             B == [A EXCEPT !.stamp = now]
             C == [B EXCEPT !.status = status]
  <2>3. Swept(rows, now)[a] = IF r.lease \in lapsed THEN C ELSE r
      BY <2>1, <2>2 DEF Swept, Row
  <2>4. /\ A \in Row /\ A.lease = 0
        /\ A.present = r.present /\ A.generation = r.generation
      BY DEF Row
  <2> HIDE DEF A
  <2>5. /\ B \in Row /\ B.lease = 0 /\ B.stamp = now
        /\ B.present = r.present /\ B.generation = r.generation
      BY <2>4 DEF Row
  <2> HIDE DEF B
  <2>6. /\ C \in Row /\ C.lease = 0 /\ C.stamp = now
        /\ C.present = r.present /\ C.generation = r.generation
      BY <2>5 DEF Row
  <2> HIDE DEF C
  <2>7. QED
      BY <2>1, <2>3, <2>6
<1>2. QED
    BY <1>1 DEF Swept

\* A save writes the rows that win, with the auth.json of the server, and
\* leaves the others.
LEMMA SavedRows ==
    ASSUME PgTypeOK, NEW s \in Server, NEW rows \in [Account -> Row]
    PROVE  /\ Saved(s, rows) \in [Account -> Row]
           /\ \A a \in Account :
                 /\ Wins(rows, a) => Alike(Saved(s, rows)[a], rows[a])
                 /\ ~ Wins(rows, a) => Saved(s, rows)[a] = db[a]
<1>1. ASSUME NEW a \in Account
      PROVE  /\ Saved(s, rows)[a] \in Row
             /\ Wins(rows, a) => Alike(Saved(s, rows)[a], rows[a])
             /\ ~ Wins(rows, a) => Saved(s, rows)[a] = db[a]
  <2>1. PICK r \in Row : r = rows[a]
      OBVIOUS
  <2>2. PICK file \in Nat : file = disk[s][a]
      BY DEF PgTypeOK
  <2> DEFINE A == [r EXCEPT !.auth = file]
  <2>3. A \in Row /\ Alike(A, r)
      BY DEF Row, Alike
  <2>4. Saved(s, rows)[a] = IF Wins(rows, a) THEN A ELSE db[a]
      BY <2>1, <2>2 DEF Saved
  <2> HIDE DEF A
  <2>5. QED
      BY <2>1, <2>3, <2>4 DEF PgTypeOK
<1>2. QED
    BY <1>1 DEF Saved

\* What becomes of row a, when s decides on the rows new and the lease lease:
\* a row that is changed is stamped, is there, counts up, and loses its lease
\* only if that has lapsed, is given back or goes with a new owner.
Reworked(s, new, lease, a) ==
    LET row == tx[s].rows[a]
    IN  \/ new[a] = row
        \/ /\ new[a].stamp = clock + 1
           /\ new[a].present
           /\ new[a].generation >= row.generation
           /\ \/ new[a].lease = row.lease
              \/ tx[s].op = "setOwner" /\ new[a].lease = 0
              \/ /\ tx[s].op \in LeaseOperation
                 /\ \/ row.lease \in lapsed \cup {0}
                    \/ tx[s].op = "release" /\ row.lease = tx[s].lease
                 /\ \/ new[a].lease = 0
                    \/ /\ tx[s].op = "claim" /\ new[a].lease = lease
                       /\ lease = issued + 1

\* The lease of a claim is a new one, and on one row.
ClaimDecided(s, new, lease) ==
    tx[s].op = "claim" /\ lease # 0 =>
        /\ lease = issued + 1 /\ issued' = issued + 1
        /\ \E a \in Account : /\ new[a].lease = lease
                              /\ new[a].present /\ new[a].stamp = clock + 1
                              /\ \A b \in Account \ {a} : new[b].lease # lease

\* An upload counts up the generation it came with.
UploadDecided(s, new, lease) ==
    tx[s].op = "upload" /\ lease # 0 =>
        \E a \in Account : /\ new[a].lease = lease
                           /\ new[a].present /\ new[a].stamp = clock + 1
                           /\ tx[s].rows[a].lease = lease
                           /\ tx[s].rows[a].generation = tx[s].generation
                           /\ new[a].generation = tx[s].generation + 1

\* What holds of every step in which s decides, but for one that is over then.
Decides(s) ==
    /\ tx' \in [Server -> TxState] /\ Alone(s)
    /\ tx[s].pc = "loaded" /\ tx'[s].pc = "decided" /\ tx'[s].op = tx[s].op
    /\ tx'[s].overtaken = tx[s].overtaken
    /\ tx'[s].generation = tx[s].generation
    /\ clock' \in Nat /\ clock' >= clock /\ tx'[s].now <= clock'
    /\ \/ tx'[s].rows = tx[s].rows
       \/ clock' = clock + 1 /\ tx'[s].now = clock + 1
    /\ issued' \in {issued, issued + 1}
    /\ tx'[s].lease \in {0, tx[s].lease} \/ tx[s].op = "claim"
    /\ \A a \in Account : Reworked(s, tx'[s].rows, tx'[s].lease, a)
    /\ ClaimDecided(s, tx'[s].rows, tx'[s].lease)
    /\ UploadDecided(s, tx'[s].rows, tx'[s].lease)
    /\ disk' \in [Server -> [Account -> Nat]]
    /\ UNCHANGED <<db, lock, job, held, lapsed, current, accepted, ended, revoked, raced>>

\* Decided, from what the operation makes of its rows.
LEMMA DecidesWith ==
    ASSUME PgTypeOK, Stamped, NEW s \in Server, tx[s].pc = "loaded",
           NEW rows \in [Account -> Row], NEW lease \in Nat, Decided(s, rows, lease),
           lease \in {0, tx[s].lease} \/ tx[s].op = "claim",
           issued' \in {issued, issued + 1},
           disk' \in [Server -> [Account -> Nat]],
           \A a \in Account : Reworked(s, rows, lease, a),
           ClaimDecided(s, rows, lease), UploadDecided(s, rows, lease)
    PROVE  Decides(s)
<1>1. /\ tx' \in [Server -> TxState] /\ Alone(s)
      /\ tx'[s].pc = "decided" /\ tx'[s].op = tx[s].op /\ tx'[s].lease = lease
      /\ tx'[s].rows = rows /\ tx'[s].now = clock + 1
      /\ tx'[s].overtaken = tx[s].overtaken
      /\ tx'[s].generation = tx[s].generation
    BY DecidedTx
<1>2. /\ clock' = clock + 1
      /\ UNCHANGED <<db, lock, job, held, lapsed, current, accepted, ended, revoked, raced>>
    BY Zenon DEF Decided
<1>3. clock \in Nat
    BY DEF PgTypeOK
<1>4. clock' \in Nat /\ clock' >= clock /\ tx'[s].now <= clock'
    BY <1>1, <1>2, <1>3
<1>5. QED
    BY <1>1, <1>2, <1>4, Zenon DEF Decides

\* A sweep, as part of a lease operation, reworks the rows.
LEMMA SweepReworks ==
    ASSUME PgTypeOK, AbsentBare, NEW s \in Server, tx[s].op \in LeaseOperation,
           NEW lease, NEW a \in Account
    PROVE  LET rows == Swept(tx[s].rows, clock + 1)
           IN  /\ Reworked(s, rows, lease, a)
               /\ rows[a] \in Row
               /\ rows[a].present = tx[s].rows[a].present
               /\ rows[a].generation = tx[s].rows[a].generation
               /\ \/ rows[a] = tx[s].rows[a]
                  \/ rows[a].lease = 0 /\ tx[s].rows[a].lease \in lapsed
<1>1. tx[s].rows \in [Account -> Row] /\ clock + 1 \in Nat /\ 0 \notin lapsed
    BY DEF PgTypeOK, TxState
<1>2. PICK now \in Nat : now = clock + 1
    BY <1>1
<1>3. PICK old \in [Account -> Row] : old = tx[s].rows
    BY <1>1
<1>4. PICK rows \in [Account -> Row] : rows = Swept(old, now)
    BY SweptRows
<1>5. /\ old[a].lease \notin lapsed => rows[a] = old[a]
      /\ old[a].lease \in lapsed =>
            /\ rows[a].lease = 0 /\ rows[a].stamp = now
            /\ rows[a].present = old[a].present
            /\ rows[a].generation = old[a].generation
    BY <1>4, SweptRows
<1>6. rows[a].generation \in Nat /\ old[a].generation \in Nat
    BY DEF Row
<1>7. old[a].lease \in lapsed => old[a].present
    BY <1>3 DEF PgTypeOK, AbsentBare, Bare
<1>8. Reworked(s, rows, lease, a)
    BY <1>2, <1>3, <1>5, <1>6, <1>7 DEF Reworked
<1>9. QED
    BY <1>2, <1>3, <1>4, <1>5, <1>8

\* A decision to save what the sweep left, and no more.
LEMMA SweepDecides ==
    ASSUME PgTypeOK, AbsentBare, Stamped, NEW s \in Server, tx[s].pc = "loaded",
           tx[s].op \in LeaseOperation,
           Decided(s, Swept(tx[s].rows, clock + 1), 0), UNCHANGED <<disk, issued>>
    PROVE  Decides(s)
<1>1. tx[s].rows \in [Account -> Row] /\ clock + 1 \in Nat
    BY DEF PgTypeOK, TxState
<1>2. PICK now \in Nat : now = clock + 1
    BY <1>1
<1>3. PICK old \in [Account -> Row] : old = tx[s].rows
    BY <1>1
<1>4. PICK rows \in [Account -> Row] : rows = Swept(old, now)
    BY SweptRows
<1>5. PICK none \in Nat : none = 0
    OBVIOUS
<1>6. Decided(s, rows, none)
    BY <1>2, <1>3, <1>4, <1>5
<1>7. \A a \in Account : Reworked(s, rows, none, a)
    BY <1>2, <1>3, <1>4, SweepReworks
<1>8. ClaimDecided(s, rows, none) /\ UploadDecided(s, rows, none)
    BY <1>5 DEF ClaimDecided, UploadDecided
<1>9. disk' \in [Server -> [Account -> Nat]] /\ issued' \in {issued, issued + 1}
    BY DEF PgTypeOK
<1>10. QED
    BY <1>5, <1>6, <1>7, <1>8, <1>9, DecidesWith

\* A claim that finds an account to lend.
LEMMA GrantDecides ==
    ASSUME PgTypeOK, LeasesIssued, AbsentBare, Stamped,
           NEW s \in Server, tx[s].pc = "loaded", tx[s].op = "claim",
           NEW rows, rows = Swept(tx[s].rows, clock + 1),
           NEW a \in Account, Eligible(rows[a], disk[s][a]),
           Decided(s, [rows EXCEPT ![a].lease = issued + 1,
                                   ![a].stamp = clock + 1], issued + 1),
           issued' = issued + 1, UNCHANGED disk
    PROVE  Decides(s)
<1>1. tx[s].rows \in [Account -> Row] /\ clock + 1 \in Nat /\ issued + 1 \in Nat
  <2>1. tx[s] \in TxState /\ clock \in Nat /\ issued \in Nat
      BY DEF PgTypeOK
  <2>2. QED
      BY <2>1 DEF TxState
<1>2. PICK now \in Nat : now = clock + 1
    BY <1>1
<1>3. PICK old \in [Account -> Row] : old = tx[s].rows
    BY <1>1
<1>4. rows \in [Account -> Row]
    BY <1>2, <1>3, SweptRows
<1>5. PICK fresh \in Nat : fresh = issued + 1
    BY <1>1
<1> DEFINE A == [rows[a] EXCEPT !.lease = fresh]
           B == [A EXCEPT !.stamp = now]
           new == [rows EXCEPT ![a] = B]
<1>6. Decided(s, new, fresh)
  <2>1. Decided(s, [rows EXCEPT ![a].lease = fresh, ![a].stamp = now], fresh)
      BY <1>2, <1>5
  <2>2. [rows EXCEPT ![a].lease = fresh, ![a].stamp = now] = new
      BY <1>4 DEF Row
  <2>3. QED
      BY <2>1, <2>2, Zenon
<1>7. /\ A \in Row /\ A.lease = fresh
      /\ A.present = rows[a].present /\ A.generation = rows[a].generation
    BY <1>4 DEF Row
<1> HIDE DEF A
<1>8. /\ B \in Row /\ B.lease = fresh /\ B.stamp = now
      /\ B.present = rows[a].present /\ B.generation = rows[a].generation
    BY <1>7 DEF Row
<1> HIDE DEF B
<1>9. /\ new \in [Account -> Row] /\ new[a] = B
      /\ \A b \in Account \ {a} : new[b] = rows[b]
    BY <1>4, <1>8
<1> HIDE DEF new
<1>10. \A b \in Account :
          /\ Reworked(s, rows, fresh, b)
          /\ rows[b].present = old[b].present
          /\ rows[b].generation = old[b].generation
          /\ \/ rows[b] = old[b]
             \/ rows[b].lease = 0 /\ old[b].lease \in lapsed
    BY <1>3, SweepReworks DEF LeaseOperation
<1>11. rows[a].present /\ rows[a].lease = 0
    BY DEF Eligible
<1>12. Reworked(s, new, fresh, a)
  <2>1. old[a].lease \in lapsed \cup {0}
      BY <1>10, <1>11
  <2>2. B.generation >= old[a].generation /\ old[a].present
      BY <1>8, <1>10, <1>11 DEF Row
  <2>3. QED
      BY <1>2, <1>3, <1>5, <1>8, <1>9, <1>11, <2>1, <2>2 DEF Reworked, LeaseOperation
<1>13. \A b \in Account : Reworked(s, new, fresh, b)
  <2>1. ASSUME NEW b \in Account, b # a
        PROVE  Reworked(s, new, fresh, b)
      BY <2>1, <1>9, <1>10 DEF Reworked
  <2>2. QED
      BY <2>1, <1>12
<1>14. \A b \in Account : rows[b].lease # fresh
  <2>1. \A b \in Account : old[b].lease \in Nat /\ old[b].lease <= issued
      BY <1>3 DEF LeasesIssued, Row
  <2>2. issued \in Nat
      BY DEF PgTypeOK
  <2>3. QED
      BY <1>5, <1>10, <2>1, <2>2
<1>15. ClaimDecided(s, new, fresh) /\ UploadDecided(s, new, fresh)
    BY <1>2, <1>5, <1>8, <1>9, <1>11, <1>14 DEF ClaimDecided, UploadDecided
<1>16. disk' \in [Server -> [Account -> Nat]] /\ issued' \in {issued, issued + 1}
    BY DEF PgTypeOK
<1>17. QED
    BY <1>6, <1>9, <1>13, <1>15, <1>16, DecidesWith

\* A heartbeat, a release or an upload of a lease that is on row a.
LEMMA HeldDecides ==
    ASSUME PgTypeOK, AbsentBare, Stamped, OneHome,
           NEW s \in Server, tx[s].pc = "loaded", tx[s].lease # 0,
           NEW rows, rows = Swept(tx[s].rows, clock + 1),
           NEW a \in Account, rows[a].lease = tx[s].lease, DecideHeld(s, rows, a)
    PROVE  Decides(s)
<1>1. /\ tx[s].rows \in [Account -> Row] /\ clock + 1 \in Nat
      /\ tx[s].lease \in Nat /\ tx[s].auth \in Nat /\ tx[s].generation \in Nat
    BY DEF PgTypeOK, TxState
<1>2. PICK now \in Nat : now = clock + 1
    BY <1>1
<1>3. PICK old \in [Account -> Row] : old = tx[s].rows
    BY <1>1
<1>4. rows \in [Account -> Row]
    BY <1>2, <1>3, SweptRows
<1>5. PICK l \in Nat : l = tx[s].lease
    BY <1>1
<1>6. PICK r \in Row : r = rows[a]
    BY <1>4
<1>7. tx[s].op \in {"touch", "release", "upload"} /\ tx[s].op \in LeaseOperation
    BY DEF DecideHeld, LeaseOperation
<1>8. \A b \in Account : \A lease :
          /\ Reworked(s, rows, lease, b)
          /\ rows[b].present = old[b].present
          /\ rows[b].generation = old[b].generation
          /\ \/ rows[b] = old[b]
             \/ rows[b].lease = 0 /\ old[b].lease \in lapsed
    BY <1>3, <1>7, SweepReworks
<1>9. r.present /\ old[a].present /\ old[a].lease = l /\ r.lease = l
    BY <1>1, <1>3, <1>5, <1>6, <1>8 DEF AbsentBare, Bare
<1> DEFINE A == [r EXCEPT !.stamp = now]
<1>10. /\ A \in Row /\ A.lease = l /\ A.stamp = now
       /\ A.present /\ A.generation = r.generation
    BY <1>9 DEF Row
<1>11. r.generation \in Nat /\ r.generation = old[a].generation
    BY <1>6, <1>8 DEF Row
<1>12. issued' = issued /\ issued' \in {issued, issued + 1}
    BY DEF DecideHeld
<1>13. ASSUME NEW B \in Row, B.stamp = now, B.present, B.generation >= r.generation,
              \/ B.lease = l
              \/ B.lease = 0 /\ tx[s].op = "release",
              tx[s].op = "upload" => /\ B.lease = l /\ r.generation = tx[s].generation
                                     /\ B.generation = tx[s].generation + 1,
              Decided(s, [rows EXCEPT ![a] = B], l),
              disk' \in [Server -> [Account -> Nat]]
       PROVE  Decides(s)
  <2> DEFINE new == [rows EXCEPT ![a] = B]
  <2>1. /\ new \in [Account -> Row] /\ new[a] = B
        /\ \A b \in Account \ {a} : new[b] = rows[b]
      BY <1>4, <1>13
  <2>2. Decided(s, new, l)
      BY <1>13
  <2> HIDE DEF new
  <2>3. Reworked(s, new, l, a)
      BY <1>2, <1>3, <1>5, <1>7, <1>9, <1>11, <1>13, <2>1 DEF Reworked
  <2>4. \A b \in Account : Reworked(s, new, l, b)
    <3>1. ASSUME NEW b \in Account, b # a
          PROVE  Reworked(s, new, l, b)
        BY <3>1, <1>8, <2>1 DEF Reworked
    <3>2. QED
        BY <3>1, <2>3
  <2>5. ClaimDecided(s, new, l)
      BY <1>7 DEF ClaimDecided
  <2>6. UploadDecided(s, new, l)
      BY <1>2, <1>3, <1>9, <1>11, <1>13, <2>1 DEF UploadDecided
  <2>7. QED
      BY <1>5, <1>12, <1>13, <2>1, <2>2, <2>4, <2>5, <2>6, DecidesWith
<1>14. CASE tx[s].op = "touch"
  <2>1. Decided(s, [rows EXCEPT ![a].stamp = clock + 1], tx[s].lease) /\ disk' = disk
      BY <1>14, Zenon DEF DecideHeld
  <2>2. [rows EXCEPT ![a].stamp = now] = [rows EXCEPT ![a] = A]
      BY <1>4, <1>6
  <2>3. Decided(s, [rows EXCEPT ![a] = A], l)
      BY <1>2, <1>5, <2>1, <2>2, Zenon
  <2> HIDE DEF A
  <2>4. disk' \in [Server -> [Account -> Nat]]
      BY <2>1 DEF PgTypeOK
  <2>5. A.generation >= r.generation
      BY <1>10, <1>11
  <2>6. QED
      BY <1>10, <1>13, <1>14, <2>3, <2>4, <2>5
<1>15. CASE tx[s].op = "release"
  <2> DEFINE B == [A EXCEPT !.lease = 0]
  <2>1. /\ Decided(s, [rows EXCEPT ![a].stamp = clock + 1, ![a].lease = 0], tx[s].lease)
        /\ disk' = disk
      BY <1>15, Zenon DEF DecideHeld
  <2>2. [rows EXCEPT ![a].stamp = now, ![a].lease = 0] = [rows EXCEPT ![a] = B]
      BY <1>4, <1>6 DEF Row
  <2>3. Decided(s, [rows EXCEPT ![a] = B], l)
      BY <1>2, <1>5, <2>1, <2>2, Zenon
  <2> HIDE DEF A
  <2>4. /\ B \in Row /\ B.lease = 0 /\ B.stamp = now
        /\ B.present /\ B.generation = r.generation
      BY <1>10 DEF Row
  <2> HIDE DEF B
  <2>5. disk' \in [Server -> [Account -> Nat]]
      BY <2>1 DEF PgTypeOK
  <2>6. B.generation >= r.generation
      BY <1>11, <2>4
  <2>7. QED
      BY <1>13, <1>15, <2>3, <2>4, <2>5, <2>6
<1>16. CASE tx[s].op = "upload"
  <2>1. /\ Decided(s, [rows EXCEPT ![a].stamp = clock + 1, ![a].status = "ready",
                                   ![a].generation = @ + 1], tx[s].lease)
        /\ disk' = [disk EXCEPT ![s][a] = tx[s].auth]
        /\ tx[s].generation = rows[a].generation
      BY <1>16, Zenon DEF DecideHeld
  <2>2. PICK next \in Nat : next = r.generation + 1
      BY <1>11
  <2> DEFINE B == [A EXCEPT !.status = "ready"]
             C == [B EXCEPT !.generation = next]
  <2>3. [rows EXCEPT ![a].stamp = now, ![a].status = "ready", ![a].generation = @ + 1]
        = [rows EXCEPT ![a] = C]
      BY <1>4, <1>6, <2>2 DEF Row
  <2>4. Decided(s, [rows EXCEPT ![a] = C], l)
      BY <1>2, <1>5, <2>1, <2>3, Zenon
  <2> HIDE DEF A
  <2>5. /\ B \in Row /\ B.lease = l /\ B.stamp = now /\ B.present
      BY <1>10 DEF Row, Status
  <2> HIDE DEF B
  <2>6. /\ C \in Row /\ C.lease = l /\ C.stamp = now /\ C.present
        /\ C.generation = next
      BY <2>5 DEF Row
  <2> HIDE DEF C
  <2>7. disk' \in [Server -> [Account -> Nat]]
      BY <1>1, <2>1 DEF PgTypeOK
  <2>8. C.generation >= r.generation
      BY <1>11, <2>2, <2>6
  <2>9. QED
      BY <1>1, <1>6, <1>13, <1>16, <2>1, <2>2, <2>4, <2>6, <2>7, <2>8
<1>17. QED
    BY <1>7, <1>14, <1>15, <1>16

\* What a setter makes of a row: it is there as before, and only SetOwner takes
\* the lease off it.
LEMMA SettingsRow ==
    ASSUME PgTypeOK, NEW s \in Server, NEW a \in Account, NEW row \in Settings(s, a)
    PROVE  /\ row \in Row /\ row.present = tx[s].rows[a].present
           /\ row.generation = tx[s].rows[a].generation
           /\ \/ row.lease = tx[s].rows[a].lease
              \/ tx[s].op = "setOwner" /\ row.lease = 0
           /\ tx[s].op \in {"setStatus", "setOwner", "settings"}
<1>1. PICK r \in Row : r = tx[s].rows[a]
    BY DEF PgTypeOK, TxState
<1>2. CASE tx[s].op = "setStatus"
  <2>1. PICK status \in Status : row = [r EXCEPT !.status = status]
      BY <1>1, <1>2, ScopeAssumption DEF Settings
  <2>2. QED
      BY <1>1, <1>2, <2>1 DEF Row
<1>3. CASE tx[s].op = "setOwner"
  <2>1. PICK owner \in OwnerMode : row = OwnerSet(r, owner)
      BY <1>1, <1>3 DEF Settings
  <2>2. PICK lease \in Nat : /\ lease = IF owner = "client" THEN 0 ELSE r.lease
                             /\ lease = r.lease \/ lease = 0
      BY DEF Row
  <2> DEFINE A == [r EXCEPT !.owner = owner]
             B == [A EXCEPT !.lease = lease]
  <2>3. row = B
      BY <2>1, <2>2 DEF OwnerSet, Row
  <2>4. /\ A \in Row /\ A.lease = r.lease
        /\ A.present = r.present /\ A.generation = r.generation
      BY DEF Row
  <2> HIDE DEF A
  <2>5. /\ B \in Row /\ B.lease = lease
        /\ B.present = r.present /\ B.generation = r.generation
      BY <2>4 DEF Row
  <2> HIDE DEF B
  <2>6. QED
      BY <1>1, <1>3, <2>2, <2>3, <2>5
<1>4. CASE tx[s].op = "settings"
  <2>1. PICK status \in Status, owner \in OwnerMode :
            row = [r EXCEPT !.status = status, !.owner = owner]
    <3>1. PICK new \in (AdminStatus \cup {r.status}) \X OwnerMode :
              row = [r EXCEPT !.status = new[1], !.owner = new[2]]
        BY <1>1, <1>4 DEF Settings
    <3>2. new[1] \in Status /\ new[2] \in OwnerMode
        BY <3>1, ScopeAssumption DEF Row
    <3>3. QED
        BY <3>1, <3>2
  <2> DEFINE A == [r EXCEPT !.status = status]
             B == [A EXCEPT !.owner = owner]
  <2>2. row = B
      BY <2>1 DEF Row
  <2>3. /\ A \in Row /\ A.lease = r.lease
        /\ A.present = r.present /\ A.generation = r.generation
      BY DEF Row
  <2> HIDE DEF A
  <2>4. /\ B \in Row /\ B.lease = r.lease
        /\ B.present = r.present /\ B.generation = r.generation
      BY <2>3 DEF Row
  <2> HIDE DEF B
  <2>5. QED
      BY <1>1, <1>4, <2>2, <2>4
<1>5. tx[s].op \in {"setStatus", "setOwner", "settings"}
  <2>1. SUFFICES ASSUME tx[s].op \notin {"setStatus", "setOwner", "settings"}
                 PROVE  Settings(s, a) = {}
      OBVIOUS
  <2>2. QED
      BY <2>1 DEF Settings
<1>6. QED
    BY <1>2, <1>3, <1>4, <1>5

\* A setter of an account.
LEMMA SetDecides ==
    ASSUME PgTypeOK, Stamped, NEW s \in Server, tx[s].pc = "loaded",
           NEW a \in Account, NEW row \in Settings(s, a), row.present,
           Decided(s, [tx[s].rows EXCEPT ![a] = [row EXCEPT !.stamp = clock + 1]], 0),
           UNCHANGED <<disk, issued>>
    PROVE  Decides(s)
<1>1. tx[s].rows \in [Account -> Row] /\ clock + 1 \in Nat
    BY DEF PgTypeOK, TxState
<1>2. PICK now \in Nat : now = clock + 1
    BY <1>1
<1>3. PICK old \in [Account -> Row] : old = tx[s].rows
    BY <1>1
<1>4. PICK none \in Nat : none = 0
    OBVIOUS
<1> DEFINE B == [row EXCEPT !.stamp = now]
           new == [old EXCEPT ![a] = B]
<1>5. Decided(s, new, none)
    BY <1>2, <1>3, <1>4
<1>6. /\ row \in Row /\ row.generation = old[a].generation
      /\ \/ row.lease = old[a].lease
         \/ tx[s].op = "setOwner" /\ row.lease = 0
      /\ tx[s].op \in {"setStatus", "setOwner", "settings"}
    BY <1>3, SettingsRow
<1>7. /\ B \in Row /\ B.lease = row.lease /\ B.stamp = now
      /\ B.present /\ B.generation = row.generation
    BY <1>6 DEF Row
<1> HIDE DEF B
<1>8. /\ new \in [Account -> Row] /\ new[a] = B
      /\ \A b \in Account \ {a} : new[b] = old[b]
    BY <1>7
<1> HIDE DEF new
<1>9. B.generation >= old[a].generation
    BY <1>6, <1>7 DEF Row
<1>10. \A b \in Account : Reworked(s, new, none, b)
    BY <1>2, <1>3, <1>6, <1>7, <1>8, <1>9 DEF Reworked
<1>11. ClaimDecided(s, new, none) /\ UploadDecided(s, new, none)
    BY <1>4 DEF ClaimDecided, UploadDecided
<1>12. disk' \in [Server -> [Account -> Nat]] /\ issued' \in {issued, issued + 1}
    BY DEF PgTypeOK
<1>13. QED
    BY <1>4, <1>5, <1>8, <1>10, <1>11, <1>12, DecidesWith

\* Rows for accounts that have none, whichever operation adds them.
LEMMA AddedDecides ==
    ASSUME PgTypeOK, AbsentBare, Stamped, NEW s \in Server, tx[s].pc = "loaded",
           NEW accounts \in SUBSET Account,
           \A a \in accounts : ~ tx[s].rows[a].present,
           Decided(s, Added(s, accounts), 0), UNCHANGED <<disk, issued>>
    PROVE  Decides(s)
<1>1. tx[s].rows \in [Account -> Row] /\ clock + 1 \in Nat
    BY DEF PgTypeOK, TxState
<1>2. PICK now \in Nat : now = clock + 1
    BY <1>1
<1>3. PICK none \in Nat : none = 0
    OBVIOUS
<1>4. NoRow \in Row /\ NoRow.lease = 0 /\ NoRow.generation = 0
    BY DEF NoRow, Row, Status, OwnerMode
<1> DEFINE A == [NoRow EXCEPT !.present = TRUE]
           B == [A EXCEPT !.stamp = now]
           new == Added(s, accounts)
<1>5. A \in Row /\ A.lease = 0 /\ A.generation = 0 /\ A.present
    BY <1>4 DEF Row
<1>6. B = [NoRow EXCEPT !.present = TRUE, !.stamp = clock + 1]
    BY <1>2, <1>4 DEF Row
<1> HIDE DEF A
<1>7. /\ B \in Row /\ B.lease = 0 /\ B.generation = 0 /\ B.present
      /\ B.stamp = clock + 1
    BY <1>2, <1>5 DEF Row
<1> HIDE DEF B
<1>8. new = [a \in Account |-> IF a \in accounts THEN B ELSE tx[s].rows[a]]
    BY <1>6 DEF Added
<1> HIDE DEF new
<1>9. /\ new \in [Account -> Row]
      /\ \A a \in Account : new[a] = IF a \in accounts THEN B ELSE tx[s].rows[a]
    BY <1>1, <1>7, <1>8
<1>10. \A a \in Account : Reworked(s, new, none, a)
  <2>1. ASSUME NEW a \in accounts
        PROVE  tx[s].rows[a].lease = 0 /\ tx[s].rows[a].generation = 0
      BY DEF AbsentBare, Bare
  <2>2. QED
      BY <1>7, <1>9, <2>1 DEF Reworked
<1>11. ClaimDecided(s, new, none) /\ UploadDecided(s, new, none)
    BY <1>3 DEF ClaimDecided, UploadDecided
<1>12. Decided(s, new, none)
    BY <1>3 DEF new
<1>13. disk' \in [Server -> [Account -> Nat]] /\ issued' \in {issued, issued + 1}
    BY DEF PgTypeOK
<1>14. QED
    BY <1>3, <1>9, <1>10, <1>11, <1>12, <1>13, DecidesWith

\* A pushed or imported auth.json counts up the row of its account, or adds it.
LEMMA CountedRow ==
    ASSUME PgTypeOK, NEW row \in Row, Bare(row)
    PROVE  /\ Counted(row) \in Row
           /\ Counted(row).present /\ Counted(row).stamp = clock + 1
           /\ Counted(row).lease = row.lease
           /\ Counted(row).generation >= row.generation
<1>1. PICK now \in Nat : now = clock + 1
    BY DEF PgTypeOK
<1>2. CASE row.present
  <2>1. PICK next \in Nat : next = row.generation + 1 /\ next >= row.generation
      BY DEF Row
  <2> DEFINE A == [row EXCEPT !.generation = next]
             B == [A EXCEPT !.stamp = now]
  <2>2. Counted(row) = B
      BY <1>1, <1>2, <2>1 DEF Counted, Row
  <2>3. A \in Row /\ A.lease = row.lease /\ A.present /\ A.generation = next
      BY <1>2 DEF Row
  <2> HIDE DEF A
  <2>4. B \in Row /\ B.lease = row.lease /\ B.present /\ B.generation = next /\ B.stamp = now
      BY <2>3 DEF Row
  <2> HIDE DEF B
  <2>5. QED
      BY <1>1, <2>1, <2>2, <2>4
<1>3. CASE ~ row.present
  <2>1. row.lease = 0 /\ row.generation = 0
      BY <1>3 DEF Bare
  <2>2. NoRow \in Row /\ NoRow.lease = 0
      BY DEF NoRow, Row, Status, OwnerMode
  <2> DEFINE A == [NoRow EXCEPT !.present = TRUE]
             B == [A EXCEPT !.generation = 1]
             C == [B EXCEPT !.stamp = now]
  <2>3. Counted(row) = C
      BY <1>1, <1>3, <2>2 DEF Counted, Row
  <2>4. A \in Row /\ A.lease = 0 /\ A.present
      BY <2>2 DEF Row
  <2> HIDE DEF A
  <2>5. B \in Row /\ B.lease = 0 /\ B.present /\ B.generation = 1
      BY <2>4 DEF Row
  <2> HIDE DEF B
  <2>6. C \in Row /\ C.lease = 0 /\ C.present /\ C.generation = 1 /\ C.stamp = now
      BY <2>5 DEF Row
  <2> HIDE DEF C
  <2>7. QED
      BY <1>1, <2>1, <2>3, <2>6
<1>4. QED
    BY <1>2, <1>3

\* A push or an import: it is refused, or writes the file and one row.
LEMMA ProfileDecides ==
    ASSUME PgTypeOK, AbsentBare, Stamped, NEW s \in Server, tx[s].pc = "loaded",
           tx[s].op \in {"push", "import"}, DecideProfile(s)
    PROVE  Decides(s) \/ Finish(s)
<1>1. /\ tx[s].rows \in [Account -> Row] /\ clock + 1 \in Nat
      /\ tx[s].auth \in Nat
    BY DEF PgTypeOK, TxState
<1>2. PICK old \in [Account -> Row] : old = tx[s].rows
    BY <1>1
<1>3. PICK none \in Nat : none = 0
    OBVIOUS
<1>4. PICK a : a = tx[s].account
    OBVIOUS
<1> DEFINE new == [old EXCEPT ![a] = Counted(old[a])]
<1>5. Finish(s) \/ /\ Decided(s, new, none) /\ UNCHANGED issued
                   /\ disk' = [disk EXCEPT ![s][a] = tx[s].auth]
    BY <1>2, <1>3, <1>4 DEF DecideProfile
<1>6. ASSUME a \in Account
      PROVE  /\ Counted(old[a]) \in Row
             /\ Counted(old[a]).present /\ Counted(old[a]).stamp = clock + 1
             /\ Counted(old[a]).lease = old[a].lease
             /\ Counted(old[a]).generation >= old[a].generation
  <2>1. old[a] \in Row /\ Bare(old[a])
      BY <1>2, <1>6 DEF AbsentBare
  <2>2. QED
      BY <2>1, CountedRow
<1>7. /\ new \in [Account -> Row]
      /\ \A b \in Account : new[b] = IF b = a THEN Counted(old[a]) ELSE old[b]
  <2>1. CASE a \in Account
      BY <1>6, <2>1
  <2>2. CASE a \notin Account
      BY <2>2
  <2>3. QED
      BY <2>1, <2>2
<1> HIDE DEF new
<1>8. \A b \in Account : Reworked(s, new, none, b)
    BY <1>2, <1>6, <1>7 DEF Reworked
<1>9. ClaimDecided(s, new, none) /\ UploadDecided(s, new, none)
    BY <1>3 DEF ClaimDecided, UploadDecided
<1>10. ASSUME Decided(s, new, none), UNCHANGED issued,
              disk' = [disk EXCEPT ![s][a] = tx[s].auth]
       PROVE  Decides(s)
  <2>1. disk' \in [Server -> [Account -> Nat]] /\ issued' \in {issued, issued + 1}
      BY <1>1, <1>10 DEF PgTypeOK
  <2>2. QED
      BY <1>3, <1>7, <1>8, <1>9, <1>10, <2>1, DecidesWith
<1>11. QED
    BY <1>5, <1>10, Zenon

\* An operation that changes no account saves its rows as they were loaded.
LEMMA OtherDecides ==
    ASSUME PgTypeOK, Stamped, NEW s \in Server, tx[s].pc = "loaded",
           tx[s].op \in {"other", "settings"}, tx' = [tx EXCEPT ![s].pc = "decided"],
           UNCHANGED <<db, disk, lock, job, clock, issued, held, lapsed,
                       current, accepted, ended, revoked, raced>>
    PROVE  Decides(s)
<1> DEFINE A == [tx[s] EXCEPT !.pc = "decided"]
<1>1. tx[s] \in TxState /\ clock \in Nat /\ issued \in Nat
    BY DEF PgTypeOK
<1>2. tx' = [tx EXCEPT ![s] = A]
    OBVIOUS
<1>3. /\ A \in TxState /\ A.pc = "decided" /\ A.op = tx[s].op
      /\ A.overtaken = tx[s].overtaken /\ A.generation = tx[s].generation
      /\ A.rows = tx[s].rows /\ A.lease = tx[s].lease /\ A.now = tx[s].now
    BY <1>1 DEF TxState
<1> HIDE DEF A
<1>4. /\ tx' \in [Server -> TxState] /\ tx'[s] = A /\ Alone(s)
    BY <1>2, <1>3 DEF PgTypeOK, Alone
<1>5. clock' \in Nat /\ clock' >= clock /\ tx'[s].now <= clock'
    BY <1>1, <1>3, <1>4 DEF Stamped
<1>6. \A a \in Account : Reworked(s, tx'[s].rows, tx'[s].lease, a)
    BY <1>3, <1>4 DEF Reworked
<1>7. /\ ClaimDecided(s, tx'[s].rows, tx'[s].lease)
      /\ UploadDecided(s, tx'[s].rows, tx'[s].lease)
    BY DEF ClaimDecided, UploadDecided
<1>8. disk' \in [Server -> [Account -> Nat]] /\ issued' \in {issued, issued + 1}
    BY DEF PgTypeOK
<1>9. QED
    BY <1>3, <1>4, <1>5, <1>6, <1>7, <1>8 DEF Decides

\* What a decision does, whatever the operation.
LEMMA Deciding ==
    ASSUME PgInv, NEW s \in Server, Decide(s)
    PROVE  Decides(s) \/ Finish(s)
<1> USE DEF PgInv
<1> DEFINE rows == Swept(tx[s].rows, clock + 1)
<1>1. tx[s].pc = "loaded"
    BY DEF Decide
<1>2. tx[s].lease # 0 => tx[s].op \in LeaseOperation
    BY <1>1 DEF LeaseBegun, LeaseOperation
<1>3. ASSUME tx[s].op = "claim", DecideClaim(s, rows)
      PROVE  Decides(s)
  <2>1. CASE Decided(s, rows, 0) /\ UNCHANGED <<disk, issued>>
      BY <1>1, <1>3, <2>1, SweepDecides DEF LeaseOperation
  <2>2. ASSUME NEW a \in Account, Eligible(rows[a], disk[s][a]),
               Decided(s, [rows EXCEPT ![a].lease = issued + 1,
                                       ![a].stamp = clock + 1], issued + 1),
               issued' = issued + 1, UNCHANGED disk
        PROVE  Decides(s)
      BY <1>1, <1>3, <2>2, GrantDecides
  <2>3. QED
      BY <1>3, <2>1, <2>2, Zenon DEF DecideClaim
<1>4. ASSUME tx[s].op = "recover" \/ tx[s].lease # 0,
             Decided(s, rows, 0), UNCHANGED <<disk, issued>>
      PROVE  Decides(s)
    BY <1>1, <1>2, <1>4, SweepDecides DEF LeaseOperation
<1>5. ASSUME tx[s].lease # 0, NEW a \in Account, rows[a].lease = tx[s].lease,
             DecideHeld(s, rows, a)
      PROVE  Decides(s)
    BY <1>1, <1>5, HeldDecides
<1>6. ASSUME NEW a \in Account, NEW row \in Settings(s, a), row.present,
             Decided(s, [tx[s].rows EXCEPT ![a] = [row EXCEPT !.stamp = clock + 1]], 0),
             UNCHANGED <<disk, issued>>
      PROVE  Decides(s)
    BY <1>1, <1>6, SetDecides
<1>7. ASSUME tx[s].op \in {"other", "settings"},
             tx' = [tx EXCEPT ![s].pc = "decided"],
             UNCHANGED <<db, disk, lock, job, clock, issued, held, lapsed,
                         current, accepted, ended, revoked, raced>>
      PROVE  Decides(s)
    BY <1>1, <1>7, OtherDecides
<1>8. ASSUME NEW accounts \in SUBSET Account,
             \A a \in accounts : ~ tx[s].rows[a].present,
             Decided(s, Added(s, accounts), 0), UNCHANGED <<disk, issued>>
      PROVE  Decides(s)
    BY <1>1, <1>8, AddedDecides
<1>9. ASSUME tx[s].op \in {"push", "import"}, DecideProfile(s)
      PROVE  Decides(s) \/ Finish(s)
    BY <1>1, <1>9, ProfileDecides
<1> HIDE DEF PgInv, rows
<1>10. \A a \in Account : ~ tx[s].rows[a].present =>
          /\ {a} \in SUBSET Account /\ \A b \in {a} : ~ tx[s].rows[b].present
    OBVIOUS
<1>11. Found(s) \in SUBSET Account /\ \A a \in Found(s) : ~ tx[s].rows[a].present
    BY DEF Found
<1>12. \/ tx[s].op = "claim" /\ DecideClaim(s, rows)
       \/ /\ tx[s].op = "recover" \/ tx[s].lease # 0
          /\ Decided(s, rows, 0) /\ UNCHANGED <<disk, issued>>
       \/ Finish(s)
       \/ /\ tx[s].lease # 0
          /\ \E a \in Account : rows[a].lease = tx[s].lease /\ DecideHeld(s, rows, a)
       \/ /\ \E a \in Account : \E row \in Settings(s, a) :
                /\ row.present
                /\ Decided(s, [tx[s].rows EXCEPT
                                  ![a] = [row EXCEPT !.stamp = clock + 1]], 0)
          /\ UNCHANGED <<disk, issued>>
       \/ /\ \E a \in Account : ~ tx[s].rows[a].present /\ Decided(s, Added(s, {a}), 0)
          /\ UNCHANGED <<disk, issued>>
       \/ /\ Decided(s, Added(s, Found(s)), 0)
          /\ UNCHANGED <<disk, issued>>
       \/ tx[s].op \in {"push", "import"} /\ DecideProfile(s)
       \/ /\ tx[s].op \in {"other", "settings"}
          /\ tx' = [tx EXCEPT ![s].pc = "decided"]
          /\ UNCHANGED <<db, disk, lock, job, clock, issued, held, lapsed,
                         current, accepted, ended, revoked, raced>>
    BY Zenon DEF Decide, rows
<1>13. QED
    BY <1>3, <1>4, <1>5, <1>6, <1>7, <1>8, <1>9, <1>10, <1>11, <1>12, Zenon

-----------------------------------------------------------------------------
(* The steps that change no row of the database                            *)

\* The leases of an operation that has decided: those it had, one it was given.
LEMMA DecidedLeases ==
    ASSUME PgTypeOK, LeasesIssued, NEW s \in Server, Decides(s)
    PROVE  /\ issued' \in Nat /\ issued <= issued'
           /\ tx'[s].lease \in Nat /\ tx'[s].lease <= issued'
           /\ \A a \in Account :
                 /\ tx'[s].rows[a].lease \in Nat /\ tx'[s].rows[a].lease <= issued'
                 /\ \/ tx'[s].rows[a].lease \in {0, tx[s].rows[a].lease}
                    \/ /\ tx'[s].rows[a].lease = issued + 1 /\ tx'[s].lease = issued + 1
                       /\ tx[s].op = "claim"
<1>1. /\ issued \in Nat /\ tx[s].lease \in Nat /\ tx[s].lease <= issued
      /\ \A a \in Account : tx[s].rows[a].lease <= issued
    BY DEF PgTypeOK, TxState, LeasesIssued
<1>2. issued' \in Nat /\ issued <= issued'
    BY <1>1 DEF Decides
<1>3. tx'[s] \in TxState
    BY DEF Decides
<1>4. tx'[s].lease \in Nat /\ \A a \in Account : tx'[s].rows[a].lease \in Nat
    BY <1>3 DEF TxState, Row
<1>5. tx'[s].lease # 0 /\ tx[s].op = "claim"
      => tx'[s].lease = issued + 1 /\ issued' = issued + 1
    BY DEF Decides, ClaimDecided
<1>6. tx'[s].lease <= issued'
    BY <1>1, <1>2, <1>5 DEF Decides
<1>7. ASSUME NEW a \in Account
      PROVE  \/ tx'[s].rows[a].lease \in {0, tx[s].rows[a].lease}
             \/ /\ tx'[s].rows[a].lease = issued + 1 /\ tx'[s].lease = issued + 1
                /\ tx[s].op = "claim"
  <2>1. Reworked(s, tx'[s].rows, tx'[s].lease, a)
      BY DEF Decides
  <2>2. QED
      BY <2>1 DEF Reworked
<1>8. ASSUME NEW a \in Account
      PROVE  tx'[s].rows[a].lease <= issued'
  <2>1. tx'[s].rows[a].lease \in {0, tx[s].rows[a].lease, tx'[s].lease}
      BY <1>7
  <2>2. tx[s].rows[a].lease <= issued
      BY <1>1
  <2>3. tx[s].rows[a].lease \in Nat
      BY DEF PgTypeOK, TxState, Row
  <2>4. QED
      BY <1>1, <1>2, <1>6, <2>1, <2>2, <2>3
<1>9. QED
    BY <1>2, <1>4, <1>6, <1>7, <1>8

\* The times on the rows of an operation that has decided.
LEMMA DecidedStamps ==
    ASSUME PgTypeOK, NEW s \in Server, Decides(s), NEW a \in Account
    PROVE  /\ tx'[s].rows[a].stamp \in Nat /\ clock \in Nat /\ clock' \in Nat
           /\ \/ tx'[s].rows[a] = tx[s].rows[a]
              \/ /\ tx'[s].rows[a].stamp = clock + 1 /\ clock' = clock + 1
                 /\ tx'[s].now = clock + 1
<1>1. tx'[s].rows[a] \in Row /\ clock \in Nat /\ clock' \in Nat
    BY DEF Decides, TxState, PgTypeOK
<1>2. \/ tx'[s].rows[a] = tx[s].rows[a]
      \/ tx'[s].rows[a].stamp = clock + 1
    BY Zenon DEF Decides, Reworked
<1>3. \/ tx'[s].rows[a] = tx[s].rows[a]
      \/ clock' = clock + 1 /\ tx'[s].now = clock + 1
    BY Zenon DEF Decides
<1>4. QED
    BY <1>1, <1>2, <1>3 DEF Row

\* A decision keeps to the types, and names leases that were issued.
LEMMA DecidesTyped ==
    ASSUME PgInv, NEW s \in Server, Decides(s)
    PROVE  (PgTypeOK /\ LeasesIssued)'
<1>1. PgTypeOK /\ LeasesIssued
    BY DEF PgInv
<1>2. /\ issued' \in Nat /\ issued <= issued' /\ tx'[s].lease <= issued'
      /\ \A a \in Account : tx'[s].rows[a].lease <= issued'
    BY <1>1, DecidedLeases
<1>3. 1..issued \subseteq 1..issued'
    BY <1>1, <1>2 DEF PgTypeOK
<1>4. /\ tx' \in [Server -> TxState] /\ Alone(s)
      /\ tx[s].pc = "loaded" /\ tx'[s].pc = "decided" /\ tx'[s].op = tx[s].op
      /\ disk' \in [Server -> [Account -> Nat]] /\ clock' \in Nat
      /\ UNCHANGED <<db, lock, job, held, lapsed, current, accepted, ended, revoked, raced>>
    BY DEF Decides
<1>5. \A t \in Server : (lock = t <=> tx[t].pc # "idle" /\ tx[t].op \in LeaseOperation)'
    BY <1>1, <1>4 DEF PgTypeOK, Alone
<1>6. PgTypeOK'
    BY <1>1, <1>2, <1>3, <1>4, <1>5 DEF PgTypeOK
<1>7. \A a \in Account : db'[a].lease <= issued'
  <2>1. \A a \in Account : db[a].lease \in Nat /\ db[a].lease <= issued
      BY <1>1 DEF PgTypeOK, LeasesIssued, Row
  <2>2. QED
      BY <1>1, <1>2, <1>4, <2>1 DEF PgTypeOK
<1>8. \A t \in Server : /\ tx'[t].lease <= issued'
                        /\ \A a \in Account : tx'[t].rows[a].lease <= issued'
  <2>1. ASSUME NEW t \in Server, t # s
        PROVE  /\ tx'[t].lease <= issued'
               /\ \A a \in Account : tx'[t].rows[a].lease <= issued'
    <3>1. /\ tx[t].lease \in Nat /\ tx[t].lease <= issued
          /\ \A a \in Account : tx[t].rows[a].lease \in Nat /\ tx[t].rows[a].lease <= issued
        BY <1>1 DEF PgTypeOK, LeasesIssued, TxState, Row
    <3>2. tx'[t] = tx[t] /\ issued \in Nat
        BY <1>1, <1>4, <2>1 DEF Alone, PgTypeOK
    <3>3. QED
        BY <1>2, <3>1, <3>2
  <2>2. QED
      BY <1>2, <2>1
<1>9. \A l \in Held' : l <= issued' /\ held'[l].account \in Account
  <2>1. Held' = Held /\ Held \subseteq Nat
      BY <1>4 DEF Held
  <2>2. \A l \in Held : l <= issued /\ held[l].account \in Account /\ l \in Nat
      BY <1>1, <2>1 DEF LeasesIssued
  <2>3. QED
      BY <1>1, <1>2, <1>4, <2>1, <2>2 DEF PgTypeOK
<1>10. QED
    BY <1>6, <1>7, <1>8, <1>9 DEF LeasesIssued

\* A decision puts no lease on two accounts, and none on a row that is not there.
LEMMA DecidesHome ==
    ASSUME PgInv, NEW s \in Server, Decides(s)
    PROVE  (OneHome /\ AbsentBare)'
<1>1. PgTypeOK /\ LeasesIssued /\ OneHome /\ AbsentBare
    BY DEF PgInv
<1>2. db' = db /\ Alone(s)
    BY DEF Decides
<1>3. \A a \in Account :
         \/ tx'[s].rows[a].lease \in {0, tx[s].rows[a].lease}
         \/ tx'[s].rows[a].lease = issued + 1 /\ tx'[s].lease = issued + 1 /\ tx[s].op = "claim"
    BY <1>1, DecidedLeases
<1>4. \A a, b \in Account :
         tx'[s].rows[a].lease = issued + 1 /\ tx'[s].rows[b].lease = issued + 1 => a = b
  <2>1. ASSUME NEW a \in Account, NEW b \in Account, a # b,
               tx'[s].rows[a].lease = issued + 1, tx'[s].rows[b].lease = issued + 1
        PROVE  FALSE
    <3>1. \A c \in Account : tx[s].rows[c].lease \in Nat /\ tx[s].rows[c].lease <= issued
        BY <1>1 DEF PgTypeOK, TxState, Row, LeasesIssued
    <3>2. issued \in Nat
        BY <1>1 DEF PgTypeOK
    <3>3. tx'[s].lease = issued + 1 /\ tx[s].op = "claim"
        BY <1>3, <2>1, <3>1, <3>2
    <3>4. \E c \in Account : \A d \in Account \ {c} : tx'[s].rows[d].lease # tx'[s].lease
        BY <3>2, <3>3 DEF Decides, ClaimDecided
    <3>5. QED
        BY <2>1, <3>3, <3>4
  <2>2. QED
      BY <2>1
<1>5. \A a \in Account : /\ \A l \in Named(a) : l \in Nat /\ l <= issued
                         /\ Named(a)' \subseteq Named(a) \cup {0, tx'[s].rows[a].lease}
  <2>1. ASSUME NEW a \in Account, NEW l \in Named(a)
        PROVE  l \in Nat /\ l <= issued
    <3>1. db[a].lease \in Nat /\ db[a].lease <= issued
        BY <1>1 DEF PgTypeOK, Row, LeasesIssued
    <3>2. \A t \in Server : tx[t].rows[a].lease \in Nat /\ tx[t].rows[a].lease <= issued
        BY <1>1 DEF PgTypeOK, TxState, Row, LeasesIssued
    <3>3. QED
        BY <2>1, <3>1, <3>2 DEF Named
  <2>2. ASSUME NEW a \in Account
        PROVE  Named(a)' \subseteq Named(a) \cup {0, tx'[s].rows[a].lease}
      BY <1>2 DEF Named, Alone
  <2>3. QED
      BY <2>1, <2>2
<1>6. OneHome'
  <2>1. ASSUME NEW a \in Account, NEW b \in Account, a # b,
               NEW l, l \in Named(a)', l \in Named(b)'
        PROVE  l = 0
    <3>1. issued \in Nat
        BY <1>1 DEF PgTypeOK
    <3>2. \A c \in Account : tx[s].rows[c].lease \in Named(c)
        BY DEF Named
    <3>3. l \in Named(a) \/ l = 0 \/ l = issued + 1
        BY <1>3, <1>5, <2>1, <3>2
    <3>4. l \in Named(b) \/ l = 0 \/ l = issued + 1
        BY <1>3, <1>5, <2>1, <3>2
    <3>5. CASE l = issued + 1
      <4>1. l \notin Named(a) /\ l \notin Named(b)
          BY <1>5, <3>1, <3>5
      <4>2. tx'[s].rows[a].lease = l /\ tx'[s].rows[b].lease = l
          BY <1>5, <2>1, <3>1, <3>5, <4>1
      <4>3. QED
          BY <1>4, <2>1, <3>5, <4>2
    <3>6. QED
        BY <1>1, <2>1, <3>3, <3>4, <3>5 DEF OneHome
  <2>2. QED
      BY <2>1 DEF OneHome
<1>7. \A a \in Account : Bare(tx'[s].rows[a])
  <2>1. \A a \in Account : \/ tx'[s].rows[a] = tx[s].rows[a]
                           \/ tx'[s].rows[a].present
      BY Zenon DEF Decides, Reworked
  <2>2. QED
      BY <1>1, <2>1 DEF AbsentBare, Bare
<1>8. AbsentBare'
    BY <1>1, <1>2, <1>7 DEF AbsentBare, Bare, Alone
<1>9. QED
    BY <1>6, <1>8

\* A decision stamps rows with a time that nobody has used.
LEMMA DecidesStamped ==
    ASSUME PgInv, NEW s \in Server, Decides(s)
    PROVE  Stamped'
<1>1. PgTypeOK /\ Stamped
    BY DEF PgInv
<1>2. /\ db' = db /\ job' = job /\ Alone(s)
      /\ clock' \in Nat /\ clock' >= clock /\ tx'[s].now <= clock'
    BY DEF Decides
<1>3. clock \in Nat
    BY <1>1 DEF PgTypeOK
<1>4. \A a \in Account :
         /\ tx'[s].rows[a].stamp \in Nat
         /\ \/ tx'[s].rows[a] = tx[s].rows[a]
            \/ tx'[s].rows[a].stamp = clock + 1 /\ clock' = clock + 1
    BY <1>1, DecidedStamps
<1>5. /\ \A a \in Account : db[a].stamp \in Nat
      /\ \A t \in Server : /\ tx[t].now \in Nat
                           /\ \A a \in Account : tx[t].rows[a].stamp \in Nat
    BY <1>1 DEF PgTypeOK, TxState, Row
<1>6. \A a \in Account : db'[a].stamp <= clock'
    BY <1>1, <1>2, <1>3, <1>5 DEF Stamped
<1>7. \A t \in Server : /\ tx'[t].now <= clock'
                        /\ \A a \in Account : tx'[t].rows[a].stamp <= clock'
  <2>1. ASSUME NEW t \in Server, t # s
        PROVE  /\ tx'[t].now <= clock'
               /\ \A a \in Account : tx'[t].rows[a].stamp <= clock'
      BY <1>1, <1>2, <1>3, <1>5, <2>1 DEF Stamped, Alone
  <2>2. \A a \in Account : tx'[s].rows[a].stamp <= clock'
      BY <1>1, <1>2, <1>3, <1>4, <1>5 DEF Stamped
  <2>3. QED
      BY <1>2, <2>1, <2>2
<1>8. ASSUME NEW j \in Server
      PROVE  (/\ job[j].pc # "idle" => job[j].account \in Account
              /\ job[j].pc = "answered" =>
                   /\ job[j].stamp \in 1..clock
                   /\ \A a \in Account :
                         /\ db[a].stamp # job[j].stamp
                         /\ \A t \in Server : tx[t].rows[a].stamp # job[j].stamp
                   /\ \A t \in Server \ {j} :
                         job[t].pc = "answered" => job[t].stamp # job[j].stamp)'
  <2>1. job[j].pc # "idle" => job[j].account \in Account
      BY <1>1 DEF Stamped
  <2>2. ASSUME job[j].pc = "answered"
        PROVE  /\ job[j].stamp \in 1..clock
               /\ \A a \in Account :
                     /\ db[a].stamp # job[j].stamp
                     /\ \A t \in Server : tx[t].rows[a].stamp # job[j].stamp
               /\ \A t \in Server \ {j} :
                     job[t].pc = "answered" => job[t].stamp # job[j].stamp
      BY <1>1, <2>2, Zenon DEF Stamped
  <2>3. ASSUME job[j].pc = "answered", NEW a \in Account, NEW t \in Server
        PROVE  tx'[t].rows[a].stamp # job[j].stamp
    <3>1. CASE t = s
        BY <1>3, <1>4, <2>2, <2>3, <3>1
    <3>2. CASE t # s
        BY <1>2, <2>2, <2>3, <3>2 DEF Alone
    <3>3. QED
        BY <3>1, <3>2
  <2>4. job[j].pc = "answered" => job[j].stamp \in 1..clock'
      BY <1>2, <1>3, <2>2
  <2>5. QED
      BY <1>2, <2>1, <2>2, <2>3, <2>4
<1>9. QED
    BY <1>6, <1>7, <1>8 DEF Stamped

\* What a decision changes of a row that nobody has written since the Load is
\* what it may change; a row that somebody has is a race, or loses.
LEMMA DecidesRows ==
    ASSUME PgInv, NEW s \in Server, Decides(s)
    PROVE  RowsUpToDate'
<1>1. PgTypeOK /\ LeasesIssued /\ Stamped /\ RowsUpToDate /\ ReleasesGiven
    BY DEF PgInv
<1>2. /\ Alone(s) /\ db' = db /\ raced' = raced /\ Live' = Live
      /\ tx[s].pc = "loaded" /\ tx'[s].pc = "decided" /\ tx'[s].op = tx[s].op
      /\ tx'[s].overtaken = tx[s].overtaken
    BY DEF Decides, Live, Held
<1>3. ASSUME NEW a \in Account \ raced
      PROVE  UpToDate(s, a)'
  <2>1. UpToDate(s, a)
      BY <1>1, <1>2, <1>3 DEF RowsUpToDate
  <2>2. \/ tx'[s].rows[a] = tx[s].rows[a]
        \/ /\ tx'[s].rows[a].stamp = clock + 1 /\ tx'[s].now = clock + 1
      BY <1>1, <1>3, DecidedStamps
  <2>3. CASE tx'[s].rows[a] = tx[s].rows[a]
      BY <1>2, <2>1, <2>3 DEF UpToDate, Alike, Changed
  <2>4. CASE a \in tx[s].overtaken /\ tx'[s].rows[a] # tx[s].rows[a]
      BY <1>2, <2>2, <2>4 DEF UpToDate
  <2>5. CASE a \notin tx[s].overtaken /\ tx'[s].rows[a] # tx[s].rows[a]
    <3>1. Alike(tx[s].rows[a], db[a])
        BY <1>2, <2>1, <2>5 DEF UpToDate, Changed
    <3>2. PICK new : new = tx'[s].rows[a]
        OBVIOUS
    <3>3. /\ new.stamp = clock + 1
          /\ new.present
          /\ new.generation >= db[a].generation
          /\ \/ new.lease = db[a].lease
             \/ tx[s].op = "setOwner" /\ new.lease = 0
             \/ /\ tx[s].op \in LeaseOperation
                /\ \/ db[a].lease \in lapsed \cup {0}
                   \/ tx[s].op = "release" /\ db[a].lease = tx[s].lease
                /\ \/ new.lease = 0
                   \/ tx[s].op = "claim" /\ new.lease = tx'[s].lease
        BY <2>5, <3>1, <3>2, Zenon DEF Decides, Reworked, Alike
    <3>4. db[a].lease \in lapsed \cup {0} => db[a].lease \notin Live
        BY DEF Live, Held
    <3>5. tx[s].op = "release" => tx[s].lease \notin Live
        BY <1>1, <1>2 DEF ReleasesGiven, Live
    <3>6. db[a].stamp < clock + 1
      <4>1. db[a].stamp \in Nat /\ clock \in Nat /\ db[a].stamp <= clock
          BY <1>1, <1>3 DEF PgTypeOK, Row, Stamped
      <4>2. QED
          BY <4>1
    <3>7. Changed(s, a)'
        BY <1>2, <2>2, <2>5, <3>2, <3>3, <3>4, <3>5, <3>6 DEF Changed
    <3>8. QED
        BY <1>2, <2>5, <3>7 DEF UpToDate
  <2>6. QED
      BY <2>3, <2>4, <2>5
<1>4. ASSUME NEW t \in Server, t # s, NEW a \in Account \ raced,
             tx[t].pc \in {"loaded", "decided"}
      PROVE  UpToDate(t, a)'
  <2>1. UpToDate(t, a) /\ tx'[t] = tx[t]
      BY <1>1, <1>2, <1>4 DEF RowsUpToDate, Alone
  <2>2. QED
      BY <1>2, <2>1 DEF UpToDate, Changed
<1>5. QED
    BY <1>2, <1>3, <1>4 DEF RowsUpToDate, Alone

\* A decision to add an account comes after every row that was loaded before.
LEMMA DecidesAdds ==
    ASSUME PgInv, NEW s \in Server, Decides(s)
    PROVE  AddsLater'
<1>1. PgTypeOK /\ Stamped /\ RowsUpToDate /\ AddsLater
    BY DEF PgInv
<1>2. /\ Alone(s) /\ db' = db /\ raced' = raced
      /\ tx[s].pc = "loaded" /\ tx'[s].pc = "decided"
      /\ tx'[s].overtaken = tx[s].overtaken
    BY DEF Decides
<1>3. \A a \in Account :
         /\ clock \in Nat
         /\ \/ tx'[s].rows[a] = tx[s].rows[a]
            \/ tx'[s].rows[a].stamp = clock + 1 /\ tx'[s].now = clock + 1
    BY <1>1, DecidedStamps
<1>4. \A t \in Server, a \in Account :
         tx[t].rows[a].stamp \in Nat /\ tx[t].rows[a].stamp <= clock
    BY <1>1 DEF PgTypeOK, TxState, Row, Stamped
<1>5. ASSUME NEW u \in Server, NEW t \in Server, NEW a \in Account \ raced,
             Adds(u, a)', tx'[t].rows[a].present
      PROVE  \/ tx'[t].rows[a].stamp < tx'[u].now
             \/ tx'[t].pc = "decided" /\ tx'[t].rows[a].stamp = tx'[t].now
  <2>1. CASE u = s
    <3>1. CASE tx'[s].rows[a] = tx[s].rows[a]
      <4>1. /\ ~ db[a].present /\ tx[s].rows[a].present
            /\ a \notin tx[s].overtaken
          BY <1>2, <1>5, <2>1, <3>1 DEF Adds
      <4>2. UpToDate(s, a)
          BY <1>1, <1>2 DEF RowsUpToDate
      <4>3. QED
          BY <1>2, <4>1, <4>2 DEF UpToDate, Alike, Changed
    <3>2. CASE tx'[s].rows[a] # tx[s].rows[a]
      <4>1. tx'[s].rows[a].stamp = clock + 1 /\ tx'[s].now = clock + 1
          BY <1>3, <3>2
      <4>2. CASE t = s
          BY <1>2, <4>1, <4>2
      <4>3. CASE t # s
          BY <1>2, <1>3, <1>4, <2>1, <4>1, <4>3 DEF Alone
      <4>4. QED
          BY <4>2, <4>3
    <3>3. QED
        BY <3>1, <3>2
  <2>2. CASE u # s
    <3>1. Adds(u, a) /\ tx'[u] = tx[u]
        BY <1>2, <1>5, <2>2 DEF Adds, Alone
    <3>2. CASE t = s /\ tx'[s].rows[a] # tx[s].rows[a]
        BY <1>2, <1>3, <3>2
    <3>3. CASE t = s /\ tx'[s].rows[a] = tx[s].rows[a]
        BY <1>1, <1>2, <1>5, <3>1, <3>3 DEF AddsLater
    <3>4. CASE t # s
        BY <1>1, <1>2, <1>5, <3>1, <3>4 DEF AddsLater, Alone
    <3>5. QED
        BY <3>2, <3>3, <3>4
  <2>3. QED
      BY <2>1, <2>2
<1>6. QED
    BY <1>2, <1>5 DEF AddsLater

\* A decision is on the lease of one account, and a claim on a lease that no
\* one else knows.
LEMMA DecidesLeases ==
    ASSUME PgInv, NEW s \in Server, Decides(s)
    PROVE  (Placed /\ ClaimsFresh /\ LeaseBegun /\ ReleasesGiven)'
<1>1. /\ PgTypeOK /\ LeasesIssued /\ Placed /\ ClaimsFresh
      /\ LeaseBegun /\ ReleasesGiven
    BY DEF PgInv
<1>2. /\ Alone(s) /\ db' = db /\ ended' = ended /\ Held' = Held
      /\ tx[s].pc = "loaded" /\ tx'[s].pc = "decided" /\ tx'[s].op = tx[s].op
    BY DEF Decides, Held
<1>3. issued \in Nat /\ clock \in Nat
    BY <1>1 DEF PgTypeOK
<1>4. Placed'
  <2>1. ASSUME tx[s].op \in {"claim", "upload"}, tx'[s].lease # 0
        PROVE  \E a \in Account : /\ tx'[s].rows[a].lease = tx'[s].lease
                                  /\ tx'[s].rows[a].present
                                  /\ tx'[s].rows[a].stamp = tx'[s].now
    <3>1. PICK a \in Account : /\ tx'[s].rows[a].lease = tx'[s].lease
                               /\ tx'[s].rows[a].present
                               /\ tx'[s].rows[a].stamp = clock + 1
                               /\ \/ tx[s].op = "claim" /\ tx'[s].lease = issued + 1
                                  \/ /\ tx[s].rows[a].generation = tx[s].generation
                                     /\ tx'[s].rows[a].generation = tx[s].generation + 1
        BY <2>1 DEF Decides, ClaimDecided, UploadDecided
    <3>2. tx'[s].rows[a] # tx[s].rows[a]
      <4>1. /\ tx[s].rows[a].lease \in Nat /\ tx[s].rows[a].lease <= issued
            /\ tx[s].rows[a].generation \in Nat
          BY <1>1 DEF PgTypeOK, TxState, Row, LeasesIssued
      <4>2. QED
          BY <1>3, <3>1, <4>1
    <3>3. tx'[s].now = clock + 1
        BY <1>1, <3>2, DecidedStamps
    <3>4. QED
        BY <3>1, <3>3
  <2>2. QED
      BY <1>1, <1>2, <2>1 DEF Placed, Alone
<1>5. \A a \in Account : \/ tx'[s].rows[a].lease \in {0, tx[s].rows[a].lease}
                         \/ tx'[s].rows[a].lease = issued + 1
    BY <1>1, DecidedLeases
<1>6. ClaimsFresh'
  <2>1. ASSUME tx[s].op = "claim", tx'[s].lease # 0
        PROVE  /\ tx'[s].lease \notin ended
               /\ \A b \in Account :
                     /\ db[b].lease # tx'[s].lease
                     /\ \A t \in Server \ {s} : tx[t].rows[b].lease # tx'[s].lease
    <3>1. tx'[s].lease = issued + 1
        BY <2>1 DEF Decides, ClaimDecided
    <3>2. tx'[s].lease \notin ended
        BY <1>1, <1>3, <3>1 DEF PgTypeOK
    <3>3. \A b \in Account :
             /\ db[b].lease \in Nat /\ db[b].lease <= issued
             /\ \A t \in Server : tx[t].rows[b].lease \in Nat /\ tx[t].rows[b].lease <= issued
        BY <1>1 DEF PgTypeOK, TxState, Row, LeasesIssued
    <3>4. QED
        BY <1>3, <3>1, <3>2, <3>3
  <2>2. ASSUME NEW t \in Server, t # s,
               tx[t].pc = "decided", tx[t].op = "claim", tx[t].lease # 0
        PROVE  \A b \in Account : tx'[s].rows[b].lease # tx[t].lease
    <3>1. \A b \in Account : tx[s].rows[b].lease # tx[t].lease
        BY <1>1, <2>2 DEF ClaimsFresh
    <3>2. tx[t].lease \in Nat /\ tx[t].lease <= issued
        BY <1>1 DEF PgTypeOK, TxState, LeasesIssued
    <3>3. QED
        BY <1>3, <1>5, <2>2, <3>1, <3>2
  <2>3. QED
      BY <1>1, <1>2, <2>1, <2>2 DEF ClaimsFresh, Alone
<1>7. LeaseBegun'
    BY <1>1, <1>2 DEF LeaseBegun, Alone
<1>8. ReleasesGiven'
  <2>1. 0 \notin Held
      BY DEF Held
  <2>2. tx[s].op = "release" => tx'[s].lease \in {0, tx[s].lease}
      BY DEF Decides
  <2>3. tx[s].op = "release" => tx'[s].lease \notin Held
      BY <1>1, <1>2, <2>1, <2>2 DEF ReleasesGiven
  <2>4. QED
      BY <1>1, <1>2, <2>3 DEF ReleasesGiven, Alone
<1>9. QED
    BY <1>4, <1>6, <1>7, <1>8

\* An upload that is decided counts up the generation it came with.
LEMMA DecidesUploads ==
    ASSUME PgInv, NEW s \in Server, Decides(s)
    PROVE  UploadsCount'
<1>1. PgTypeOK /\ OneHome /\ RowsUpToDate /\ UploadsCount /\ OneHome'
    BY DecidesHome DEF PgInv
<1>2. /\ Alone(s) /\ db' = db /\ raced' = raced
      /\ tx[s].pc = "loaded" /\ tx'[s].pc = "decided" /\ tx'[s].op = tx[s].op
      /\ tx'[s].overtaken = tx[s].overtaken /\ tx'[s].generation = tx[s].generation
    BY DEF Decides
<1>3. ASSUME NEW a \in Account \ raced, tx[s].op = "upload", tx'[s].lease # 0,
             tx'[s].rows[a].lease = tx'[s].lease, a \notin tx[s].overtaken
      PROVE  /\ db[a].generation = tx[s].generation
             /\ tx'[s].rows[a].generation = tx[s].generation + 1
  <2>1. PICK b \in Account : /\ tx'[s].rows[b].lease = tx'[s].lease
                             /\ tx[s].rows[b].generation = tx[s].generation
                             /\ tx'[s].rows[b].generation = tx[s].generation + 1
      BY <1>3 DEF Decides, UploadDecided
  <2>2. a = b
    <3>1. tx'[s].lease \in Named(a)' /\ tx'[s].lease \in Named(b)'
        BY <1>3, <2>1 DEF Named
    <3>2. QED
        BY <1>1, <1>3, <3>1 DEF OneHome
  <2>3. Alike(tx[s].rows[a], db[a])
      BY <1>1, <1>2, <1>3 DEF RowsUpToDate, UpToDate, Changed
  <2>4. QED
      BY <2>1, <2>2, <2>3 DEF Alike
<1>4. QED
    BY <1>1, <1>2, <1>3 DEF UploadsCount, Alone

\* A decision, as a whole.
LEMMA DecidesStep ==
    ASSUME PgInv, NEW s \in Server, Decides(s)
    PROVE  PgInv'
<1>1. /\ EndedGone /\ AcceptedBelow /\ IdleIsBare /\ AcceptedKnown
      /\ HoldersRecorded /\ UploadsInTurn
    BY DEF PgInv
<1>2. /\ Alone(s) /\ tx'[s].pc = "decided"
      /\ db' = db /\ held' = held /\ lapsed' = lapsed /\ accepted' = accepted
      /\ ended' = ended /\ revoked' = revoked /\ raced' = raced
    BY DEF Decides
<1>3. EndedGone'
    BY <1>1, <1>2 DEF EndedGone
<1>4. AcceptedBelow'
    BY <1>1, <1>2 DEF AcceptedBelow
<1>5. AcceptedKnown'
    BY <1>1, <1>2 DEF AcceptedKnown
<1>6. HoldersRecorded'
    BY <1>1, <1>2 DEF HoldersRecorded, Live, Held
<1>7. UploadsInTurn'
    BY <1>1, <1>2 DEF UploadsInTurn
<1>8. IdleIsBare'
    BY <1>1, <1>2 DEF IdleIsBare, Alone
<1>9. QED
    BY <1>3, <1>4, <1>5, <1>6, <1>7, <1>8, DecidesTyped, DecidesHome, DecidesStamped,
       DecidesRows, DecidesAdds, DecidesLeases, DecidesUploads DEF PgInv

\* What holds of every step in which a server loads its rows, or drops them.
Renews(s) ==
    /\ tx' \in [Server -> TxState] /\ Alone(s)
    /\ tx'[s].lease <= issued /\ tx'[s].now = 0 /\ tx'[s].overtaken = {}
    /\ \/ tx'[s] = NoTx
       \/ /\ tx'[s].rows = db /\ tx'[s].pc = "loaded"
          /\ tx'[s].lease # 0 => tx'[s].op \in {"touch", "upload", "release"}
          /\ tx'[s].op = "release" => tx'[s].lease \notin Held'
    /\ \A t \in Server : lock' = t <=> tx'[t].pc # "idle" /\ tx'[t].op \in LeaseOperation
    /\ lock' \in Server \cup {NoServer}
    /\ disk' \in [Server -> [Account -> Nat]]
    /\ job' \in [Server -> JobState]
    /\ \A t \in Server : job'[t].pc # "idle" => job'[t] = job[t]
    /\ held' \in [1..MaxLeases -> Hold]
    /\ \A l \in Held' : l \in Held /\ held'[l] = held[l]
    /\ UNCHANGED <<db, clock, issued, lapsed, current, accepted, ended, revoked, raced>>

\* The rows of such a server are those of the database, or none at all.
LEMMA RenewedRows ==
    ASSUME PgInv, NEW s \in Server, Renews(s), NEW a \in Account
    PROVE  /\ \/ tx'[s].rows[a] = db[a]
              \/ tx'[s].pc = "idle" /\ tx'[s].rows[a] = NoRow
           /\ tx'[s].pc # "idle" => tx'[s].rows[a] = db[a]
           /\ tx'[s].pc # "decided"
    BY DEF Renews, NoTx

\* A server that loads, or gives up, keeps the leases and the times in order.
LEMMA RenewsHome ==
    ASSUME PgInv, NEW s \in Server, Renews(s)
    PROVE  (LeasesIssued /\ OneHome /\ AbsentBare /\ Stamped)'
<1>1. PgTypeOK /\ LeasesIssued /\ OneHome /\ AbsentBare /\ Stamped
    BY DEF PgInv
<1>2. /\ Alone(s) /\ db' = db /\ clock' = clock /\ issued' = issued
      /\ tx'[s].lease <= issued /\ tx'[s].now = 0
      /\ \A t \in Server : job'[t].pc # "idle" => job'[t] = job[t]
      /\ \A l \in Held' : l \in Held /\ held'[l] = held[l]
    BY DEF Renews
<1>3. \A a \in Account : tx'[s].rows[a] = db[a] \/ tx'[s].rows[a] = NoRow
    BY RenewedRows
<1>4. NoRow.lease = 0 /\ NoRow.stamp = 0 /\ Bare(NoRow)
    BY DEF NoRow, Bare
<1>5. clock \in Nat /\ issued \in Nat
    BY <1>1 DEF PgTypeOK
<1>6. LeasesIssued'
  <2>1. \A a \in Account : tx'[s].rows[a].lease <= issued
      BY <1>1, <1>3, <1>4, <1>5 DEF LeasesIssued
  <2>2. QED
      BY <1>1, <1>2, <2>1 DEF LeasesIssued, Alone
<1>7. OneHome'
  <2>1. \A a \in Account : Named(a)' \subseteq Named(a) \cup {0}
      BY <1>2, <1>3, <1>4 DEF Named, Alone
  <2>2. QED
      BY <1>1, <2>1 DEF OneHome
<1>8. AbsentBare'
  <2>1. \A a \in Account : Bare(tx'[s].rows[a])
      BY <1>1, <1>3, <1>4 DEF AbsentBare
  <2>2. QED
      BY <1>1, <1>2, <2>1 DEF AbsentBare, Bare, Alone
<1>9. \A a \in Account : tx'[s].rows[a].stamp <= clock
    BY <1>1, <1>3, <1>4, <1>5 DEF Stamped
<1>10. ASSUME NEW j \in Server
       PROVE  (/\ job[j].pc # "idle" => job[j].account \in Account
               /\ job[j].pc = "answered" =>
                    /\ job[j].stamp \in 1..clock
                    /\ \A a \in Account :
                          /\ db[a].stamp # job[j].stamp
                          /\ \A t \in Server : tx[t].rows[a].stamp # job[j].stamp
                    /\ \A t \in Server \ {j} :
                          job[t].pc = "answered" => job[t].stamp # job[j].stamp)'
  <2>1. job'[j].pc # "idle" => job'[j].account \in Account
      BY <1>1, <1>2 DEF Stamped
  <2>2. ASSUME job'[j].pc = "answered"
        PROVE  /\ job'[j].stamp \in 1..clock
               /\ \A a \in Account :
                     /\ db[a].stamp # job'[j].stamp
                     /\ \A t \in Server : tx[t].rows[a].stamp # job'[j].stamp
               /\ \A t \in Server \ {j} :
                     job[t].pc = "answered" => job[t].stamp # job'[j].stamp
    <3>1. job'[j] = job[j] /\ job[j].pc = "answered"
        BY <1>2, <2>2
    <3>2. QED
        BY <1>1, <3>1, Zenon DEF Stamped
  <2>3. ASSUME job'[j].pc = "answered", NEW a \in Account, NEW t \in Server
        PROVE  tx'[t].rows[a].stamp # job'[j].stamp
    <3>1. CASE t = s
      <4>1. job'[j].stamp # 0 /\ db[a].stamp # job'[j].stamp
          BY <1>5, <2>2, <2>3
      <4>2. QED
          BY <1>3, <1>4, <3>1, <4>1
    <3>2. CASE t # s
        BY <1>2, <2>2, <2>3, <3>2 DEF Alone
    <3>3. QED
        BY <3>1, <3>2
  <2>4. ASSUME job'[j].pc = "answered", NEW t \in Server \ {j}, job'[t].pc = "answered"
        PROVE  job'[t].stamp # job'[j].stamp
      BY <1>2, <2>2, <2>4
  <2>5. QED
      BY <1>2, <2>1, <2>2, <2>3, <2>4
<1>11. Stamped'
    BY <1>1, <1>2, <1>5, <1>9, <1>10 DEF Stamped, Alone
<1>12. QED
    BY <1>6, <1>7, <1>8, <1>11

\* A server that loads, or gives up, as a whole.
LEMMA RenewsStep ==
    ASSUME PgInv, NEW s \in Server, Renews(s)
    PROVE  PgInv'
<1>1. /\ PgTypeOK /\ RowsUpToDate /\ AddsLater /\ Placed /\ ClaimsFresh /\ UploadsCount
      /\ LeaseBegun /\ ReleasesGiven /\ EndedGone /\ AcceptedBelow /\ IdleIsBare
      /\ AcceptedKnown /\ HoldersRecorded /\ UploadsInTurn
    BY DEF PgInv
<1>2. /\ tx' \in [Server -> TxState] /\ Alone(s) /\ tx'[s].overtaken = {}
      /\ db' = db /\ clock' = clock /\ issued' = issued /\ lapsed' = lapsed
      /\ current' = current
      /\ accepted' = accepted /\ ended' = ended /\ revoked' = revoked
      /\ raced' = raced
      /\ \A l \in Held' : l \in Held /\ held'[l] = held[l]
    BY DEF Renews
<1>3. \A a \in Account :
         /\ tx'[s].rows[a].lease \in {db[a].lease, 0}
         /\ tx'[s].pc # "idle" => tx'[s].rows[a] = db[a]
    BY RenewedRows DEF NoRow
<1>4. tx'[s].pc \in {"idle", "loaded"}
    BY DEF Renews, NoTx
<1>5. Live' \subseteq Live
    BY <1>2 DEF Live
<1>6. PgTypeOK'
    BY <1>1, <1>2 DEF PgTypeOK, Renews
<1>7. RowsUpToDate'
  <2>1. ASSUME NEW a \in Account \ raced, tx'[s].pc # "idle"
        PROVE  UpToDate(s, a)'
      BY <1>2, <1>3, <2>1 DEF UpToDate, Alike
  <2>2. ASSUME NEW t \in Server, t # s, NEW a \in Account \ raced,
               tx[t].pc \in {"loaded", "decided"}
        PROVE  UpToDate(t, a)'
    <3>1. UpToDate(t, a) /\ tx'[t] = tx[t]
        BY <1>1, <1>2, <2>2 DEF RowsUpToDate, Alone
    <3>2. QED
        BY <1>2, <1>5, <3>1 DEF UpToDate, Changed
  <2>3. QED
      BY <1>2, <2>1, <2>2 DEF RowsUpToDate, Alone
<1>8. Placed'
    BY <1>1, <1>2, <1>4 DEF Placed, Alone
<1>9. ClaimsFresh'
    BY <1>1, <1>2, <1>3, <1>4 DEF ClaimsFresh, Alone
<1>10. UploadsCount'
    BY <1>1, <1>2, <1>4 DEF UploadsCount, Alone
<1>11. LeaseBegun'
  <2>1. tx'[s].pc = "loaded" /\ tx'[s].lease # 0
        => tx'[s].op \in {"touch", "upload", "release"}
      BY DEF Renews, NoTx
  <2>2. QED
      BY <1>1, <1>2, <2>1 DEF LeaseBegun, Alone
<1>12. ReleasesGiven'
  <2>1. tx'[s].pc # "idle" /\ tx'[s].op = "release" => tx'[s].lease \notin Held'
      BY DEF Renews, NoTx
  <2>2. QED
      BY <1>1, <1>2, <2>1 DEF ReleasesGiven, Alone
<1>13. IdleIsBare'
  <2>1. tx'[s].pc = "idle" => tx'[s] = NoTx
      BY DEF Renews
  <2>2. QED
      BY <1>1, <1>2, <1>4, <2>1 DEF IdleIsBare, Alone
<1>14. EndedGone' /\ AcceptedBelow' /\ AcceptedKnown' /\ UploadsInTurn'
    BY <1>1, <1>2 DEF EndedGone, AcceptedBelow, AcceptedKnown, UploadsInTurn
<1>15. HoldersRecorded'
  <2>1. \A l \in Live' : l \in Live /\ held'[l] = held[l]
      BY <1>2 DEF Live
  <2>2. QED
      BY <1>1, <1>2, <2>1 DEF HoldersRecorded
<1>16. AddsLater'
  <2>1. \A a \in Account : tx'[s].rows[a].present => db[a].present
      BY RenewedRows DEF NoRow
  <2>2. QED
      BY <1>1, <1>2, <1>4, <2>1 DEF AddsLater, Adds, Alone
<1>17. QED
    BY <1>6, <1>7, <1>8, <1>9, <1>10, <1>11, <1>12, <1>13, <1>14, <1>15, <1>16,
       RenewsHome DEF PgInv

\* The steps that start, end and break off an operation are such steps.
LEMMA StartRenews ==
    ASSUME PgInv, NEW s \in Server, Start(s)
    PROVE  Renews(s)
<1>1. PgTypeOK /\ LeasesIssued /\ IdleIsBare
    BY DEF PgInv
<1>2. issued \in Nat
    BY <1>1 DEF PgTypeOK
<1>3. ASSUME NEW op \in Operation, NEW lease \in Nat, NEW request \in Hold,
             Begin(s, op, lease, request)
      PROVE  /\ tx' \in [Server -> TxState] /\ Alone(s)
             /\ tx'[s].pc = "loaded" /\ tx'[s].op = op /\ tx'[s].lease = lease
             /\ tx'[s].rows = db /\ tx'[s].now = 0 /\ tx'[s].overtaken = {}
  <2>1. Load(s, op, lease, request)
      BY <1>3 DEF Begin
  <2>2. QED
      BY <1>1, <2>1, LoadedTx
<1>4. ASSUME NEW op \in Operation, NEW lease \in Nat, NEW request \in Hold,
             Begin(s, op, lease, request), lease <= issued,
             lease # 0 => op \in {"touch", "upload", "release"},
             held' \in [1..MaxLeases -> Hold],
             \A l \in Held' : l \in Held /\ held'[l] = held[l],
             op = "release" => lease \notin Held'
      PROVE  Renews(s)
  <2>1. /\ tx' \in [Server -> TxState] /\ Alone(s)
        /\ tx'[s].pc = "loaded" /\ tx'[s].op = op /\ tx'[s].lease = lease
        /\ tx'[s].rows = db /\ tx'[s].now = 0 /\ tx'[s].overtaken = {}
      BY <1>3, <1>4
  <2>2. /\ tx[s].pc = "idle" /\ LockFree(op)
        /\ lock' = IF op \in LeaseOperation THEN s ELSE lock
        /\ disk' = Materialized(s, db)
        /\ UNCHANGED <<db, job, clock, issued, lapsed, current, accepted, ended, revoked, raced>>
      BY <1>4, Zenon DEF Begin, Load
  <2>3. disk' \in [Server -> [Account -> Nat]]
      BY <1>1, <2>2, MaterializedTyped DEF PgTypeOK
  <2>4. lock' \in Server \cup {NoServer}
      BY <1>1, <2>2 DEF PgTypeOK
  <2>5. \A t \in Server : lock' = t <=> tx'[t].pc # "idle" /\ tx'[t].op \in LeaseOperation
      BY <1>1, <2>1, <2>2, PartyAssumption DEF PgTypeOK, LockFree, Alone
  <2>6. /\ job' \in [Server -> JobState]
        /\ \A t \in Server : job'[t].pc # "idle" => job'[t] = job[t]
      BY <1>1, <2>2 DEF PgTypeOK
  <2>7. QED
      BY <1>4, <2>1, <2>2, <2>3, <2>4, <2>5, <2>6, Zenon DEF Renews
<1>5. NoHold \in Hold /\ held \in [1..MaxLeases -> Hold] /\ 0 \in Nat /\ 0 <= issued
    BY <1>1, <1>2 DEF NoHold, Hold, PgTypeOK
<1>6. \A l \in Held : l \in Nat /\ l <= issued /\ l # 0 /\ l \in 1..MaxLeases
                      /\ held[l] \in Hold
  <2>1. held \in [1..MaxLeases -> Hold] /\ issued \in Nat
      BY <1>1 DEF PgTypeOK
  <2>2. \A l \in Held : l \in 1..MaxLeases /\ l <= issued
      BY <1>1 DEF Held, LeasesIssued
  <2>3. QED
      BY <2>1, <2>2, BoundAssumption
<1>7. held' = held => /\ held' \in [1..MaxLeases -> Hold]
                      /\ \A l \in Held' : l \in Held /\ held'[l] = held[l]
    BY <1>5 DEF Held
<1>8. CASE /\ \E op \in Operation \ {"touch", "upload", "release",
                                    "push", "settings", "import"} : Begin(s, op, 0, NoHold)
           /\ UNCHANGED held
    BY <1>4, <1>5, <1>7, <1>8
<1>9. CASE /\ \E op \in {"push", "import"}, a \in Account : \E auth \in 1..current[a] :
                Begin(s, op, 0, [account |-> a, generation |-> 0, auth |-> auth])
           /\ UNCHANGED held
  <2>1. PICK op \in {"push", "import"}, a \in Account : \E auth \in 1..current[a] :
            Begin(s, op, 0, [account |-> a, generation |-> 0, auth |-> auth])
      BY <1>9
  <2>2. PICK auth \in 1..current[a] :
            Begin(s, op, 0, [account |-> a, generation |-> 0, auth |-> auth])
      BY <2>1
  <2>3. [account |-> a, generation |-> 0, auth |-> auth] \in Hold
      BY <1>1 DEF Hold, PgTypeOK
  <2>4. op \in Operation /\ op # "release"
      BY DEF Operation, LeaseOperation
  <2>5. QED
      BY <1>4, <1>5, <1>7, <1>9, <2>2, <2>3, <2>4
<1>10. CASE /\ \E l \in Held : Begin(s, "touch", l, NoHold)
            /\ UNCHANGED held
    BY <1>4, <1>5, <1>6, <1>7, <1>10 DEF Operation, LeaseOperation
<1>11. CASE /\ \E l \in Held : Begin(s, "upload", l, held[l])
            /\ UNCHANGED held
    BY <1>4, <1>5, <1>6, <1>7, <1>11 DEF Operation, LeaseOperation
<1>12. ASSUME NEW l \in Held, Begin(s, "release", l, NoHold),
              held' = [held EXCEPT ![l] = NoHold]
       PROVE  Renews(s)
  <2>1. /\ held' \in [1..MaxLeases -> Hold]
        /\ \A k \in Held' : k \in Held /\ held'[k] = held[k]
        /\ l \notin Held'
      BY <1>5, <1>6, <1>12 DEF Held
  <2>2. QED
      BY <1>4, <1>5, <1>6, <1>12, <2>1 DEF Operation, LeaseOperation
<1>13. QED
    BY <1>8, <1>9, <1>10, <1>11, <1>12, Zenon DEF Start

\* So is the second Load of a push.
LEMMA AgainRenews ==
    ASSUME PgInv, NEW s \in Server, LoadAgain(s)
    PROVE  Renews(s)
<1> DEFINE request == [NoHold EXCEPT !.account = tx[s].account]
<1>1. PgTypeOK /\ IdleIsBare
    BY DEF PgInv
<1>2. request \in Hold /\ issued \in Nat
    BY <1>1 DEF NoHold, Hold, PgTypeOK, TxState
<1>3. /\ tx[s].pc = "again" /\ Load(s, "settings", 0, request)
      /\ UNCHANGED <<lock, held>>
    BY Zenon DEF LoadAgain
<1> HIDE DEF request
<1>4. "settings" \in LeaseOperation /\ "settings" \in Operation /\ 0 \in Nat
    BY DEF Operation, LeaseOperation
<1>5. /\ tx' \in [Server -> TxState] /\ Alone(s)
      /\ tx'[s].pc = "loaded" /\ tx'[s].op = "settings" /\ tx'[s].lease = 0
      /\ tx'[s].rows = db /\ tx'[s].now = 0 /\ tx'[s].overtaken = {}
    BY <1>1, <1>2, <1>3, <1>4, LoadedTx
<1>6. /\ disk' = Materialized(s, db)
      /\ UNCHANGED <<db, job, clock, issued, lapsed, current, accepted, ended, revoked, raced>>
    BY <1>3, Zenon DEF Load
<1>7. disk' \in [Server -> [Account -> Nat]]
    BY <1>1, <1>6, MaterializedTyped DEF PgTypeOK
<1>8. lock = s
    BY <1>1, <1>3, <1>4 DEF IdleIsBare, PgTypeOK
<1>9. \A t \in Server : lock' = t <=> tx'[t].pc # "idle" /\ tx'[t].op \in LeaseOperation
    BY <1>1, <1>3, <1>4, <1>5, <1>8 DEF PgTypeOK, Alone
<1>10. /\ lock' \in Server \cup {NoServer}
       /\ job' \in [Server -> JobState]
       /\ \A t \in Server : job'[t].pc # "idle" => job'[t] = job[t]
       /\ held' \in [1..MaxLeases -> Hold]
       /\ \A l \in Held' : l \in Held /\ held'[l] = held[l]
    BY <1>1, <1>3, <1>6 DEF PgTypeOK, Held
<1>11. QED
    BY <1>2, <1>5, <1>6, <1>7, <1>9, <1>10 DEF Renews

\* So are those that end one without a Save.
LEMMA EndRenews ==
    ASSUME PgInv, NEW s \in Server, Finish(s) \/ Crash(s)
    PROVE  Renews(s)
<1>1. PgTypeOK /\ LeasesIssued
    BY DEF PgInv
<1>2. /\ tx' = [tx EXCEPT ![s] = NoTx]
      /\ lock' = IF lock = s THEN NoServer ELSE lock
      /\ job' = job \/ job' = [job EXCEPT ![s] = NoJob]
      /\ UNCHANGED <<db, disk, clock, issued, held, lapsed, current, accepted,
                     ended, revoked, raced>>
    BY Zenon DEF Finish, Crash
<1>3. tx' \in [Server -> TxState] /\ Alone(s) /\ tx'[s] = NoTx
    BY <1>1, <1>2, EndedTx
<1>4. /\ NoTx.pc = "idle" /\ NoTx.now = 0 /\ NoTx.overtaken = {} /\ NoTx.lease = 0
      /\ NoJob \in JobState /\ NoJob.pc = "idle"
    BY DEF NoTx, NoJob, JobState, Answer
<1>5. \A t \in Server : lock' = t <=> tx'[t].pc # "idle" /\ tx'[t].op \in LeaseOperation
    BY <1>1, <1>2, <1>3, <1>4, PartyAssumption DEF PgTypeOK, Alone
<1>6. lock' \in Server \cup {NoServer}
    BY <1>1, <1>2 DEF PgTypeOK
<1>7. /\ job' \in [Server -> JobState]
      /\ \A t \in Server : job'[t].pc # "idle" => job'[t] = job[t]
    BY <1>1, <1>2, <1>4 DEF PgTypeOK
<1>8. tx'[s].lease <= issued
    BY <1>1, <1>3, <1>4 DEF PgTypeOK
<1>9. /\ disk' \in [Server -> [Account -> Nat]] /\ held' \in [1..MaxLeases -> Hold]
      /\ \A l \in Held' : l \in Held /\ held'[l] = held[l]
    BY <1>1, <1>2 DEF PgTypeOK, Held
<1>10. QED
    BY <1>2, <1>3, <1>4, <1>5, <1>6, <1>7, <1>8, <1>9 DEF Renews

\* What holds of every step that is no part of an operation, and writes no row:
\* a GET, a probe or a report up to its commit, the end of a term, Codex.
Aside ==
    /\ UNCHANGED <<db, tx, lock, issued, accepted, ended, revoked, raced>>
    /\ clock' \in {clock, clock + 1}
    /\ lapsed' \in SUBSET (1..issued) /\ lapsed \subseteq lapsed'
    /\ disk' \in [Server -> [Account -> Nat]] /\ current' \in [Account -> Nat]
    /\ held' \in [1..MaxLeases -> Hold]
    /\ \A l \in Held' : l \in Held /\ held'[l].account = held[l].account
    /\ job' \in [Server -> JobState]
    /\ \A t \in Server :
          \/ job'[t] = job[t]
          \/ /\ job'[t].account \in Account
             /\ job'[t].pc = "answered" => clock' = clock + 1 /\ job'[t].stamp = clock + 1
             /\ \A u \in Server \ {t} : job'[u] = job[u]

\* A quota result is to be committed under a time that nobody has used.
LEMMA AsideStamped ==
    ASSUME PgTypeOK, Stamped, Aside
    PROVE  Stamped'
<1>1. /\ db' = db /\ tx' = tx /\ clock' \in {clock, clock + 1} /\ clock \in Nat
      /\ \A t \in Server :
            \/ job'[t] = job[t]
            \/ /\ job'[t].account \in Account
               /\ job'[t].pc = "answered" => clock' = clock + 1 /\ job'[t].stamp = clock + 1
               /\ \A u \in Server \ {t} : job'[u] = job[u]
    BY DEF Aside, PgTypeOK
<1>2. /\ \A a \in Account : db[a].stamp \in Nat /\ db[a].stamp <= clock
      /\ \A t \in Server : /\ tx[t].now \in Nat /\ tx[t].now <= clock
                           /\ \A a \in Account : /\ tx[t].rows[a].stamp \in Nat
                                                 /\ tx[t].rows[a].stamp <= clock
    BY DEF PgTypeOK, TxState, Row, Stamped
<1>3. /\ \A a \in Account : db'[a].stamp <= clock'
      /\ \A t \in Server : /\ tx'[t].now <= clock'
                           /\ \A a \in Account : tx'[t].rows[a].stamp <= clock'
    BY <1>1, <1>2
<1>4. ASSUME NEW j \in Server, job[j].pc = "answered"
      PROVE  /\ job[j].stamp \in 1..clock
             /\ \A a \in Account :
                   /\ db[a].stamp # job[j].stamp
                   /\ \A t \in Server : tx[t].rows[a].stamp # job[j].stamp
             /\ \A t \in Server \ {j} :
                   job[t].pc = "answered" => job[t].stamp # job[j].stamp
    BY <1>4, Zenon DEF Stamped
<1>5. ASSUME NEW j \in Server
      PROVE  (/\ job[j].pc # "idle" => job[j].account \in Account
              /\ job[j].pc = "answered" =>
                   /\ job[j].stamp \in 1..clock
                   /\ \A a \in Account :
                         /\ db[a].stamp # job[j].stamp
                         /\ \A t \in Server : tx[t].rows[a].stamp # job[j].stamp
                   /\ \A t \in Server \ {j} :
                         job[t].pc = "answered" => job[t].stamp # job[j].stamp)'
  <2>1. job'[j].pc # "idle" => job'[j].account \in Account
      BY <1>1 DEF Stamped
  <2>2. CASE job'[j] = job[j]
    <3>1. ASSUME job'[j].pc = "answered"
          PROVE  /\ job'[j].stamp \in 1..clock'
                 /\ \A a \in Account :
                       /\ db'[a].stamp # job'[j].stamp
                       /\ \A t \in Server : tx'[t].rows[a].stamp # job'[j].stamp
        BY <1>1, <1>4, <2>2, <3>1
    <3>2. ASSUME job'[j].pc = "answered", NEW t \in Server \ {j}, job'[t].pc = "answered"
          PROVE  job'[t].stamp # job'[j].stamp
        BY <1>1, <1>4, <2>2, <3>2
    <3>3. QED
        BY <2>1, <3>1, <3>2
  <2>3. CASE job'[j] # job[j]
    <3>1. /\ job'[j].pc = "answered" => clock' = clock + 1 /\ job'[j].stamp = clock + 1
          /\ \A u \in Server \ {j} : job'[u] = job[u]
        BY <1>1, <2>3
    <3>2. ASSUME job'[j].pc = "answered"
          PROVE  /\ job'[j].stamp \in 1..clock'
                 /\ \A a \in Account :
                       /\ db'[a].stamp # job'[j].stamp
                       /\ \A t \in Server : tx'[t].rows[a].stamp # job'[j].stamp
        BY <1>1, <1>2, <3>1, <3>2
    <3>3. ASSUME job'[j].pc = "answered", NEW t \in Server \ {j}, job'[t].pc = "answered"
          PROVE  job'[t].stamp # job'[j].stamp
      <4>1. job'[t].stamp \in 1..clock
          BY <1>4, <3>1, <3>3
      <4>2. QED
          BY <1>1, <3>1, <3>3, <4>1
    <3>4. QED
        BY <2>1, <3>2, <3>3
  <2>4. QED
      BY <2>2, <2>3
<1>6. QED
    BY <1>3, <1>5 DEF Stamped

\* Such a step, as a whole.
LEMMA AsideStep ==
    ASSUME PgInv, Aside
    PROVE  PgInv'
<1>1. /\ PgTypeOK /\ LeasesIssued /\ OneHome /\ AbsentBare /\ Stamped /\ RowsUpToDate
      /\ AddsLater /\ Placed /\ ClaimsFresh /\ UploadsCount /\ LeaseBegun /\ ReleasesGiven
      /\ EndedGone /\ AcceptedBelow /\ IdleIsBare /\ AcceptedKnown
      /\ HoldersRecorded /\ UploadsInTurn
    BY DEF PgInv
<1>2. /\ UNCHANGED <<db, tx, lock, issued, accepted, ended, revoked, raced>>
      /\ lapsed \subseteq lapsed'
      /\ \A l \in Held' : l \in Held /\ held'[l].account = held[l].account
    BY DEF Aside
<1>3. \A l \in Live' : l \in Live /\ held'[l].account = held[l].account
    BY <1>2 DEF Live
<1>4. PgTypeOK'
    BY <1>1 DEF PgTypeOK, Aside
<1>5. LeasesIssued'
    BY <1>1, <1>2 DEF LeasesIssued
<1>6. OneHome' /\ AbsentBare'
    BY <1>1, <1>2 DEF OneHome, Named, AbsentBare, Bare
<1>7. RowsUpToDate'
    BY <1>1, <1>2, <1>3 DEF RowsUpToDate, UpToDate, Changed
<1>8. AddsLater' /\ Placed' /\ ClaimsFresh' /\ UploadsCount'
    BY <1>1, <1>2 DEF AddsLater, Adds, Placed, ClaimsFresh, UploadsCount
<1>9. LeaseBegun' /\ ReleasesGiven'
    BY <1>1, <1>2 DEF LeaseBegun, ReleasesGiven
<1>10. EndedGone' /\ AcceptedBelow' /\ IdleIsBare' /\ AcceptedKnown' /\ UploadsInTurn'
    BY <1>1, <1>2 DEF EndedGone, AcceptedBelow, IdleIsBare, AcceptedKnown, UploadsInTurn
<1>11. HoldersRecorded'
    BY <1>1, <1>2, <1>3 DEF HoldersRecorded
<1>12. QED
    BY <1>1, <1>4, <1>5, <1>6, <1>7, <1>8, <1>9, <1>10, <1>11, AsideStamped DEF PgInv

\* The result of a probe, or a report, is ready to be committed.
LEMMA Recording ==
    ASSUME PgTypeOK, NEW s \in Server, NEW result \in JobState, Record(s, result)
    PROVE  /\ clock' = clock + 1
           /\ job' \in [Server -> JobState]
           /\ job'[s].account = result.account /\ job'[s].stamp = clock + 1
           /\ \A t \in Server \ {s} : job'[t] = job[t]
           /\ UNCHANGED <<db, tx, lock, issued, held, lapsed, accepted, ended, revoked, raced>>
<1> DEFINE A == [result EXCEPT !.pc = "answered"]
           B == [A EXCEPT !.stamp = clock + 1]
<1>1. /\ clock' = clock + 1
      /\ job' = [job EXCEPT ![s] = [result EXCEPT !.pc = "answered", !.stamp = clock + 1]]
      /\ UNCHANGED <<db, tx, lock, issued, held, lapsed, accepted, ended, revoked, raced>>
    BY Zenon DEF Record
<1>2. clock + 1 \in Nat
    BY DEF PgTypeOK
<1>3. job' = [job EXCEPT ![s] = B]
    BY <1>1 DEF JobState
<1>4. A \in JobState /\ A.account = result.account
    BY DEF JobState
<1> HIDE DEF A
<1>5. B \in JobState /\ B.account = result.account /\ B.stamp = clock + 1
    BY <1>2, <1>4 DEF JobState
<1> HIDE DEF B
<1>6. QED
    BY <1>1, <1>3, <1>5 DEF PgTypeOK

\* A result that is recorded is such a step.
LEMMA RecordAside ==
    ASSUME PgTypeOK, NEW s \in Server, NEW result \in JobState, Record(s, result),
           result.account \in Account,
           disk' \in [Server -> [Account -> Nat]], current' = current
    PROVE  Aside
<1>1. /\ clock' = clock + 1
      /\ job' \in [Server -> JobState]
      /\ job'[s].account = result.account /\ job'[s].stamp = clock + 1
      /\ \A t \in Server \ {s} : job'[t] = job[t]
      /\ UNCHANGED <<db, tx, lock, issued, held, lapsed, accepted, ended, revoked, raced>>
    BY Recording
<1>2. /\ lapsed' \in SUBSET (1..issued) /\ current' \in [Account -> Nat]
      /\ held' \in [1..MaxLeases -> Hold]
    BY <1>1 DEF PgTypeOK
<1>3. \A l \in Held' : l \in Held /\ held'[l].account = held[l].account
    BY <1>1 DEF Held
<1>4. QED
    BY <1>1, <1>2, <1>3 DEF Aside

\* So are a GET and the steps of a probe.
LEMMA ProbeAside ==
    ASSUME PgInv, NEW s \in Server,
           \/ Read(s) \/ ProbeRefresh(s) \/ ProbeAnswer(s) \/ ProbeRefused(s)
           \/ \E a \in Account : ProbeStart(s, a)
    PROVE  Aside
<1>1. PgTypeOK /\ Stamped
    BY DEF PgInv
<1>2. /\ job[s] \in JobState /\ disk \in [Server -> [Account -> Nat]]
      /\ db \in [Account -> Row] /\ current \in [Account -> Nat]
      /\ job \in [Server -> JobState]
      /\ job[s].pc # "idle" => job[s].account \in Account
    BY <1>1 DEF PgTypeOK, Stamped
<1>3. Materialized(s, db) \in [Server -> [Account -> Nat]]
    BY <1>1, <1>2, MaterializedTyped
<1>4. ASSUME UNCHANGED <<db, tx, lock, clock, issued, held, lapsed, accepted, ended, revoked, raced>>,
             disk' \in [Server -> [Account -> Nat]], current' \in [Account -> Nat],
             \/ job' = job
             \/ /\ job' \in [Server -> JobState]
                /\ job'[s].account \in Account /\ job'[s].pc # "answered"
                /\ \A t \in Server \ {s} : job'[t] = job[t]
      PROVE  Aside
  <2>1. /\ lapsed' \in SUBSET (1..issued) /\ lapsed \subseteq lapsed'
        /\ clock' \in {clock, clock + 1}
        /\ held' \in [1..MaxLeases -> Hold] /\ job' \in [Server -> JobState]
      BY <1>1, <1>4 DEF PgTypeOK
  <2>2. \A l \in Held' : l \in Held /\ held'[l].account = held[l].account
      BY <1>4 DEF Held
  <2>3. \A t \in Server :
          \/ job'[t] = job[t]
          \/ /\ job'[t].account \in Account
             /\ job'[t].pc = "answered" => clock' = clock + 1 /\ job'[t].stamp = clock + 1
             /\ \A u \in Server \ {t} : job'[u] = job[u]
      BY <1>4
  <2>4. QED
      BY <1>4, <2>1, <2>2, <2>3 DEF Aside
<1>5. CASE Read(s)
    BY <1>2, <1>3, <1>4, <1>5 DEF Read
<1>6. CASE ProbeRefresh(s)
  <2>1. PICK a \in Account : a = job[s].account
      BY <1>2, <1>6 DEF ProbeRefresh
  <2>2. PICK next \in Nat : next = current[a] + 1
      BY <1>2
  <2>3. /\ job' = [job EXCEPT ![s].pc = "refreshed"] /\ job[s].pc = "asked"
        /\ current' = [current EXCEPT ![a] = next]
        /\ disk' = [disk EXCEPT ![s][a] = next]
        /\ UNCHANGED <<db, tx, lock, clock, issued, held, lapsed, accepted, ended, revoked, raced>>
      BY <1>2, <1>6, <2>1, <2>2 DEF ProbeRefresh
  <2>4. current' \in [Account -> Nat] /\ disk' \in [Server -> [Account -> Nat]]
      BY <1>2, <2>3
  <2> DEFINE A == [job[s] EXCEPT !.pc = "refreshed"]
  <2>5. A \in JobState /\ A.account = job[s].account /\ A.pc = "refreshed"
      BY <1>2 DEF JobState
  <2>6. job' = [job EXCEPT ![s] = A]
      BY <2>3
  <2> HIDE DEF A
  <2>7. /\ job' \in [Server -> JobState]
        /\ job'[s].account \in Account /\ job'[s].pc # "answered"
        /\ \A t \in Server \ {s} : job'[t] = job[t]
      BY <1>2, <2>1, <2>5, <2>6
  <2>8. QED
      BY <1>4, <2>3, <2>4, <2>7
<1>7. ASSUME NEW answer \in Answer, NEW changed \in BOOLEAN, job[s].pc # "idle",
             Record(s, [job[s] EXCEPT !.answer = answer, !.changed = changed]),
             UNCHANGED <<disk, current>>
      PROVE  Aside
  <2> DEFINE A == [job[s] EXCEPT !.answer = answer]
             B == [A EXCEPT !.changed = changed]
  <2>1. Record(s, B)
    <3>1. B = [job[s] EXCEPT !.answer = answer, !.changed = changed]
        BY <1>2 DEF JobState
    <3>2. QED
        BY <1>7, <3>1, Zenon
  <2>2. A \in JobState /\ A.account = job[s].account
      BY <1>2, <1>7 DEF JobState
  <2> HIDE DEF A
  <2>3. B \in JobState /\ B.account = job[s].account
      BY <1>7, <2>2 DEF JobState
  <2> HIDE DEF B
  <2>4. QED
      BY <1>1, <1>2, <1>7, <2>1, <2>3, RecordAside
<1>8. CASE ProbeAnswer(s)
  <2>1. PICK changed \in BOOLEAN :
            changed = (disk[s][job[s].account] \notin {0, job[s].before})
      OBVIOUS
  <2>2. PICK answer \in {"supported", "unsupported"} :
            Record(s, [job[s] EXCEPT !.answer = answer, !.changed = changed])
      BY <1>8, <2>1, Zenon DEF ProbeAnswer
  <2>3. job[s].pc # "idle" /\ UNCHANGED <<disk, current>>
      BY <1>8 DEF ProbeAnswer
  <2>4. QED
      BY <1>7, <2>2, <2>3, Zenon DEF Answer
<1>9. CASE ProbeRefused(s)
  <2>1. PICK changed \in BOOLEAN :
            changed = (disk[s][job[s].account] \notin {0, job[s].before})
      OBVIOUS
  <2>2. Record(s, [job[s] EXCEPT !.answer = "refresh_invalid", !.changed = changed])
      BY <1>9, <2>1, Zenon DEF ProbeRefused
  <2>3. job[s].pc # "idle" /\ UNCHANGED <<disk, current>>
      BY <1>9 DEF ProbeRefused
  <2>4. QED
      BY <1>7, <2>2, <2>3, Zenon DEF Answer
<1>10. ASSUME NEW a \in Account, ProbeStart(s, a)
       PROVE  Aside
  <2>1. /\ disk' = Materialized(s, db)
        /\ job' = [job EXCEPT ![s] = [NoJob EXCEPT !.pc = "asked", !.account = a,
                                                   !.before = disk'[s][a]]]
        /\ UNCHANGED <<db, tx, lock, clock, issued, held, lapsed, current,
                       accepted, ended, revoked, raced>>
      BY <1>10, Zenon DEF ProbeStart
  <2>2. disk' \in [Server -> [Account -> Nat]]
      BY <1>3, <2>1
  <2>3. PICK before \in Nat : before = disk'[s][a]
      BY <2>2
  <2> DEFINE A == [NoJob EXCEPT !.pc = "asked", !.account = a, !.before = before]
  <2>4. A \in JobState /\ A.account = a /\ A.pc = "asked"
      BY DEF NoJob, JobState, Answer
  <2>5. job' = [job EXCEPT ![s] = A]
      BY <2>1, <2>3
  <2> HIDE DEF A
  <2>6. /\ job' \in [Server -> JobState]
        /\ job'[s].account \in Account /\ job'[s].pc # "answered"
        /\ \A t \in Server \ {s} : job'[t] = job[t]
      BY <1>2, <2>4, <2>5
  <2>7. QED
      BY <1>2, <1>4, <2>1, <2>2, <2>6
<1>11. QED
    BY <1>5, <1>6, <1>8, <1>9, <1>10

\* So are the reports of clients.
LEMMA ReportAside ==
    ASSUME PgInv, NEW s \in Server,
           \/ \E l \in Held : HolderReport(s, l)
           \/ \E a \in Account : OwnerReport(s, a)
    PROVE  Aside
<1>1. PgTypeOK /\ LeasesIssued /\ db \in [Account -> Row]
    BY DEF PgInv, PgTypeOK
<1>2. Materialized(s, db) \in [Server -> [Account -> Nat]]
    BY <1>1, MaterializedTyped
<1>3. ASSUME NEW l \in Held, HolderReport(s, l)
      PROVE  Aside
  <2>1. PICK a \in Account : a = held[l].account
      BY <1>1 DEF LeasesIssued
  <2> DEFINE A == [NoJob EXCEPT !.account = a]
  <2>2. A \in JobState /\ A.account = a
      BY DEF NoJob, JobState, Answer
  <2>3. Record(s, A) /\ disk' = Materialized(s, db) /\ UNCHANGED current
      BY <1>3, <2>1, Zenon DEF HolderReport
  <2> HIDE DEF A
  <2>4. QED
      BY <1>1, <1>2, <2>2, <2>3, RecordAside
<1>4. ASSUME NEW a \in Account, OwnerReport(s, a)
      PROVE  Aside
  <2>1. PICK answer \in Answer :
            /\ Record(s, [NoJob EXCEPT !.account = a, !.answer = answer, !.flip = TRUE])
            /\ UNCHANGED <<disk, current>>
      BY <1>4, Zenon DEF OwnerReport
  <2> DEFINE A == [NoJob EXCEPT !.account = a, !.answer = answer, !.flip = TRUE]
  <2>2. A \in JobState /\ A.account = a
      BY DEF NoJob, JobState, Answer
  <2> HIDE DEF A
  <2>3. disk' \in [Server -> [Account -> Nat]]
      BY <1>1, <2>1 DEF PgTypeOK
  <2>4. QED
      BY <1>1, <2>1, <2>2, <2>3, RecordAside DEF A
<1>5. QED
    BY <1>3, <1>4

\* So are the end of a term, and the provider's renewal of a client's auth.
LEMMA OutsideAside ==
    ASSUME PgInv, NEW l \in 1..MaxLeases, Lapse(l) \/ CodexRotates(l)
    PROVE  Aside
<1>1. PgTypeOK /\ LeasesIssued
    BY DEF PgInv
<1>2. UNCHANGED <<db, tx, lock, job, clock, disk, issued, accepted, ended, revoked, raced>>
    BY DEF Lapse, CodexRotates
<1>3. /\ clock' \in {clock, clock + 1} /\ disk' \in [Server -> [Account -> Nat]]
      /\ job' \in [Server -> JobState]
    BY <1>1, <1>2 DEF PgTypeOK
<1>4. CASE Lapse(l)
  <2>1. lapsed' \in SUBSET (1..issued) /\ lapsed \subseteq lapsed'
      BY <1>1, <1>4 DEF PgTypeOK, Lapse
  <2>2. held' = held /\ current' = current
      BY <1>4 DEF Lapse
  <2>3. /\ held' \in [1..MaxLeases -> Hold] /\ current' \in [Account -> Nat]
        /\ \A k \in Held' : k \in Held /\ held'[k].account = held[k].account
      BY <1>1, <2>2 DEF PgTypeOK, Held
  <2>4. QED
      BY <1>2, <1>3, <2>1, <2>3 DEF Aside
<1>5. CASE CodexRotates(l)
  <2>1. PICK a : a = held[l].account
      OBVIOUS
  <2>2. /\ held[l] # NoHold /\ lapsed' = lapsed
        /\ current' = [current EXCEPT ![a] = @ + 1]
        /\ held' = [held EXCEPT ![l].auth = current[a] + 1]
      BY <1>5, <2>1 DEF CodexRotates
  <2>3. l \in Held /\ a \in Account /\ held[l] \in Hold /\ current[a] \in Nat
      BY <1>1, <2>1, <2>2 DEF LeasesIssued, Held, PgTypeOK
  <2>4. PICK next \in Nat : next = current[a] + 1
      BY <2>3
  <2> DEFINE A == [held[l] EXCEPT !.auth = next]
  <2>5. A \in Hold /\ A.account = held[l].account
      BY <2>3 DEF Hold
  <2>6. held' = [held EXCEPT ![l] = A]
      BY <2>2, <2>4
  <2> HIDE DEF A
  <2>7. /\ held' \in [1..MaxLeases -> Hold]
        /\ \A k \in Held' : k \in Held /\ held'[k].account = held[k].account
      BY <1>1, <2>3, <2>5, <2>6 DEF PgTypeOK, Held
  <2>8. current' \in [Account -> Nat]
      BY <1>1, <2>2, <2>3 DEF PgTypeOK
  <2>9. lapsed' \in SUBSET (1..issued)
      BY <1>1, <2>2 DEF PgTypeOK
  <2>10. QED
      BY <1>2, <1>3, <2>2, <2>7, <2>8, <2>9 DEF Aside
<1>6. QED
    BY <1>4, <1>5

-----------------------------------------------------------------------------
(* The steps that write rows of the database: Save, Delete and Commit      *)

\* Server s is about to save the claim of lease l.
Claims(s, l) == l # 0 /\ tx[s].pc = "decided" /\ tx[s].op = "claim" /\ tx[s].lease = l

\* Row a stays as it is, but for the status and the auth, or it is deleted, with
\* the history of its uploads, or it is written under a later time: it counts up
\* then, and loses a live lease only to an operator.
Moves(a) ==
    \/ Alike(db'[a], db[a])
    \/ /\ db[a].present /\ ~ db'[a].present
       /\ db'[a].lease = 0 /\ db[a].lease \in {0} \cup revoked'
       /\ \A u \in accepted' : u.account # a
    \/ /\ \/ db[a].present
          \/ \E s \in Server : Adds(s, a) /\ db'[a].stamp = tx[s].now
       /\ db'[a].present
       /\ db'[a].stamp > db[a].stamp /\ db'[a].generation >= db[a].generation
       /\ \/ db'[a].lease = db[a].lease
          \/ db'[a].lease = 0 /\ db[a].lease \in {0} \cup revoked'
          \/ /\ db[a].lease \notin Live
             /\ db'[a].lease = 0 \/ \E s \in Server : Claims(s, db'[a].lease)

\* The operation of t goes on, and knows which rows were written.
Told(t) ==
    /\ tx'[t].pc = tx[t].pc /\ tx'[t].op = tx[t].op /\ tx'[t].lease = tx[t].lease
    /\ tx'[t].rows = tx[t].rows /\ tx'[t].now = tx[t].now
    /\ tx'[t].generation = tx[t].generation
    /\ tx[t].pc # "idle" => tx'[t].overtaken = tx[t].overtaken \cup Overwritten(db')
    /\ tx[t].pc = "idle" => tx'[t] = tx[t]

\* The operation of t is over, or has its first save behind it.
Rests(t) ==
    /\ tx'[t].pc = "idle" => tx'[t] = NoTx
    /\ tx'[t].pc # "idle" => tx'[t].pc = "again" /\ tx'[t].op = "settings"
    /\ tx'[t].lease = 0 /\ tx'[t].now = 0 /\ \A a \in Account : tx'[t].rows[a] = NoRow

\* Every row, one that was raced for too, has a lease that it is known to have,
\* and a time that no result waits for.
RowsKnown ==
    /\ db' \in [Account -> Row]
    /\ \A a \in Account : /\ \/ db'[a].lease \in {0, db[a].lease}
                             \/ \E s \in Server : /\ Rests(s)
                                                 /\ db'[a].lease = tx[s].rows[a].lease
                          /\ Bare(db'[a])
                          /\ db'[a].stamp <= clock
                          /\ \A t \in Server : job'[t].pc = "answered" =>
                                                  db'[a].stamp # job'[t].stamp

\* A client goes by the lease it had, or is handed one that is on its row.
HoldersKnown ==
    /\ held' \in [1..MaxLeases -> Hold]
    /\ \A l \in Held' :
          \/ l \in Held /\ held'[l].account = held[l].account
          \/ /\ \E s \in Server : Claims(s, l)
             /\ held'[l].account \in Account
             /\ held'[l].account \notin raced' => db'[held'[l].account].lease = l

\* Of one account, one upload is accepted at a time, and counts up the row.
UploadsKnown ==
    /\ accepted' \in SUBSET Hold
    /\ \A u, v \in accepted' \ accepted : u.account = v.account => u = v
    /\ \A u \in accepted' \ accepted :
          /\ u.account \in Account
          /\ u.account \notin raced' =>
                /\ db[u.account].generation = u.generation
                /\ db'[u.account].generation = u.generation + 1

\* What holds of every step that writes rows.
Writes ==
    /\ RowsKnown /\ HoldersKnown /\ UploadsKnown
    /\ raced \subseteq raced' /\ raced' \in SUBSET Account
    /\ \A a \in Account \ raced' : Moves(a)
    /\ tx' \in [Server -> TxState] /\ \A t \in Server : Rests(t) \/ Told(t)
    /\ ended' = ended \cup Cleared(db')
    /\ revoked \subseteq revoked' /\ revoked' \subseteq ended'
    /\ disk' \in [Server -> [Account -> Nat]] /\ job' \in [Server -> JobState]
    /\ \A t \in Server : job'[t].pc # "idle" => job'[t] = job[t]
    /\ lock' \in Server \cup {NoServer}
    /\ \A t \in Server : lock' = t <=> tx'[t].pc # "idle" /\ tx'[t].op \in LeaseOperation
    /\ UNCHANGED <<clock, issued, lapsed, current>>

\* What an operation under way has, after such a step.
LEMMA TxAfter ==
    ASSUME PgInv, Writes, NEW t \in Server
    PROVE  /\ tx'[t].lease \in {0, tx[t].lease} /\ tx'[t].now \in {0, tx[t].now}
           /\ \A a \in Account :
                 \/ tx'[t].rows[a] = tx[t].rows[a]
                 \/ tx'[t].rows[a] = NoRow
           /\ tx'[t].pc \in {"loaded", "decided"} => Told(t)
<1>1. Rests(t) \/ Told(t)
    BY DEF Writes
<1>2. QED
    BY <1>1 DEF Rests, Told

\* A step that writes rows keeps to the types, and names leases that were issued.
LEMMA WritesTyped ==
    ASSUME PgInv, Writes
    PROVE  (PgTypeOK /\ LeasesIssued)'
<1>1. PgTypeOK /\ LeasesIssued
    BY DEF PgInv
<1>2. /\ issued \in Nat /\ NoRow.lease = 0 /\ issued' = issued
      /\ \A a \in Account : db[a].lease \in Nat /\ db[a].lease <= issued
      /\ \A t \in Server : /\ tx[t].lease \in Nat /\ tx[t].lease <= issued
                           /\ \A a \in Account : tx[t].rows[a].lease <= issued
    BY <1>1 DEF PgTypeOK, LeasesIssued, Row, NoRow, TxState, Writes
<1>3. Cleared(db') \subseteq 1..issued
    BY <1>1, <1>2 DEF Cleared
<1>4. PgTypeOK'
    BY <1>1, <1>3 DEF PgTypeOK, Writes, RowsKnown, HoldersKnown, UploadsKnown
<1>5. \A a \in Account : db'[a].lease <= issued
    BY <1>2 DEF Writes, RowsKnown
<1>6. \A t \in Server : /\ tx'[t].lease <= issued
                        /\ \A a \in Account : tx'[t].rows[a].lease <= issued
    BY <1>2, TxAfter
<1>7. \A l \in Held' : l <= issued /\ held'[l].account \in Account
  <2>1. ASSUME NEW l \in Held'
        PROVE  l <= issued /\ held'[l].account \in Account
    <3>1. CASE l \in Held /\ held'[l].account = held[l].account
        BY <1>1, <3>1 DEF LeasesIssued
    <3>2. CASE /\ \E s \in Server : Claims(s, l)
               /\ held'[l].account \in Account
        BY <1>2, <3>2 DEF Claims
    <3>3. QED
        BY <3>1, <3>2 DEF Writes, HoldersKnown
  <2>2. QED
      BY <2>1
<1>8. QED
    BY <1>2, <1>4, <1>5, <1>6, <1>7 DEF LeasesIssued

\* It puts no lease on two accounts, and uses no time of a result.
LEMMA WritesHome ==
    ASSUME PgInv, Writes
    PROVE  (OneHome /\ AbsentBare /\ Stamped)'
<1>1. PgTypeOK /\ OneHome /\ AbsentBare /\ Stamped
    BY DEF PgInv
<1>2. NoRow.lease = 0 /\ Bare(NoRow) /\ NoRow.stamp = 0 /\ clock \in Nat
    BY <1>1 DEF NoRow, Bare, PgTypeOK
<1>3. \A t \in Server, a \in Account :
         tx'[t].rows[a] = tx[t].rows[a] \/ tx'[t].rows[a] = NoRow
    BY TxAfter
<1>4. OneHome'
  <2>1. \A a \in Account : db'[a].lease \in Named(a) \cup {0}
      BY DEF Writes, RowsKnown, Named
  <2>2. ASSUME NEW a \in Account
        PROVE  Named(a)' \subseteq Named(a) \cup {0}
    <3>1. \A t \in Server : tx'[t].rows[a].lease \in {0, tx[t].rows[a].lease}
        BY <1>2, <1>3
    <3>2. Named(a)' = {db'[a].lease} \cup {tx'[t].rows[a].lease : t \in Server}
        BY DEF Named
    <3>3. \A t \in Server : tx[t].rows[a].lease \in Named(a)
        BY DEF Named
    <3>4. QED
        BY <2>1, <3>1, <3>2, <3>3
  <2>3. QED
      BY <1>1, <2>2 DEF OneHome
<1>5. AbsentBare'
  <2>1. \A a \in Account : Bare(db'[a])
      BY DEF Writes, RowsKnown
  <2>2. \A a \in Account, t \in Server : Bare(tx[t].rows[a])
      BY <1>1 DEF AbsentBare
  <2>3. \A a \in Account, t \in Server : Bare(tx'[t].rows[a])
      BY <1>2, <1>3, <2>2
  <2>4. QED
      BY <2>1, <2>3 DEF AbsentBare, Bare
<1>6. /\ clock' = clock
      /\ \A a \in Account :
            /\ db'[a].stamp <= clock
            /\ \A t \in Server : job'[t].pc = "answered" => db'[a].stamp # job'[t].stamp
      /\ \A t \in Server : job'[t].pc # "idle" => job'[t] = job[t]
    BY DEF Writes, RowsKnown
<1>7. \A t \in Server : /\ tx'[t].now <= clock
                        /\ \A a \in Account : tx'[t].rows[a].stamp <= clock
  <2>1. \A t \in Server : tx'[t].now \in {0, tx[t].now}
      BY TxAfter
  <2>2. QED
      BY <1>1, <1>2, <1>3, <2>1 DEF Stamped
<1>8. ASSUME NEW j \in Server
      PROVE  (/\ job[j].pc # "idle" => job[j].account \in Account
              /\ job[j].pc = "answered" =>
                   /\ job[j].stamp \in 1..clock
                   /\ \A a \in Account :
                         /\ db[a].stamp # job[j].stamp
                         /\ \A t \in Server : tx[t].rows[a].stamp # job[j].stamp
                   /\ \A t \in Server \ {j} :
                         job[t].pc = "answered" => job[t].stamp # job[j].stamp)'
  <2>1. job'[j].pc # "idle" => job'[j].account \in Account
      BY <1>1, <1>6 DEF Stamped
  <2>2. ASSUME job'[j].pc = "answered"
        PROVE  /\ job'[j].stamp \in 1..clock /\ job'[j].stamp # 0
               /\ \A a \in Account, t \in Server : tx[t].rows[a].stamp # job'[j].stamp
               /\ \A t \in Server \ {j} :
                     job[t].pc = "answered" => job[t].stamp # job'[j].stamp
    <3>1. job'[j] = job[j] /\ job[j].pc = "answered"
        BY <1>6, <2>2
    <3>2. /\ job[j].stamp \in 1..clock
          /\ \A a \in Account, t \in Server : tx[t].rows[a].stamp # job[j].stamp
          /\ \A t \in Server \ {j} : job[t].pc = "answered" => job[t].stamp # job[j].stamp
        BY <1>1, <3>1, Zenon DEF Stamped
    <3>3. QED
        BY <1>2, <3>1, <3>2
  <2>3. ASSUME job'[j].pc = "answered", NEW a \in Account, NEW t \in Server
        PROVE  tx'[t].rows[a].stamp # job'[j].stamp
      BY <1>2, <1>3, <2>2, <2>3
  <2>4. ASSUME job'[j].pc = "answered", NEW t \in Server \ {j}, job'[t].pc = "answered"
        PROVE  job'[t].stamp # job'[j].stamp
      BY <1>6, <2>2, <2>4
  <2>5. job'[j].pc = "answered" => /\ job'[j].stamp \in 1..clock'
                                   /\ \A a \in Account : db'[a].stamp # job'[j].stamp
      BY <1>6, <2>2
  <2>6. QED
      BY <2>1, <2>3, <2>4, <2>5, Zenon
<1>9. Stamped'
    BY <1>6, <1>7, <1>8 DEF Stamped
<1>10. QED
    BY <1>4, <1>5, <1>9

\* A lease that gets live with such a step is one that was claimed, and that no
\* row of the database had.
LEMMA LiveAfter ==
    ASSUME PgInv, Writes, NEW l \in Live'
    PROVE  /\ \/ l \in Live /\ held'[l].account = held[l].account
              \/ /\ \A a \in Account : db[a].lease # l
                 /\ held'[l].account \notin raced' => db'[held'[l].account].lease = l
           /\ l # 0
<1>1. ClaimsFresh
    BY DEF PgInv
<1>2. l \in Held' /\ l \notin lapsed /\ l # 0
    BY DEF Writes, Live, Held
<1>3. CASE l \in Held /\ held'[l].account = held[l].account
    BY <1>2, <1>3 DEF Live
<1>4. CASE /\ \E s \in Server : Claims(s, l)
           /\ held'[l].account \notin raced' => db'[held'[l].account].lease = l
  <2>1. \A a \in Account : db[a].lease # l
      BY <1>1, <1>4 DEF Claims, ClaimsFresh
  <2>2. QED
      BY <1>2, <1>4, <2>1
<1>5. QED
    BY <1>2, <1>3, <1>4 DEF Writes, HoldersKnown

\* After such a step the rows of the other operations are still up to date, or
\* they lose, or race.
LEMMA WritesRows ==
    ASSUME PgInv, Writes
    PROVE  RowsUpToDate'
<1>1. ASSUME NEW t \in Server, NEW a \in Account \ raced',
             tx'[t].pc \in {"loaded", "decided"}
      PROVE  UpToDate(t, a)'
  <2>1. /\ a \notin raced /\ Told(t) /\ Moves(a)
        /\ tx'[t].overtaken = tx[t].overtaken \cup Overwritten(db')
      BY <1>1, TxAfter DEF Writes, Told
  <2>2. UpToDate(t, a)
      BY <1>1, <2>1 DEF PgInv, RowsUpToDate, Told
  <2>3. PICK row \in Row : row = tx[t].rows[a] /\ row = tx'[t].rows[a]
      BY <2>1 DEF PgInv, PgTypeOK, TxState, Told
  <2>4. PICK old \in Row : old = db[a]
      BY DEF PgInv, PgTypeOK
  <2>5. PICK new \in Row : new = db'[a]
      BY DEF Writes, RowsKnown
  <2>6. /\ a \in Overwritten(db') <=> new.stamp # old.stamp \/ new.present # old.present
        /\ old.stamp \in Nat /\ new.stamp \in Nat /\ row.stamp \in Nat
        /\ tx'[t].now = tx[t].now /\ tx'[t].pc = tx[t].pc /\ tx'[t].op = tx[t].op
        /\ tx'[t].lease = tx[t].lease
      BY <2>1, <2>4, <2>5 DEF Overwritten, Row, Told
  <2>7. \/ Alike(new, old)
        \/ old.present /\ ~ new.present
        \/ /\ new.present /\ new.stamp > old.stamp
           /\ \/ old.present
              \/ \E s \in Server : Adds(s, a) /\ new.stamp = tx[s].now
      BY <2>1, <2>4, <2>5 DEF Moves
  <2>8. CASE a \notin tx'[t].overtaken
    <3>1. Alike(new, old) /\ a \notin tx[t].overtaken
        BY <2>1, <2>6, <2>7, <2>8
    <3>2. CASE Alike(row, old)
      <4>1. Alike(row, new)
          BY <3>1, <3>2 DEF Alike
      <4>2. QED
          BY <2>3, <2>5, <2>8, <4>1 DEF UpToDate
    <3>3. CASE Changed(t, a)
      <4>1. old.lease \notin Live => old.lease \notin Live'
          BY <2>4, LiveAfter
      <4>2. Changed(t, a)'
          BY <2>3, <2>4, <2>5, <2>6, <3>1, <3>3, <4>1 DEF Changed, Alike
      <4>3. QED
          BY <2>8, <4>2 DEF UpToDate
    <3>4. QED
        BY <2>2, <2>3, <2>4, <3>1, <3>2, <3>3 DEF UpToDate
  <2>9. CASE a \in tx'[t].overtaken
    <3>1. CASE a \in tx[t].overtaken
      <4>1. \/ ~ row.present \/ ~ old.present \/ row.stamp < old.stamp
            \/ tx[t].pc = "decided" /\ row.stamp = tx[t].now
          BY <2>2, <2>3, <2>4, <3>1 DEF UpToDate
      <4>2. ASSUME NEW s \in Server, Adds(s, a), new.stamp = tx[s].now
            PROVE  \/ ~ row.present \/ row.stamp < new.stamp
                   \/ tx[t].pc = "decided" /\ row.stamp = tx[t].now
        <5>1. AddsLater /\ a \in Account \ raced
            BY <1>1, <2>1 DEF PgInv
        <5>2. tx[t].rows[a].present =>
                 \/ tx[t].rows[a].stamp < tx[s].now
                 \/ tx[t].pc = "decided" /\ tx[t].rows[a].stamp = tx[t].now
            BY <4>2, <5>1 DEF AddsLater
        <5>3. QED
            BY <2>3, <4>2, <5>2
      <4>3. \/ ~ row.present \/ ~ new.present \/ row.stamp < new.stamp
            \/ tx[t].pc = "decided" /\ row.stamp = tx[t].now
          BY <2>6, <2>7, <4>1, <4>2 DEF Alike
      <4>4. QED
          BY <2>3, <2>5, <2>6, <2>9, <4>3 DEF UpToDate
    <3>2. CASE a \notin tx[t].overtaken
      <4>1. new.stamp # old.stamp \/ new.present # old.present
          BY <2>1, <2>6, <2>9, <3>2
      <4>2. ~ new.present \/ new.stamp > old.stamp
          BY <2>7, <4>1 DEF Alike
      <4>3. CASE Alike(row, old)
        <5>1. ~ new.present \/ row.stamp < new.stamp
            BY <2>6, <4>2, <4>3 DEF Alike
        <5>2. QED
            BY <2>3, <2>5, <2>6, <2>9, <5>1 DEF UpToDate
      <4>4. CASE Changed(t, a)
          BY <2>3, <2>6, <2>9, <4>4 DEF UpToDate, Changed
      <4>5. QED
          BY <2>2, <2>3, <2>4, <3>2, <4>3, <4>4 DEF UpToDate
    <3>3. QED
        BY <3>1, <3>2
  <2>10. QED
      BY <2>8, <2>9
<1>2. QED
    BY <1>1 DEF RowsUpToDate

\* What the operations under way are about to save is still so.
LEMMA WritesOperations ==
    ASSUME PgInv, Writes
    PROVE  (AddsLater /\ Placed /\ ClaimsFresh /\ UploadsCount /\ LeaseBegun
            /\ ReleasesGiven /\ IdleIsBare)'
<1>1. /\ PgTypeOK /\ AddsLater /\ Placed /\ ClaimsFresh /\ UploadsCount /\ LeaseBegun /\ ReleasesGiven
      /\ IdleIsBare /\ OneHome
    BY DEF PgInv
<1>2. \A t \in Server : tx'[t].pc \in {"loaded", "decided"} => Told(t)
    BY TxAfter
<1>3. Placed'
    BY <1>1, <1>2 DEF Placed, Told
<1>4. LeaseBegun'
    BY <1>1, <1>2 DEF LeaseBegun, Told
<1>5. IdleIsBare'
    BY <1>1 DEF IdleIsBare, Writes, Rests, Told
<1>6. ReleasesGiven'
  <2>1. ASSUME NEW t \in Server, tx'[t].pc # "idle", tx'[t].op = "release",
               tx'[t].lease \in Held'
        PROVE  FALSE
    <3>1. /\ tx[t].pc # "idle" /\ tx[t].op = "release" /\ tx[t].lease \notin Held
          /\ tx'[t].lease = tx[t].lease
        BY <1>1, <2>1 DEF ReleasesGiven, Writes, Rests, Told
    <3>2. PICK s \in Server : Claims(s, tx[t].lease)
        BY <2>1, <3>1 DEF Writes, HoldersKnown
    <3>3. lock = s /\ lock = t
        BY <1>1, <3>1, <3>2 DEF PgTypeOK, Claims, LeaseOperation
    <3>4. QED
        BY <3>1, <3>2, <3>3 DEF Claims
  <2>2. QED
      BY <2>1 DEF ReleasesGiven
<1>7. ClaimsFresh'
  <2>1. ASSUME NEW t \in Server, tx'[t].pc = "decided", tx'[t].op = "claim",
               tx'[t].lease # 0
        PROVE  /\ tx'[t].lease \notin ended'
               /\ \A b \in Account :
                     /\ db'[b].lease # tx'[t].lease
                     /\ \A s \in Server \ {t} : tx'[s].rows[b].lease # tx'[t].lease
    <3>1. /\ tx'[t].lease = tx[t].lease /\ tx[t].pc = "decided" /\ tx[t].op = "claim"
          /\ tx'[t].rows = tx[t].rows
        BY <1>2, <2>1 DEF Told
    <3>2. /\ tx[t].lease \notin ended
          /\ \A b \in Account :
                /\ db[b].lease # tx[t].lease
                /\ \A s \in Server \ {t} : tx[s].rows[b].lease # tx[t].lease
        BY <1>1, <2>1, <3>1 DEF ClaimsFresh
    <3>3. tx'[t].lease \notin ended'
        BY <3>1, <3>2 DEF Writes, Cleared
    <3>4. ASSUME NEW b \in Account, NEW s \in Server \ {t}
          PROVE  tx'[s].rows[b].lease # tx'[t].lease
        BY <2>1, <3>1, <3>2, TxAfter DEF NoRow
    <3>5. ASSUME NEW b \in Account
          PROVE  db'[b].lease # tx'[t].lease
      <4>1. ~ Rests(t)
          BY <2>1 DEF Rests
      <4>2. \A s \in Server : Rests(s) => tx[s].rows[b].lease # tx[t].lease
          BY <3>2, <4>1
      <4>3. QED
          BY <2>1, <3>1, <3>2, <4>2 DEF Writes, RowsKnown
    <3>6. QED
        BY <3>3, <3>4, <3>5
  <2>2. QED
      BY <2>1 DEF ClaimsFresh
<1>8. UploadsCount'
  <2>1. ASSUME NEW t \in Server, NEW a \in Account \ raced',
               tx'[t].pc = "decided", tx'[t].op = "upload", tx'[t].lease # 0,
               tx'[t].rows[a].lease = tx'[t].lease, a \notin tx'[t].overtaken
        PROVE  /\ db'[a].generation = tx'[t].generation
               /\ tx'[t].rows[a].generation = tx'[t].generation + 1
    <3>1. /\ Told(t) /\ a \notin raced /\ Moves(a)
          /\ tx'[t].overtaken = tx[t].overtaken \cup Overwritten(db')
        BY <1>2, <2>1 DEF Writes, Told
    <3>2. /\ db[a].generation = tx[t].generation
          /\ tx[t].rows[a].generation = tx[t].generation + 1
        BY <1>1, <2>1, <3>1 DEF UploadsCount, Told
    <3>3. db'[a].stamp = db[a].stamp /\ db'[a].present = db[a].present
        BY <2>1, <3>1 DEF Overwritten
    <3>4. db[a].stamp \in Nat /\ db'[a].stamp \in Nat
        BY <1>1 DEF PgTypeOK, Row, Writes, RowsKnown
    <3>5. Alike(db'[a], db[a])
        BY <3>1, <3>3, <3>4 DEF Moves
    <3>6. QED
        BY <3>1, <3>2, <3>5 DEF Told, Alike
  <2>2. QED
      BY <2>1 DEF UploadsCount
<1>9. AddsLater'
  <2>1. ASSUME NEW s \in Server, NEW t \in Server, NEW a \in Account \ raced',
               Adds(s, a)', tx'[t].rows[a].present
        PROVE  \/ tx'[t].rows[a].stamp < tx'[s].now
               \/ tx'[t].pc = "decided" /\ tx'[t].rows[a].stamp = tx'[t].now
    <3>1. Told(s) /\ a \notin raced
        BY <1>2, <2>1 DEF Adds, Writes
    <3>2. ~ Rests(t)
        BY <2>1 DEF Rests, NoRow
    <3>3. Told(t)
        BY <3>2 DEF Writes
    <3>4. a \notin Overwritten(db') /\ a \notin tx[s].overtaken /\ tx[s].pc = "decided"
        BY <2>1, <3>1 DEF Adds, Told
    <3>5. db'[a].present = db[a].present
        BY <3>4 DEF Overwritten
    <3>6. Adds(s, a)
        BY <2>1, <3>1, <3>4, <3>5 DEF Adds, Told
    <3>7. QED
        BY <1>1, <2>1, <3>1, <3>3, <3>6 DEF AddsLater, Told
  <2>2. QED
      BY <2>1 DEF AddsLater
<1>10. QED
    BY <1>3, <1>4, <1>5, <1>6, <1>7, <1>8, <1>9

\* The leases that were taken off their row, by this step or before, are on no
\* row after it.
LEMMA WritesEnded ==
    ASSUME PgInv, Writes
    PROVE  EndedGone'
<1>1. PgTypeOK /\ OneHome /\ EndedGone /\ ClaimsFresh
    BY DEF PgInv
<1>2. ASSUME NEW a \in Account \ raced'
      PROVE  db'[a].lease \notin ended'
  <2>1. a \notin raced /\ Moves(a) /\ ended' = ended \cup Cleared(db')
      BY DEF Writes
  <2>2. \/ db'[a].lease \in {0, db[a].lease}
        \/ \E s \in Server : Claims(s, db'[a].lease)
      BY <2>1 DEF Moves, Alike
  <2>3. 0 \notin ended /\ 0 \notin Cleared(db')
      BY <1>1 DEF PgTypeOK, Cleared
  <2>4. CASE db'[a].lease = db[a].lease /\ db[a].lease # 0
    <3>1. db[a].lease \notin ended
        BY <1>1, <2>1 DEF EndedGone
    <3>2. ASSUME db[a].lease \in Cleared(db')
          PROVE  FALSE
      <4>1. PICK b \in Account : db[b].lease \notin {0, db'[b].lease} /\ db[b].lease = db[a].lease
          BY <3>2 DEF Cleared
      <4>2. a # b
          BY <2>4, <4>1
      <4>3. db[a].lease \in Named(a) /\ db[a].lease \in Named(b)
          BY <4>1 DEF Named
      <4>4. QED
          BY <1>1, <2>4, <4>2, <4>3 DEF OneHome
    <3>3. QED
        BY <2>1, <2>4, <3>1, <3>2
  <2>5. ASSUME NEW s \in Server, Claims(s, db'[a].lease)
        PROVE  db'[a].lease \notin ended'
    <3>1. db'[a].lease \notin ended /\ \A b \in Account : db[b].lease # db'[a].lease
        BY <1>1, <2>5 DEF ClaimsFresh, Claims
    <3>2. QED
        BY <2>1, <3>1 DEF Cleared
  <2>6. QED
      BY <2>1, <2>2, <2>3, <2>4, <2>5
<1>3. QED
    BY <1>2 DEF EndedGone

\* The live leases of clients are on their rows after it.
LEMMA WritesHolders ==
    ASSUME PgInv, Writes
    PROVE  HoldersRecorded'
<1>1. PgTypeOK /\ HoldersRecorded /\ AbsentBare /\ LeasesIssued
    BY DEF PgInv
<1>2. ASSUME NEW l \in Live' \ revoked', NEW a, a = held'[l].account, a \notin raced'
      PROVE  db'[a].lease = l
  <2>1. CASE l \in Live /\ held'[l].account = held[l].account
    <3>1. /\ a \in Account /\ a \notin raced /\ Moves(a)
          /\ l \notin revoked /\ l # 0
        BY <1>1, <1>2, <2>1, LiveAfter DEF LeasesIssued, Live, Writes
    <3>2. db[a].lease = l
        BY <1>1, <1>2, <2>1, <3>1 DEF HoldersRecorded
    <3>3. QED
        BY <1>2, <2>1, <3>1, <3>2 DEF Moves, Alike
  <2>2. QED
      BY <1>2, <2>1, LiveAfter
<1>3. QED
    BY <1>2 DEF HoldersRecorded

\* The rows are past the uploads that were accepted, and of one generation one
\* was.
LEMMA WritesUploads ==
    ASSUME PgInv, Writes
    PROVE  (AcceptedKnown /\ AcceptedBelow /\ UploadsInTurn)'
<1>1. PgTypeOK /\ AcceptedKnown /\ AcceptedBelow /\ UploadsInTurn
    BY DEF PgInv
<1>2. /\ \A u, v \in accepted' \ accepted : u.account = v.account => u = v
      /\ \A u \in accepted' \ accepted :
            /\ u.account \in Account
            /\ u.account \notin raced' =>
                  /\ db[u.account].generation = u.generation
                  /\ db'[u.account].generation = u.generation + 1
      /\ \A u \in accepted' : u.generation \in Nat
      /\ raced \subseteq raced'
    BY DEF Writes, UploadsKnown, Hold
<1>3. AcceptedKnown'
    BY <1>1, <1>2 DEF AcceptedKnown
<1>4. \A a \in Account \ raced' :
         /\ db[a].generation \in Nat /\ db'[a].generation \in Nat
         /\ \/ db'[a].generation >= db[a].generation
            \/ \A u \in accepted' : u.account # a
  <2>1. \A a \in Account : db[a].generation \in Nat /\ db'[a].generation \in Nat
      BY <1>1 DEF Writes, PgTypeOK, Row, RowsKnown
  <2>2. \A a \in Account \ raced' : Moves(a)
      BY DEF Writes
  <2>3. QED
      BY <2>1, <2>2 DEF Moves, Alike
<1>5. AcceptedBelow'
  <2>1. ASSUME NEW u \in accepted', u.account \notin raced'
        PROVE  u.generation < db'[u.account].generation
    <3>1. CASE u \in accepted
      <4>1. u.account \in Account \ raced' /\ u.account \notin raced
          BY <1>1, <1>2, <2>1, <3>1 DEF AcceptedKnown
      <4>2. u.generation < db[u.account].generation
          BY <1>1, <1>4, <2>1, <3>1, <4>1 DEF AcceptedBelow
      <4>3. QED
          BY <1>2, <1>4, <2>1, <4>1, <4>2
    <3>2. CASE u \notin accepted
        BY <1>2, <2>1, <3>2
    <3>3. QED
        BY <3>1, <3>2
  <2>2. QED
      BY <2>1 DEF AcceptedBelow
<1>6. UploadsInTurn'
  <2>1. ASSUME NEW u \in accepted, NEW v \in accepted' \ accepted,
               u.account = v.account, u.account \notin raced',
               u.generation = v.generation
        PROVE  FALSE
    <3>1. /\ db[u.account].generation = u.generation
          /\ u.generation \in Nat /\ u.account \notin raced
        BY <1>2, <2>1
    <3>2. u.generation < db[u.account].generation
        BY <1>1, <3>1 DEF AcceptedBelow
    <3>3. QED
        BY <3>1, <3>2
  <2>2. QED
      BY <1>1, <1>2, <2>1 DEF UploadsInTurn
<1>7. QED
    BY <1>3, <1>5, <1>6

\* A step that writes rows, as a whole.
LEMMA WritesStep ==
    ASSUME PgInv, Writes
    PROVE  /\ PgInv'
           /\ \A a \in Account \ raced' :
                 /\ db'[a].lease \notin ended
                 /\ db[a].present /\ db'[a].present
                    => db'[a].generation >= db[a].generation
<1>1. PgInv'
    BY WritesTyped, WritesHome, WritesRows, WritesOperations, WritesEnded,
       WritesHolders, WritesUploads DEF PgInv
<1>2. \A a \in Account \ raced' : db'[a].lease \notin ended
    BY <1>1 DEF PgInv, EndedGone, Writes
<1>3. ASSUME NEW a \in Account \ raced'
      PROVE  db'[a].generation >= db[a].generation \/ ~ db'[a].present
  <2>1. db[a].generation \in Nat /\ Moves(a)
      BY DEF PgInv, PgTypeOK, Row, Writes
  <2>2. QED
      BY <2>1 DEF Moves, Alike
<1>4. QED
    BY <1>1, <1>2, <1>3

\* An operation that Overtake tells of the rows written.
LEMMA Telling ==
    ASSUME PgTypeOK, NEW ops, NEW rows \in [Account -> Row], NEW t \in Server,
           db' = rows, tx'[t] = Overtake(ops, rows)[t],
           tx[t].pc # "idle" => tx[t].op \in ops
    PROVE  Told(t) /\ tx'[t] \in TxState
<1>1. PICK o : o = Overtake(ops, rows)[t]
    OBVIOUS
<1>2. /\ o \in TxState
      /\ o.pc = tx[t].pc /\ o.op = tx[t].op /\ o.lease = tx[t].lease
      /\ o.rows = tx[t].rows /\ o.now = tx[t].now
      /\ o.generation = tx[t].generation
      /\ o.overtaken = IF tx[t].pc # "idle" /\ tx[t].op \in ops
                       THEN tx[t].overtaken \cup Overwritten(rows)
                       ELSE tx[t].overtaken
      /\ tx[t].pc = "idle" => o = tx[t]
    BY <1>1, Overtaking
<1>3. QED
    BY <1>1, <1>2 DEF Told

\* All operations are told of a row that is written without the advisory lock,
\* and nothing is handed out or accepted.
LEMMA TellsAll ==
    ASSUME PgInv, NEW rows \in [Account -> Row],
           db' = rows, tx' = Overtake(Operation, rows),
           UNCHANGED <<lock, held>>, accepted' \subseteq accepted
    PROVE  /\ tx' \in [Server -> TxState] /\ \A t \in Server : Told(t)
           /\ lock' \in Server \cup {NoServer}
           /\ \A t \in Server : lock' = t <=> tx'[t].pc # "idle" /\ tx'[t].op \in LeaseOperation
           /\ HoldersKnown /\ UploadsKnown
<1>1. PgTypeOK
    BY DEF PgInv
<1>2. \A t \in Server : tx[t].op \in Operation
    BY <1>1 DEF PgTypeOK, TxState
<1>3. \A t \in Server : Told(t) /\ tx'[t] \in TxState
    BY <1>1, <1>2, Telling
<1>4. tx' \in [Server -> TxState]
    BY <1>3 DEF Overtake
<1>5. /\ lock' \in Server \cup {NoServer}
      /\ \A t \in Server : lock' = t <=> tx'[t].pc # "idle" /\ tx'[t].op \in LeaseOperation
  <2>1. /\ lock \in Server \cup {NoServer}
        /\ \A t \in Server : lock = t <=> tx[t].pc # "idle" /\ tx[t].op \in LeaseOperation
      BY <1>1 DEF PgTypeOK
  <2>2. \A t \in Server : tx'[t].pc = tx[t].pc /\ tx'[t].op = tx[t].op
      BY <1>3 DEF Told
  <2>3. QED
      BY <2>1, <2>2
<1>6. HoldersKnown
    BY <1>1 DEF HoldersKnown, PgTypeOK, Held
<1>7. UploadsKnown
    BY <1>1 DEF UploadsKnown, PgTypeOK
<1>8. QED
    BY <1>3, <1>4, <1>5, <1>6, <1>7

\* A deletion is a step that writes rows.
LEMMA DeleteWrites ==
    ASSUME PgInv, NEW s \in Server, NEW a \in Account, Delete(s, a)
    PROVE  Writes
<1>1. PgTypeOK /\ AbsentBare /\ Stamped
    BY DEF PgInv
<1>2. PICK rows : rows = [db EXCEPT ![a] = NoRow]
    OBVIOUS
<1>3. /\ db[a].present /\ db' = rows
      /\ disk' = [Materialized(s, db) EXCEPT ![s][a] = 0]
      /\ tx' = Overtake(Operation, rows)
      /\ accepted' = {u \in accepted : u.account # a}
      /\ ended' = ended \cup Cleared(rows)
      /\ revoked' = revoked \cup Cleared(rows)
      /\ UNCHANGED <<lock, job, clock, issued, held, lapsed, current, raced>>
    BY <1>2, Zenon DEF Delete
<1>4. /\ NoRow \in Row /\ NoRow.lease = 0 /\ NoRow.stamp = 0 /\ ~ NoRow.present
      /\ Bare(NoRow)
    BY DEF NoRow, Row, Status, OwnerMode, Bare
<1>5. db \in [Account -> Row] /\ rows \in [Account -> Row] /\ clock \in Nat
    BY <1>1, <1>2, <1>4 DEF PgTypeOK
<1>6. rows[a] = NoRow /\ \A b \in Account \ {a} : rows[b] = db[b]
    BY <1>2, <1>5
<1>7. /\ tx' \in [Server -> TxState] /\ \A t \in Server : Told(t)
      /\ lock' \in Server \cup {NoServer}
      /\ \A t \in Server : lock' = t <=> tx'[t].pc # "idle" /\ tx'[t].op \in LeaseOperation
      /\ HoldersKnown /\ UploadsKnown
    BY <1>3, <1>5, TellsAll
<1>8. \A b \in Account \ raced' : Moves(b)
  <2>1. db[a].lease \in {0} \cup revoked'
      BY <1>3, <1>4, <1>6 DEF Cleared
  <2>2. Moves(a)
      BY <1>3, <1>4, <1>6, <2>1 DEF Moves
  <2>3. \A b \in Account \ {a} : Moves(b)
      BY <1>3, <1>6 DEF Moves, Alike
  <2>4. QED
      BY <2>2, <2>3
<1>9. RowsKnown
  <2>1. ASSUME NEW t \in Server, job[t].pc = "answered"
        PROVE  job[t].stamp # 0 /\ \A b \in Account : db[b].stamp # job[t].stamp
    <3>1. job[t].stamp \in 1..clock /\ \A b \in Account : db[b].stamp # job[t].stamp
        BY <1>1, <2>1, Zenon DEF Stamped
    <3>2. QED
        BY <1>5, <3>1
  <2>2. \A b \in Account, t \in Server : job[t].pc = "answered" => rows[b].stamp # job[t].stamp
      BY <1>4, <1>6, <2>1
  <2>3. \A b \in Account : /\ rows[b].lease \in {0, db[b].lease}
                           /\ Bare(rows[b])
                           /\ rows[b].stamp <= clock
      BY <1>1, <1>4, <1>5, <1>6 DEF AbsentBare, Stamped
  <2>4. QED
      BY <1>3, <1>5, <2>2, <2>3 DEF RowsKnown
<1>10. disk' \in [Server -> [Account -> Nat]]
  <2>1. PICK files \in [Server -> [Account -> Nat]] : files = Materialized(s, db)
      BY <1>1, <1>5, MaterializedTyped
  <2>2. QED
      BY <1>3, <2>1
<1>11. /\ raced \subseteq raced' /\ raced' \in SUBSET Account
       /\ job' \in [Server -> JobState]
       /\ \A t \in Server : job'[t].pc # "idle" => job'[t] = job[t]
    BY <1>1, <1>3 DEF PgTypeOK
<1>12. /\ ended' = ended \cup Cleared(db')
       /\ revoked \subseteq revoked' /\ revoked' \subseteq ended'
    BY <1>1, <1>3 DEF PgTypeOK
<1>13. QED
    BY <1>3, <1>7, <1>8, <1>9, <1>10, <1>11, <1>12 DEF Writes

\* The row that Commit writes.
WithResult(row, j) ==
    [row EXCEPT !.owner = IF j.flip THEN "client" ELSE @,
                !.status = StatusAfter(@, j.answer),
                !.generation = IF j.changed /\ j.answer # "refresh_invalid"
                               THEN @ + 1 ELSE @,
                !.stamp = j.stamp]

\* A quota result writes the status, the owner, the generation and the time of a
\* row, and not its lease.
LEMMA ResultRow ==
    ASSUME NEW row \in Row, NEW j \in JobState, NEW result, result = WithResult(row, j)
    PROVE  /\ result \in Row /\ result.present = row.present
           /\ result.lease = row.lease /\ result.stamp = j.stamp
           /\ result.generation >= row.generation
<1>1. PICK owner \in OwnerMode : owner = IF j.flip THEN "client" ELSE row.owner
    BY DEF Row, OwnerMode
<1>2. PICK status \in Status : status = StatusAfter(row.status, j.answer)
  <2>1. row.status \in Status
      BY DEF Row
  <2>2. StatusAfter(row.status, j.answer) \in Status
    <3>1. CASE j.answer = "refresh_invalid" /\ row.status \in {"ready", "recovering"}
        BY <3>1 DEF StatusAfter, Status
    <3>2. CASE j.answer = "supported" /\ row.status = "recovering"
        BY <3>2 DEF StatusAfter, Status
    <3>3. CASE /\ ~ (j.answer = "refresh_invalid" /\ row.status \in {"ready", "recovering"})
               /\ ~ (j.answer = "supported" /\ row.status = "recovering")
        BY <2>1, <3>3 DEF StatusAfter
    <3>4. QED
        BY <3>1, <3>2, <3>3
  <2>3. QED
      BY <2>2
<1>3. PICK generation \in Nat :
          generation = IF j.changed /\ j.answer # "refresh_invalid"
                       THEN row.generation + 1 ELSE row.generation
    BY DEF Row
<1>4. PICK stamp \in Nat : stamp = j.stamp
    BY DEF JobState
<1>5. generation >= row.generation
    BY <1>3 DEF Row
<1> DEFINE A == [row EXCEPT !.owner = owner]
           B == [A EXCEPT !.status = status]
           C == [B EXCEPT !.generation = generation]
           D == [C EXCEPT !.stamp = stamp]
<1>6. result = D
    BY <1>1, <1>2, <1>3, <1>4 DEF Row, WithResult
<1>7. A \in Row /\ A.present = row.present /\ A.lease = row.lease
    BY DEF Row
<1> HIDE DEF A
<1>8. B \in Row /\ B.present = row.present /\ B.lease = row.lease
    BY <1>7 DEF Row
<1> HIDE DEF B
<1>9. /\ C \in Row /\ C.present = row.present /\ C.lease = row.lease
      /\ C.generation = generation
    BY <1>8 DEF Row
<1> HIDE DEF C
<1>10. /\ D \in Row /\ D.present = row.present /\ D.lease = row.lease
       /\ D.generation = generation /\ D.stamp = stamp
    BY <1>9 DEF Row
<1> HIDE DEF D
<1>11. QED
    BY <1>4, <1>5, <1>6, <1>10

\* The commit of a quota result is a step that writes rows.
LEMMA CommitWrites ==
    ASSUME PgInv, NEW s \in Server, Commit(s)
    PROVE  Writes
<1>1. PgTypeOK /\ AbsentBare /\ Stamped
    BY DEF PgInv
<1>2. PICK j \in JobState : j = job[s]
    BY <1>1 DEF PgTypeOK
<1>3. j.pc = "answered" /\ j.account \in Account
    BY <1>1, <1>2 DEF Commit, Stamped
<1>4. PICK a \in Account : a = j.account
    BY <1>3
<1>5. PICK row \in Row : row = db[a]
    BY <1>1 DEF PgTypeOK
<1>6. PICK result : result = WithResult(row, j)
    OBVIOUS
<1>7. /\ result \in Row /\ result.present = row.present
      /\ result.lease = row.lease /\ result.stamp = j.stamp
      /\ result.generation >= row.generation
    BY <1>6, ResultRow
<1>8. PICK rows :
          rows = IF row.present /\ (j.flip \/ j.changed \/ j.answer # "unsupported")
                 THEN [db EXCEPT ![a] = result] ELSE db
    OBVIOUS
<1>9. /\ db' = rows /\ tx' = Overtake(Operation, rows)
      /\ raced' = IF rows[a].stamp < db[a].stamp THEN raced \cup {a} ELSE raced
      /\ job' = [job EXCEPT ![s] = NoJob]
      /\ UNCHANGED <<disk, lock, clock, issued, held, lapsed, current, accepted,
                     ended, revoked>>
    BY <1>2, <1>4, <1>5, <1>6, <1>8, Zenon DEF Commit, WithResult
<1>10. db \in [Account -> Row] /\ rows \in [Account -> Row] /\ clock \in Nat
    BY <1>1, <1>7, <1>8 DEF PgTypeOK
<1>11. \/ rows = db
       \/ /\ row.present
          /\ rows[a] = result /\ \A b \in Account \ {a} : rows[b] = db[b]
    BY <1>8, <1>10
<1>12. /\ j.stamp \in 1..clock
       /\ \A b \in Account : db[b].stamp # j.stamp
       /\ \A t \in Server \ {s} : job[t].pc = "answered" => job[t].stamp # j.stamp
    BY <1>1, <1>2, <1>3, Zenon DEF Stamped
<1>13. /\ tx' \in [Server -> TxState] /\ \A t \in Server : Told(t)
       /\ lock' \in Server \cup {NoServer}
       /\ \A t \in Server : lock' = t <=> tx'[t].pc # "idle" /\ tx'[t].op \in LeaseOperation
       /\ HoldersKnown /\ UploadsKnown
    BY <1>9, <1>10, TellsAll
<1>14. \A b \in Account \ raced' : Moves(b)
  <2>1. ASSUME NEW b \in Account \ raced', b # a \/ rows = db
        PROVE  Moves(b)
      BY <1>9, <1>11, <2>1 DEF Moves, Alike
  <2>2. ASSUME a \notin raced', rows # db
        PROVE  Moves(a)
    <3>1. rows[a] = result /\ row.present
        BY <1>11, <2>2
    <3>2. ~ (j.stamp < row.stamp) /\ j.stamp # row.stamp /\ row.stamp \in Nat /\ j.stamp \in Nat
        BY <1>5, <1>7, <1>9, <1>10, <1>12, <2>2, <3>1 DEF Row
    <3>3. result.stamp > row.stamp
        BY <1>7, <3>2
    <3>4. QED
        BY <1>5, <1>7, <1>9, <3>1, <3>3 DEF Moves
  <2>3. QED
      BY <2>1, <2>2
<1>15. NoJob \in JobState /\ NoJob.pc = "idle"
    BY DEF NoJob, JobState, Answer
<1>16. /\ job' \in [Server -> JobState] /\ job'[s] = NoJob
       /\ \A t \in Server \ {s} : job'[t] = job[t]
    BY <1>1, <1>9, <1>15 DEF PgTypeOK
<1>17. RowsKnown
  <2>1. ASSUME NEW t \in Server, job'[t].pc = "answered"
        PROVE  /\ \A b \in Account : db[b].stamp # job'[t].stamp
               /\ j.stamp # job'[t].stamp
    <3>1. t # s /\ job'[t] = job[t] /\ job[t].pc = "answered"
        BY <1>15, <1>16, <2>1
    <3>2. \A b \in Account : db[b].stamp # job[t].stamp
        BY <1>1, <3>1, Zenon DEF Stamped
    <3>3. QED
        BY <1>12, <3>1, <3>2
  <2>2. \A b \in Account, t \in Server :
            job'[t].pc = "answered" => rows[b].stamp # job'[t].stamp
      BY <1>7, <1>11, <2>1
  <2>3. \A b \in Account : /\ rows[b].lease = db[b].lease
                           /\ Bare(rows[b])
      BY <1>1, <1>5, <1>7, <1>11 DEF AbsentBare, Bare
  <2>4. \A b \in Account : rows[b].stamp <= clock
      BY <1>1, <1>7, <1>10, <1>11, <1>12 DEF Stamped
  <2>5. QED
      BY <1>9, <1>10, <2>2, <2>3, <2>4 DEF RowsKnown
<1>18. /\ ended' = ended \cup Cleared(db')
       /\ revoked \subseteq revoked' /\ revoked' \subseteq ended'
  <2>1. \A b \in Account : rows[b].lease = db[b].lease
      BY <1>5, <1>7, <1>11
  <2>2. Cleared(rows) = {}
      BY <2>1 DEF Cleared
  <2>3. QED
      BY <1>1, <1>9, <2>2 DEF PgTypeOK
<1>19. /\ raced \subseteq raced' /\ raced' \in SUBSET Account
       /\ disk' \in [Server -> [Account -> Nat]]
    BY <1>1, <1>9 DEF PgTypeOK
<1>20. \A t \in Server : job'[t].pc # "idle" => job'[t] = job[t]
    BY <1>15, <1>16
<1>21. QED
    BY <1>9, <1>13, <1>14, <1>16, <1>17, <1>18, <1>19, <1>20 DEF Writes

\* A save leaves every row that is no race as it was, or stores a change that
\* was made to the row as it was.
LEMMA SavedMoves ==
    ASSUME PgInv, NEW s \in Server, tx[s].pc = "decided", db' = Saved(s, tx[s].rows),
           NEW a \in Account, a \notin raced, a \notin Races(s)
    PROVE  \/ Alike(db'[a], db[a]) /\ ~ (a \notin tx[s].overtaken /\ Changed(s, a))
           \/ /\ Changed(s, a) /\ Alike(db'[a], tx[s].rows[a])
              /\ a \notin tx[s].overtaken
<1>1. PgTypeOK /\ UpToDate(s, a)
    BY DEF PgInv, RowsUpToDate
<1>2. PICK rows \in [Account -> Row] : rows = tx[s].rows
    BY <1>1 DEF PgTypeOK, TxState
<1>3. /\ Wins(rows, a) => Alike(db'[a], rows[a])
      /\ ~ Wins(rows, a) => db'[a] = db[a]
    BY <1>1, <1>2, SavedRows
<1>4. Alike(db[a], db[a])
    BY DEF Alike
<1>5. CASE a \in tx[s].overtaken
  <2>1. \/ ~ rows[a].present
        \/ db[a].present /\ rows[a].stamp < db[a].stamp
      BY <1>1, <1>2, <1>5 DEF UpToDate, Races
  <2>2. ~ Wins(rows, a)
    <3>1. rows[a].stamp \in Nat /\ db[a].stamp \in Nat
        BY <1>1 DEF PgTypeOK, Row
    <3>2. QED
        BY <2>1, <3>1 DEF Wins
  <2>3. QED
      BY <1>3, <1>4, <1>5, <2>2
<1>6. CASE a \notin tx[s].overtaken /\ Alike(rows[a], db[a]) /\ ~ Changed(s, a)
    BY <1>3, <1>4, <1>6 DEF Alike
<1>7. CASE a \notin tx[s].overtaken /\ Changed(s, a)
  <2>1. Wins(rows, a)
    <3>1. rows[a].stamp \in Nat /\ db[a].stamp \in Nat
        BY <1>1 DEF PgTypeOK, Row
    <3>2. QED
        BY <1>2, <1>7, <3>1 DEF Wins, Changed
  <2>2. QED
      BY <1>2, <1>3, <1>7, <2>1
<1>8. QED
    BY <1>1, <1>2, <1>5, <1>6, <1>7 DEF UpToDate

\* The save of a claim puts its lease on the row.
LEMMA ClaimSaved ==
    ASSUME PgInv, NEW s \in Server, Claims(s, tx[s].lease), db' = Saved(s, tx[s].rows),
           NEW a \in Account, tx[s].rows[a].lease = tx[s].lease,
           a \notin raced, a \notin Races(s)
    PROVE  db'[a].lease = tx[s].lease
<1>1. Placed /\ ClaimsFresh /\ OneHome /\ UpToDate(s, a)
    BY DEF PgInv, RowsUpToDate, Claims
<1>2. PICK b \in Account : /\ tx[s].rows[b].lease = tx[s].lease
                           /\ tx[s].rows[b].present
                           /\ tx[s].rows[b].stamp = tx[s].now
    BY <1>1 DEF Placed, Claims
<1>3. a = b
  <2>1. tx[s].lease \in Named(a) /\ tx[s].lease \in Named(b)
      BY <1>2 DEF Named
  <2>2. QED
      BY <1>1, <2>1 DEF OneHome, Claims
<1>4. a \notin tx[s].overtaken
    BY <1>2, <1>3 DEF Races
<1>5. db[a].lease # tx[s].lease
    BY <1>1 DEF ClaimsFresh, Claims
<1>6. Changed(s, a)
    BY <1>1, <1>4, <1>5 DEF UpToDate, Alike
<1>7. Alike(db'[a], tx[s].rows[a])
    BY <1>4, <1>6, SavedMoves DEF Claims
<1>8. QED
    BY <1>7 DEF Alike

\* The save of an upload counts up the row that it is for.
LEMMA UploadSaved ==
    ASSUME PgInv, NEW s \in Server, tx[s].pc = "decided", tx[s].op = "upload",
           tx[s].lease # 0, db' = Saved(s, tx[s].rows),
           NEW a \in Account, tx[s].rows[a].lease = tx[s].lease,
           a \notin raced, a \notin Races(s)
    PROVE  /\ db[a].generation = tx[s].generation
           /\ db'[a].generation = tx[s].generation + 1
<1>1. Placed /\ OneHome /\ UpToDate(s, a) /\ UploadsCount
    BY DEF PgInv, RowsUpToDate
<1>2. PICK b \in Account : /\ tx[s].rows[b].lease = tx[s].lease
                           /\ tx[s].rows[b].present
                           /\ tx[s].rows[b].stamp = tx[s].now
    BY <1>1 DEF Placed
<1>3. a = b
  <2>1. tx[s].lease \in Named(a) /\ tx[s].lease \in Named(b)
      BY <1>2 DEF Named
  <2>2. QED
      BY <1>1, <2>1 DEF OneHome
<1>4. a \notin tx[s].overtaken
    BY <1>2, <1>3 DEF Races
<1>5. /\ db[a].generation = tx[s].generation
      /\ tx[s].rows[a].generation = tx[s].generation + 1
    BY <1>1, <1>4 DEF UploadsCount
<1>6. tx[s].generation \in Nat
    BY DEF PgInv, PgTypeOK, TxState
<1>7. Changed(s, a)
    BY <1>1, <1>4, <1>5, <1>6 DEF UpToDate, Alike
<1>8. Alike(db'[a], tx[s].rows[a])
    BY <1>4, <1>7, SavedMoves
<1>9. QED
    BY <1>5, <1>8 DEF Alike

\* After a save the server is idle, or on its way to load again.
LEMMA SavesRest ==
    ASSUME PgTypeOK, NEW s \in Server, tx'[s] = Saves(s)
    PROVE  /\ Saves(s) \in TxState /\ Rests(s)
           /\ Saves(s) = NoTx <=> Saves(s).pc = "idle"
           /\ Saves(s).pc # "idle" <=> tx[s].op = "push"
           /\ Saves(s).pc # "idle" => Saves(s).op \in LeaseOperation
<1>1. /\ NoTx \in TxState /\ NoTx.pc = "idle" /\ NoTx.lease = 0 /\ NoTx.now = 0
      /\ \A a \in Account : NoTx.rows[a] = NoRow
    BY DEF NoTx, TxState, NoRow, Row, Status, OwnerMode, Operation, LeaseOperation
<1>2. PICK account \in Account \cup {NoAccount} : account = tx[s].account
    BY DEF PgTypeOK, TxState
<1> DEFINE A == [NoTx EXCEPT !.pc = "again", !.op = "settings", !.account = account]
<1>3. /\ A \in TxState /\ A.pc = "again" /\ A.op = "settings" /\ A.lease = 0 /\ A.now = 0
      /\ \A a \in Account : A.rows[a] = NoRow
    BY <1>1 DEF NoTx, TxState, Operation, LeaseOperation
<1>4. Saves(s) = IF tx[s].op = "push" THEN A ELSE NoTx
    BY <1>2 DEF Saves
<1> HIDE DEF A
<1>5. CASE tx[s].op = "push"
    BY <1>1, <1>3, <1>4, <1>5 DEF Rests, LeaseOperation
<1>6. CASE tx[s].op # "push"
    BY <1>1, <1>4, <1>6 DEF Rests
<1>7. QED
    BY <1>5, <1>6

\* A save tells the operations that run beside it, and ends its own, or the
\* first half of it.
LEMMA SaveTells ==
    ASSUME PgInv, NEW s \in Server, Save(s)
    PROVE  /\ tx' \in [Server -> TxState] /\ Rests(s)
           /\ \A t \in Server \ {s} : Told(t)
           /\ lock' \in Server \cup {NoServer}
           /\ \A t \in Server : lock' = t <=> tx'[t].pc # "idle" /\ tx'[t].op \in LeaseOperation
<1>1. PgTypeOK
    BY DEF PgInv
<1>2. PICK others : others = IF tx[s].op \in LeaseOperation
                             THEN Operation \ LeaseOperation ELSE Operation
    OBVIOUS
<1>3. PICK rows : rows = Saved(s, tx[s].rows)
    OBVIOUS
<1>4. /\ tx[s].pc = "decided" /\ db' = rows
      /\ tx' = [Overtake(others, rows) EXCEPT ![s] = Saves(s)]
      /\ lock' = IF lock = s /\ Saves(s) = NoTx THEN NoServer ELSE lock
    BY <1>2, <1>3, Zenon DEF Save
<1>5. rows \in [Account -> Row]
  <2>1. PICK old \in [Account -> Row] : old = tx[s].rows
      BY <1>1 DEF PgTypeOK, TxState
  <2>2. QED
      BY <1>1, <1>3, <2>1, SavedRows
<1>6. PICK told : told = Overtake(others, rows)
    OBVIOUS
<1>7. PICK saves : saves = Saves(s)
    OBVIOUS
<1>8. /\ \A t \in Server \ {s} : tx'[t] = told[t]
      /\ tx'[s] = saves /\ DOMAIN tx' = Server
      /\ tx' = [t \in Server |-> IF t = s THEN saves ELSE told[t]]
  <2>1. told = [t \in Server |-> told[t]]
      BY <1>6 DEF Overtake
  <2>2. QED
      BY <1>4, <1>6, <1>7, <2>1
<1>9. ASSUME NEW t \in Server \ {s}
      PROVE  Told(t) /\ tx'[t] \in TxState
  <2>1. tx'[t] = Overtake(others, rows)[t]
      BY <1>6, <1>8
  <2>2. tx[t].pc # "idle" => tx[t].op \in others
    <3>1. tx[t].op \in Operation
        BY <1>1 DEF PgTypeOK, TxState
    <3>2. ~ (tx[s].op \in LeaseOperation /\ tx[t].pc # "idle" /\ tx[t].op \in LeaseOperation)
        BY <1>1, <1>4 DEF PgTypeOK
    <3>3. QED
        BY <1>2, <3>1, <3>2
  <2>3. QED
      BY <1>1, <1>4, <1>5, <2>1, <2>2, Telling
<1>10. /\ saves \in TxState /\ Rests(s)
       /\ saves = NoTx <=> saves.pc = "idle"
       /\ saves.pc # "idle" <=> tx[s].op = "push"
       /\ saves.pc # "idle" => saves.op \in LeaseOperation
    BY <1>1, <1>7, <1>8, SavesRest
<1>11. tx' \in [Server -> TxState]
    BY <1>8, <1>9, <1>10
<1>12. \A t \in Server : lock' = t <=> tx'[t].pc # "idle" /\ tx'[t].op \in LeaseOperation
  <2>1. \A t \in Server : lock = t <=> tx[t].pc # "idle" /\ tx[t].op \in LeaseOperation
      BY <1>1 DEF PgTypeOK
  <2>2. lock' = s <=> tx'[s].pc # "idle" /\ tx'[s].op \in LeaseOperation
    <3>1. CASE tx[s].op = "push"
      <4>1. lock = s
          BY <1>4, <2>1, <3>1 DEF LeaseOperation
      <4>2. QED
          BY <1>4, <1>7, <1>8, <1>10, <3>1, <4>1
    <3>2. CASE tx[s].op # "push"
        BY <1>4, <1>7, <1>8, <1>10, <3>2, PartyAssumption
    <3>3. QED
        BY <3>1, <3>2
  <2>3. ASSUME NEW t \in Server, t # s
        PROVE  /\ lock' = t <=> lock = t
               /\ tx'[t].pc = tx[t].pc /\ tx'[t].op = tx[t].op
      BY <1>4, <1>9, <2>3, PartyAssumption DEF Told
  <2>4. QED
      BY <2>1, <2>2, <2>3
<1>13. lock' \in Server \cup {NoServer}
    BY <1>1, <1>4 DEF PgTypeOK
<1>14. QED
    BY <1>9, <1>10, <1>11, <1>12, <1>13

\* A save hands out the lease of its claim, or the generation of its upload, or
\* nothing, and has the files it had, or those of the rows it has written.
LEMMA SaveAnswers ==
    ASSUME PgInv, NEW s \in Server, Save(s)
    PROVE  HoldersKnown /\ disk' \in [Server -> [Account -> Nat]]
<1>1. /\ PgTypeOK /\ Placed /\ LeasesIssued
      /\ tx[s] \in TxState /\ tx[s].rows \in [Account -> Row]
      /\ disk \in [Server -> [Account -> Nat]] /\ held \in [1..MaxLeases -> Hold]
    BY DEF PgInv, PgTypeOK, TxState
<1>2. PICK rows \in [Account -> Row] : rows = Saved(s, tx[s].rows)
  <2>1. PICK old \in [Account -> Row] : old = tx[s].rows
      BY <1>1
  <2>2. QED
      BY <1>1, <2>1, SavedRows
<1>3. PICK files : files = IF tx[s].op = "claim" THEN Materialized(s, rows) ELSE disk
    OBVIOUS
<1>4. /\ tx[s].pc = "decided" /\ db' = rows /\ disk' = files
      /\ held' \in {held, Answered(s, files)}
      /\ raced' = raced \cup Races(s)
    BY <1>2, <1>3, Zenon DEF Save
<1>5. files \in [Server -> [Account -> Nat]]
    BY <1>1, <1>3, MaterializedTyped
<1>6. PICK l \in Nat : l = tx[s].lease
    BY <1>1 DEF TxState
<1>7. PICK a : a = CHOOSE b \in Account : tx[s].rows[b].lease = l
    OBVIOUS
<1>8. l # 0 /\ tx[s].op \in {"claim", "upload"}
      => a \in Account /\ tx[s].rows[a].lease = l
    BY <1>1, <1>4, <1>6, <1>7 DEF Placed
<1>9. ASSUME held' = held
      PROVE  HoldersKnown
    BY <1>1, <1>9 DEF HoldersKnown, Held
<1>10. ASSUME l # 0, tx[s].op = "claim",
              held' = [held EXCEPT ![l] = [account |-> a, auth |-> files[s][a],
                                           generation |-> tx[s].rows[a].generation]]
       PROVE  HoldersKnown
  <2>1. a \in Account /\ tx[s].rows[a].lease = l
      BY <1>8, <1>10
  <2>2. files[s][a] \in Nat /\ tx[s].rows[a].generation \in Nat
      BY <1>1, <1>5, <2>1 DEF Row
  <2>3. PICK h \in Hold : h = [account |-> a, auth |-> files[s][a],
                               generation |-> tx[s].rows[a].generation]
      BY <2>1, <2>2 DEF Hold
  <2>4. h.account = a
      BY <2>3
  <2>5. held' = [held EXCEPT ![l] = h]
      BY <1>10, <2>3
  <2>6. /\ held' \in [1..MaxLeases -> Hold]
        /\ \A k \in Held' : \/ k \in Held /\ held'[k].account = held[k].account
                            \/ k = l /\ held'[k].account = a
      BY <1>1, <2>4, <2>5 DEF Held
  <2>7. Claims(s, l)
      BY <1>4, <1>6, <1>10 DEF Claims
  <2>8. a \notin raced' => db'[a].lease = l
      BY <1>2, <1>4, <1>6, <2>1, <2>7, ClaimSaved
  <2>9. QED
      BY <2>1, <2>6, <2>7, <2>8 DEF HoldersKnown
<1>11. ASSUME l # 0, tx[s].op = "upload", held[l] # NoHold,
              held' = [held EXCEPT ![l].generation = tx[s].rows[a].generation]
       PROVE  HoldersKnown
  <2>1. PICK g \in Nat : g = tx[s].rows[a].generation
      BY <1>1, <1>8, <1>11 DEF Row
  <2>2. CASE l \in 1..MaxLeases
    <3> DEFINE H == [held[l] EXCEPT !.generation = g]
    <3>1. H \in Hold /\ H.account = held[l].account
        BY <1>1, <2>2 DEF Hold
    <3>2. held' = [held EXCEPT ![l] = H]
        BY <1>11, <2>1
    <3> HIDE DEF H
    <3>3. /\ held' \in [1..MaxLeases -> Hold]
          /\ \A k \in Held' : k \in Held /\ held'[k].account = held[k].account
        BY <1>1, <1>11, <2>2, <3>1, <3>2 DEF Held
    <3>4. QED
        BY <3>3 DEF HoldersKnown
  <2>3. CASE l \notin 1..MaxLeases
    <3>1. held' = held
        BY <1>1, <1>11, <2>3
    <3>2. QED
        BY <1>9, <3>1
  <2>4. QED
      BY <2>2, <2>3
<1>12. HoldersKnown
  <2>1. CASE l # 0 /\ tx[s].op = "claim"
    <3>1. Answered(s, files)
          = [held EXCEPT ![l] = [account |-> a, auth |-> files[s][a],
                                 generation |-> tx[s].rows[a].generation]]
        BY <1>6, <1>7, <2>1 DEF Answered
    <3>2. QED
        BY <1>4, <1>9, <1>10, <2>1, <3>1, Zenon
  <2>2. CASE l # 0 /\ tx[s].op = "upload" /\ held[l] # NoHold
    <3>1. Answered(s, files) = [held EXCEPT ![l].generation = tx[s].rows[a].generation]
        BY <1>6, <1>7, <2>2 DEF Answered
    <3>2. QED
        BY <1>4, <1>9, <1>11, <2>2, <3>1, Zenon
  <2>3. CASE /\ ~ (l # 0 /\ tx[s].op = "claim")
             /\ ~ (l # 0 /\ tx[s].op = "upload" /\ held[l] # NoHold)
    <3>1. Answered(s, files) = held
        BY <1>6, <2>3 DEF Answered
    <3>2. QED
        BY <1>4, <1>9, <3>1
  <2>4. QED
      BY <2>1, <2>2, <2>3
<1>13. QED
    BY <1>4, <1>5, <1>12

\* A save accepts its upload, for the account that has the lease.
LEMMA SaveAccepts ==
    ASSUME PgInv, NEW s \in Server, Save(s)
    PROVE  UploadsKnown
<1>1. PgTypeOK /\ tx[s].generation \in Nat /\ tx[s].auth \in Nat
    BY DEF PgInv, PgTypeOK, TxState
<1>2. PICK g \in Nat, f \in Nat : g = tx[s].generation /\ f = tx[s].auth
    BY <1>1
<1>3. PICK on : on = {b \in Account : /\ tx[s].op = "upload" /\ tx[s].lease # 0
                                      /\ tx[s].rows[b].lease = tx[s].lease}
    OBVIOUS
<1>4. /\ tx[s].pc = "decided" /\ db' = Saved(s, tx[s].rows)
      /\ accepted' = accepted \cup
             {[account |-> a, generation |-> g, auth |-> f] : a \in on}
      /\ raced' = raced \cup Races(s)
    BY <1>2, <1>3, Zenon DEF Save
<1>5. \A u \in accepted' \ accepted :
         /\ u \in Hold /\ u.account \in on
         /\ u = [account |-> u.account, generation |-> g, auth |-> f]
    BY <1>3, <1>4 DEF Hold
<1>6. accepted' \in SUBSET Hold
    BY <1>1, <1>5 DEF PgTypeOK
<1>7. \A u, v \in accepted' \ accepted : u.account = v.account => u = v
    BY <1>5, Zenon
<1>8. ASSUME NEW u \in accepted' \ accepted
      PROVE  /\ u.account \in Account
             /\ u.account \notin raced' =>
                   /\ db[u.account].generation = u.generation
                   /\ db'[u.account].generation = u.generation + 1
  <2>1. PICK a \in on : a = u.account /\ u.generation = g
      BY <1>5
  <2>2. a \in Account /\ tx[s].op = "upload" /\ tx[s].lease # 0
        /\ tx[s].rows[a].lease = tx[s].lease
      BY <1>3, <2>1
  <2>3. a \notin raced' => /\ db[a].generation = tx[s].generation
                           /\ db'[a].generation = tx[s].generation + 1
      BY <1>4, <2>2, UploadSaved
  <2>4. QED
      BY <1>2, <2>1, <2>2, <2>3
<1>9. QED
    BY <1>6, <1>7, <1>8 DEF UploadsKnown

\* A save is a step that writes rows.
LEMMA SaveWrites ==
    ASSUME PgInv, NEW s \in Server, Save(s)
    PROVE  Writes
<1>1. /\ PgTypeOK /\ AbsentBare /\ Stamped /\ LeasesIssued
      /\ db \in [Account -> Row] /\ tx[s] \in TxState /\ clock \in Nat
    BY DEF PgInv, PgTypeOK
<1>2. PICK old \in [Account -> Row] : old = tx[s].rows
    BY <1>1 DEF TxState
<1>3. PICK rows \in [Account -> Row] : rows = Saved(s, old)
    BY <1>1, SavedRows
<1>4. /\ tx[s].pc = "decided" /\ db' = rows /\ ended' = ended \cup Cleared(rows)
      /\ revoked' = IF tx[s].op = "setOwner" THEN revoked \cup Cleared(rows) ELSE revoked
      /\ raced' = raced \cup Races(s)
      /\ UNCHANGED <<job, clock, issued, lapsed, current>>
    BY <1>2, <1>3, Zenon DEF Save
<1>5. /\ tx' \in [Server -> TxState] /\ Rests(s)
      /\ \A t \in Server : Rests(t) \/ Told(t)
      /\ lock' \in Server \cup {NoServer}
      /\ \A t \in Server : lock' = t <=> tx'[t].pc # "idle" /\ tx'[t].op \in LeaseOperation
    BY SaveTells
<1>6. \A a \in Account : Alike(rows[a], old[a]) \/ rows[a] = db[a]
    BY <1>1, <1>3, SavedRows
<1>7. RowsKnown
  <2>1. ASSUME NEW a \in Account
        PROVE  /\ \/ rows[a].lease = db[a].lease
                  \/ Rests(s) /\ rows[a].lease = tx[s].rows[a].lease
               /\ Bare(rows[a])
               /\ rows[a].stamp <= clock
      BY <1>1, <1>2, <1>5, <1>6 DEF Alike, AbsentBare, Bare, Stamped
  <2>2. ASSUME NEW a \in Account, NEW t \in Server, job[t].pc = "answered"
        PROVE  rows[a].stamp # job[t].stamp
    <3>1. db[a].stamp # job[t].stamp /\ tx[s].rows[a].stamp # job[t].stamp
        BY <1>1, <2>2, Zenon DEF Stamped
    <3>2. QED
        BY <1>2, <1>6, <3>1 DEF Alike
  <2>3. QED
      BY <1>4, <2>1, <2>2 DEF RowsKnown
<1>8. \A a \in Account \ raced' : Moves(a)
  <2>1. ASSUME NEW a \in Account \ raced'
        PROVE  Moves(a)
    <3>1. \/ Alike(db'[a], db[a])
          \/ Changed(s, a) /\ Alike(db'[a], old[a]) /\ a \notin tx[s].overtaken
        BY <1>2, <1>3, <1>4, <2>1, SavedMoves
    <3>2. CASE Alike(db'[a], db[a])
        BY <3>2 DEF Moves
    <3>3. CASE Changed(s, a) /\ Alike(db'[a], old[a]) /\ a \notin tx[s].overtaken
      <4>1. /\ old[a].present /\ old[a].stamp > db[a].stamp
            /\ old[a].generation >= db[a].generation
            /\ \/ db[a].present
               \/ Adds(s, a) /\ old[a].stamp = tx[s].now
            /\ \/ old[a].lease = db[a].lease
               \/ tx[s].op = "setOwner" /\ old[a].lease = 0
               \/ /\ db[a].lease \notin Live
                  /\ old[a].lease = 0 \/ Claims(s, old[a].lease)
        <5>1. db[a].stamp \in Nat /\ old[a].stamp \in Nat
            BY <1>1 DEF Row
        <5>2. QED
            BY <1>2, <3>3, <5>1 DEF Changed, Claims, Adds
      <4>2. tx[s].op = "setOwner" /\ old[a].lease = 0 => db[a].lease \in {0} \cup revoked'
          BY <1>4, <3>3 DEF Cleared, Alike
      <4>3. QED
          BY <3>3, <4>1, <4>2 DEF Moves, Alike
    <3>4. QED
        BY <3>1, <3>2, <3>3
  <2>2. QED
      BY <2>1
<1>9. raced \subseteq raced' /\ raced' \in SUBSET Account
    BY <1>1, <1>4 DEF PgTypeOK, Races, TxState
<1>10. /\ job' \in [Server -> JobState] /\ ended' = ended \cup Cleared(db')
       /\ revoked \subseteq revoked' /\ revoked' \subseteq ended'
       /\ \A t \in Server : job'[t].pc # "idle" => job'[t] = job[t]
    BY <1>1, <1>4 DEF PgTypeOK
<1>11. QED
    BY <1>4, <1>5, <1>7, <1>8, <1>9, <1>10, SaveAnswers, SaveAccepts DEF Writes

-----------------------------------------------------------------------------
(* The theorems                                                            *)

\* At the start the rows are those of a fresh database, and nothing is under way.
LEMMA PgInvInit == Init => PgInv
<1> SUFFICES ASSUME Init
             PROVE  PgInv
    OBVIOUS
<1> DEFINE R == [NoRow EXCEPT !.present = TRUE, !.generation = 1, !.auth = 1]
<1>1. /\ NoRow \in Row /\ NoRow.lease = 0 /\ NoRow.stamp = 0
      /\ R \in Row /\ R.lease = 0 /\ R.stamp = 0 /\ R.present
    BY DEF NoRow, Row, Status, OwnerMode
<1>2. /\ db = [a \in Account |-> R]
      /\ tx = [s \in Server |-> NoTx] /\ lock = NoServer
      /\ job = [s \in Server |-> NoJob] /\ clock = 0 /\ issued = 0
      /\ held = [l \in 1..MaxLeases |-> NoHold]
      /\ lapsed = {} /\ accepted = {} /\ ended = {} /\ revoked = {} /\ raced = {}
    BY Zenon DEF Init
<1> HIDE DEF R
<1>3. /\ NoTx \in TxState /\ NoTx.pc = "idle" /\ NoTx.lease = 0 /\ NoTx.now = 0
      /\ \A a \in Account : NoTx.rows[a] = NoRow
    BY <1>1 DEF NoTx, TxState, Operation, LeaseOperation
<1>4. NoJob \in JobState /\ NoJob.pc = "idle" /\ NoHold \in Hold
    BY DEF NoJob, JobState, Answer, NoHold, Hold
<1>5. disk \in [Server -> [Account -> Nat]] /\ current \in [Account -> Nat]
    BY DEF Init
<1>6. PgTypeOK
    BY <1>1, <1>2, <1>3, <1>4, <1>5, PartyAssumption DEF PgTypeOK
<1>7. Held = {} /\ Live = {}
    BY <1>2 DEF Held, Live
<1>8. LeasesIssued
    BY <1>1, <1>2, <1>3, <1>7 DEF LeasesIssued
<1>9. OneHome
    BY <1>1, <1>2, <1>3 DEF OneHome, Named
<1>10. AbsentBare
  <2>1. Bare(R) /\ Bare(NoRow)
      BY <1>1 DEF Bare, NoRow
  <2>2. QED
      BY <1>2, <1>3, <2>1 DEF AbsentBare
<1>11. Stamped
    BY <1>1, <1>2, <1>3, <1>4 DEF Stamped
<1>12. RowsUpToDate /\ AddsLater /\ Placed /\ ClaimsFresh /\ UploadsCount /\ LeaseBegun
       /\ ReleasesGiven /\ IdleIsBare
    BY <1>2, <1>3 DEF RowsUpToDate, AddsLater, Adds, Placed, ClaimsFresh, UploadsCount, LeaseBegun,
       ReleasesGiven, IdleIsBare
<1>13. EndedGone /\ AcceptedBelow /\ AcceptedKnown /\ UploadsInTurn
    BY <1>2 DEF EndedGone, AcceptedBelow, AcceptedKnown, UploadsInTurn
<1>14. HoldersRecorded
    BY <1>7 DEF HoldersRecorded
<1>15. QED
    BY <1>6, <1>8, <1>9, <1>10, <1>11, <1>12, <1>13, <1>14 DEF PgInv

\* What NothingRevived asks of a step.
RevivesNothing ==
    \A a \in Account \ raced' :
        /\ db'[a].lease \notin ended
        /\ db[a].present /\ db'[a].present => db'[a].generation >= db[a].generation

\* A step that writes no row brings nothing back either.
LEMMA NothingWritten ==
    ASSUME PgInv, UNCHANGED <<db, raced>>
    PROVE  RevivesNothing
<1>1. \A a \in Account : db[a].generation \in Nat
    BY DEF PgInv, PgTypeOK, Row
<1>2. EndedGone
    BY DEF PgInv
<1>3. QED
    BY <1>1, <1>2 DEF EndedGone, RevivesNothing

\* Every step keeps the invariant, and brings back nothing.
LEMMA PgInvStep ==
    ASSUME PgInv, [Next]_vars
    PROVE  PgInv' /\ RevivesNothing
<1>1. ASSUME NEW s \in Server, Start(s) \/ LoadAgain(s) \/ Crash(s)
      PROVE  PgInv' /\ RevivesNothing
  <2>1. Renews(s)
      BY <1>1, StartRenews, AgainRenews, EndRenews
  <2>2. QED
      BY <2>1, RenewsStep, NothingWritten DEF Renews
<1>2. ASSUME NEW s \in Server, Decide(s)
      PROVE  PgInv' /\ RevivesNothing
  <2>1. CASE Decides(s)
      BY <2>1, DecidesStep, NothingWritten DEF Decides
  <2>2. CASE Finish(s)
    <3>1. Renews(s)
        BY <2>2, EndRenews
    <3>2. QED
        BY <3>1, RenewsStep, NothingWritten DEF Renews
  <2>3. QED
      BY <1>2, <2>1, <2>2, Deciding
<1>3. ASSUME Aside
      PROVE  PgInv' /\ RevivesNothing
    BY <1>3, AsideStep, NothingWritten DEF Aside
<1>4. ASSUME Writes
      PROVE  PgInv' /\ RevivesNothing
    BY <1>4, WritesStep DEF RevivesNothing
<1>5. ASSUME NEW s \in Server, Read(s)
      PROVE  PgInv' /\ RevivesNothing
    BY <1>3, <1>5, ProbeAside
<1>6. ASSUME NEW s \in Server, Save(s) \/ \E a \in Account : Delete(s, a)
      PROVE  PgInv' /\ RevivesNothing
    BY <1>4, <1>6, SaveWrites, DeleteWrites
<1>7. ASSUME NEW s \in Prober,
             \/ ProbeRefresh(s) \/ ProbeAnswer(s) \/ ProbeRefused(s)
             \/ \E a \in Account : ProbeStart(s, a)
      PROVE  PgInv' /\ RevivesNothing
    BY <1>3, <1>7, ProbeAside, ScopeAssumption
<1>8. ASSUME NEW s \in Prober,
             \/ \E a \in Account : OwnerReport(s, a)
             \/ \E l \in Held : HolderReport(s, l)
      PROVE  PgInv' /\ RevivesNothing
    BY <1>3, <1>8, ReportAside, ScopeAssumption
<1>9. ASSUME NEW s \in Prober, Commit(s)
      PROVE  PgInv' /\ RevivesNothing
    BY <1>4, <1>9, CommitWrites, ScopeAssumption
<1>10. ASSUME NEW l \in 1..MaxLeases, Lapse(l) \/ CodexRotates(l)
       PROVE  PgInv' /\ RevivesNothing
    BY <1>3, <1>10, OutsideAside
<1>11. CASE UNCHANGED vars
  <2>1. PgInv'
    <3>1. UNCHANGED <<db, disk, tx, lock, job, clock, issued, held, lapsed, current,
                      accepted, ended, revoked, raced>>
        BY <1>11 DEF vars
    <3>2. Aside
        BY <3>1 DEF PgInv, PgTypeOK, Aside, Held
    <3>3. QED
        BY <3>2, AsideStep
  <2>2. QED
      BY <1>11, <2>1, NothingWritten DEF vars
<1>12. QED
    BY <1>1, <1>2, <1>5, <1>6, <1>7, <1>8, <1>9, <1>10, <1>11 DEF Next

\* The invariant holds of every behaviour.
LEMMA PgInvariant == Spec => []PgInv
<1>1. PgInv /\ [Next]_vars => PgInv'
    BY PgInvStep
<1>2. QED
    BY <1>1, PgInvInit, PTL DEF Spec

\* Every variable keeps to its type, and the advisory lock is with the one
\* server that is working on the leases.
THEOREM PgTypeSafe == Spec => []PgTypeOK
<1>1. PgInv => PgTypeOK
    BY DEF PgInv
<1>2. QED
    BY <1>1, PgInvariant, PTL

\* A lease that a client goes by, that has not run out and that no operator took
\* back, is on the row of its account, however the operations of the servers
\* interleave, except on an account in raced.
THEOREM HoldersAreRecorded == Spec => []HoldersRecorded
<1>1. PgInv => HoldersRecorded
    BY DEF PgInv
<1>2. QED
    BY <1>1, PgInvariant, PTL

\* Saves of rows that were loaded before (the upsert compares updated_at only)
\* bring back no lease that was released, expired or taken back, and lose no
\* generation that an upload or a probe counted, except on an account in raced,
\* where they may do both.
THEOREM NothingIsRevived == Spec => NothingRevived
<1>1. PgInv /\ [Next]_vars =>
        [\A a \in Account \ raced' :
            /\ db'[a].lease \notin ended
            /\ db[a].present /\ db'[a].present
               => db'[a].generation >= db[a].generation]_vars
    BY PgInvStep DEF RevivesNothing
<1>2. QED
    BY <1>1, PgInvariant, PTL DEF Spec, NothingRevived

\* README.md:174: of the uploads that came with one generation of an account at
\* most one is accepted until the account is deleted, on whatever servers they
\* arrive, except for an account in raced.
THEOREM UploadsAreInTurn == Spec => []UploadsInTurn
<1>1. PgInv => UploadsInTurn
    BY DEF PgInv
<1>2. QED
    BY <1>1, PgInvariant, PTL

\* README.md:115: two clients go by live leases of one account only if an operator
\* took the account from one of them, or the account is in raced.  What OneHolder
\* asks, and DoubleLease refutes, holds but for that.
THEOREM OneHolderUnlessRaced ==
    Spec => [](\A k, l \in Live \ revoked :
                  /\ held[k].account = held[l].account
                  /\ held[k].account \notin raced
                  => k = l)
<1>1. PgInv => \A k, l \in Live \ revoked :
                  /\ held[k].account = held[l].account
                  /\ held[k].account \notin raced
                  => k = l
    BY DEF PgInv, HoldersRecorded
<1>2. QED
    BY <1>1, PgInvariant, PTL
=============================================================================
