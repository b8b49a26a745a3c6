------------------------------ MODULE LeasePool ------------------------------
(***************************************************************************)
(* What the pool promises to those who borrow from it.  A lease is free,   *)
(* then held on one account, then over for good.  It is over because its   *)
(* holder released it, because its time ran out, or because an operator    *)
(* took the account away; nothing else ends it, nothing shortens it but    *)
(* the clock and its own renewals, and the account is not lent to anybody  *)
(* else before the end of the lease is on record.                          *)
(***************************************************************************)
EXTENDS Integers

CONSTANTS
    Account, LeaseId,
    MaxTTL            \* the longest term

VARIABLES
    phase,            \* where each lease is in its life
    on,               \* the account of each lease, 0 for a free one
    left,             \* the ticks a held lease still has
    lendable          \* the accounts an operator leaves to the pool

poolVars == <<phase, on, left, lendable>>

Phase == {"free", "held", "released", "expired", "revoked"}

PoolTypeOK ==
    /\ phase \in [LeaseId -> Phase]
    /\ on \in [LeaseId -> Account \cup {0}]
    /\ left \in [LeaseId -> 0..MaxTTL]
    /\ lendable \subseteq Account

PoolInit ==
    /\ phase = [l \in LeaseId |-> "free"]
    /\ on = [l \in LeaseId |-> 0]
    /\ left = [l \in LeaseId |-> 0]
    /\ lendable = Account

OutOfTime == {l \in LeaseId : phase[l] = "held" /\ left[l] = 0}

\* The leases that run out at the beginning of a step: all of them, or none.
Swept(expired) ==
    [l \in LeaseId |-> IF l \in expired THEN "expired" ELSE phase[l]]

Sweep(expired) == phase' = Swept(expired) /\ UNCHANGED <<on, left, lendable>>

Grant(expired, l, a, term) ==
    /\ phase[l] = "free"
    /\ a \in lendable
    /\ \A k \in LeaseId : Swept(expired)[k] = "held" => on[k] # a
    /\ phase' = [Swept(expired) EXCEPT ![l] = "held"]
    /\ on' = [on EXCEPT ![l] = a]
    /\ left' = [left EXCEPT ![l] = term]
    /\ UNCHANGED lendable

Renew(expired, l, term) ==
    /\ phase[l] = "held" /\ left[l] > 0
    /\ phase' = Swept(expired)
    /\ left' = [left EXCEPT ![l] = term]
    /\ UNCHANGED <<on, lendable>>

GiveBack(expired, l) ==
    /\ phase[l] = "held" /\ left[l] > 0
    /\ phase' = [Swept(expired) EXCEPT ![l] = "released"]
    /\ left' = [left EXCEPT ![l] = 0]
    /\ UNCHANGED <<on, lendable>>

\* An account leaves the pool, and its lease with it or not, over or not.
TakeAway(a) ==
    LET revoked == {l \in LeaseId : phase[l] = "held" /\ on[l] = a}
    IN  /\ lendable' = lendable \ {a}
        /\ \/ UNCHANGED <<phase, left>>
           \/ /\ phase' = [l \in LeaseId |->
                              IF l \in revoked THEN "revoked" ELSE phase[l]]
              /\ left' = [l \in LeaseId |-> IF l \in revoked THEN 0 ELSE left[l]]
        /\ UNCHANGED on

ReturnToPool(a) ==
    /\ lendable' = lendable \cup {a}
    /\ UNCHANGED <<phase, on, left>>

Pass ==
    /\ UNCHANGED <<lendable, phase, on>>
    /\ left' = [l \in LeaseId |-> IF left[l] > 0 THEN left[l] - 1 ELSE 0]

PoolNext ==
    \/ Pass
    \/ \E expired \in {{}, OutOfTime} :
        \/ Sweep(expired)
        \/ \E l \in LeaseId : GiveBack(expired, l)
        \/ \E l \in LeaseId, term \in 1..MaxTTL : Renew(expired, l, term)
        \/ \E l \in LeaseId, a \in Account, term \in 1..MaxTTL :
              Grant(expired, l, a, term)
    \/ \E a \in Account : TakeAway(a) \/ ReturnToPool(a)

PoolSpec == PoolInit /\ [][PoolNext]_poolVars

-----------------------------------------------------------------------------

\* No account is ever held under two leases.
Exclusive ==
    \A l, m \in LeaseId :
        phase[l] = "held" /\ phase[m] = "held" /\ on[l] = on[m] => l = m
=============================================================================
