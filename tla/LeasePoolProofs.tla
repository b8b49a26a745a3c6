-------------------------- MODULE LeasePoolProofs --------------------------
(***************************************************************************)
(* The pool of LeasePool lends an account to one holder at a time, for any *)
(* accounts, any leases and any longest term.                              *)
(***************************************************************************)
EXTENDS LeasePool, TLAPS

\* What the step Sweep, which is part of many others, leaves of a lease.
LEMMA SweptTyped ==
    ASSUME PoolTypeOK, NEW expired
    PROVE  /\ Swept(expired) \in [LeaseId -> Phase]
           /\ \A l \in LeaseId : Swept(expired)[l] = "held" => phase[l] = "held"
    BY DEF PoolTypeOK, Swept, Phase

\* Every variable keeps to its type: a lease has a phase, an account or none,
\* and no more time than the longest term.
LEMMA PoolTypeStep ==
    ASSUME MaxTTL \in Nat, 0 \notin Account, PoolTypeOK, PoolNext
    PROVE  PoolTypeOK'
<1>1. ASSUME NEW expired, Sweep(expired)
      PROVE  PoolTypeOK'
    BY <1>1, SweptTyped DEF PoolTypeOK, Sweep
<1>2. ASSUME NEW expired, NEW l \in LeaseId, NEW a \in Account, NEW term \in 1..MaxTTL,
             Grant(expired, l, a, term)
      PROVE  PoolTypeOK'
    BY <1>2, SweptTyped DEF PoolTypeOK, Grant, Phase
<1>3. ASSUME NEW expired, NEW l \in LeaseId, NEW term \in 1..MaxTTL,
             Renew(expired, l, term)
      PROVE  PoolTypeOK'
    BY <1>3, SweptTyped DEF PoolTypeOK, Renew
<1>4. ASSUME NEW expired, NEW l \in LeaseId, GiveBack(expired, l)
      PROVE  PoolTypeOK'
    BY <1>4, SweptTyped DEF PoolTypeOK, GiveBack, Phase
<1>5. ASSUME NEW a \in Account, TakeAway(a)
      PROVE  PoolTypeOK'
    BY <1>5 DEF PoolTypeOK, TakeAway, Phase
<1>6. ASSUME NEW a \in Account, ReturnToPool(a)
      PROVE  PoolTypeOK'
    BY <1>6 DEF PoolTypeOK, ReturnToPool
<1>7. ASSUME Pass
      PROVE  PoolTypeOK'
    BY <1>7 DEF PoolTypeOK, Pass
<1>8. QED
    BY <1>1, <1>2, <1>3, <1>4, <1>5, <1>6, <1>7 DEF PoolNext

\* A step that makes no lease held, and moves none, keeps the leases apart.
LEMMA NothingGranted ==
    ASSUME Exclusive, on' = on,
           \A l \in LeaseId : phase'[l] = "held" => phase[l] = "held"
    PROVE  Exclusive'
    BY DEF Exclusive

\* An account is lent only when no lease holds it, so no step lends it twice.
LEMMA ExclusiveStep ==
    ASSUME PoolTypeOK, Exclusive, PoolNext
    PROVE  Exclusive'
<1>1. ASSUME NEW expired, Sweep(expired)
      PROVE  Exclusive'
    BY <1>1, SweptTyped, NothingGranted DEF Sweep
<1>2. ASSUME NEW expired, NEW l \in LeaseId, NEW a \in Account, NEW term \in 1..MaxTTL,
             Grant(expired, l, a, term)
      PROVE  Exclusive'
    <2>1. /\ \A k \in LeaseId \ {l} : /\ phase'[k] = Swept(expired)[k]
                                      /\ on'[k] = on[k]
          /\ on'[l] = a
        BY <1>2, SweptTyped DEF Grant, PoolTypeOK
    <2>2. \A k \in LeaseId \ {l} :
             phase'[k] = "held" => phase[k] = "held" /\ on[k] # a
        BY <1>2, <2>1, SweptTyped DEF Grant
    <2>3. QED
        BY <2>1, <2>2 DEF Exclusive
<1>3. ASSUME NEW expired, NEW l \in LeaseId, NEW term \in 1..MaxTTL,
             Renew(expired, l, term)
      PROVE  Exclusive'
    BY <1>3, SweptTyped, NothingGranted DEF Renew
<1>4. ASSUME NEW expired, NEW l \in LeaseId, GiveBack(expired, l)
      PROVE  Exclusive'
    <2>1. \A k \in LeaseId : phase'[k] = "held" => phase[k] = "held"
        BY <1>4, SweptTyped DEF GiveBack
    <2>2. QED
        BY <1>4, <2>1, NothingGranted DEF GiveBack
<1>5. ASSUME NEW a \in Account, TakeAway(a)
      PROVE  Exclusive'
    <2>1. \A k \in LeaseId : phase'[k] = "held" => phase[k] = "held"
        BY <1>5 DEF TakeAway
    <2>2. QED
        BY <1>5, <2>1, NothingGranted DEF TakeAway
<1>6. ASSUME NEW a \in Account, ReturnToPool(a)
      PROVE  Exclusive'
    BY <1>6, NothingGranted DEF ReturnToPool
<1>7. ASSUME Pass
      PROVE  Exclusive'
    BY <1>7, NothingGranted DEF Pass
<1>8. QED
    BY <1>1, <1>2, <1>3, <1>4, <1>5, <1>6, <1>7 DEF PoolNext

\* README.md:172: a single account is never handed to two sessions at the same
\* time.  The pool keeps that for any number of accounts and leases; with the
\* refinement KeepsThePromise it is what the manager of one server keeps too.
THEOREM LendsExclusively ==
    ASSUME MaxTTL \in Nat, 0 \notin Account
    PROVE  PoolSpec => [](PoolTypeOK /\ Exclusive)
<1>1. PoolInit => PoolTypeOK /\ Exclusive
    BY DEF PoolInit, PoolTypeOK, Exclusive, Phase
<1>2. PoolTypeOK /\ Exclusive /\ [PoolNext]_poolVars => (PoolTypeOK /\ Exclusive)'
    <2>1. CASE PoolNext
        BY <2>1, PoolTypeStep, ExclusiveStep
    <2>2. CASE UNCHANGED poolVars
        BY <2>2 DEF poolVars, PoolTypeOK, Exclusive
    <2>3. QED
        BY <2>1, <2>2
<1>3. QED
    BY <1>1, <1>2, PTL DEF PoolSpec
=============================================================================
