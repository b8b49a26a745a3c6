--------------------------- MODULE MCLeaseManager ---------------------------
(***************************************************************************)
(* Values for the constants of LeaseManager in TLC's runs.  One tick       *)
(* stands for 45 seconds: the shortest term of 30 seconds is 1 tick, the   *)
(* default of 90 seconds 2, and a probe, at most five requests of 8        *)
(* seconds, takes no more than 1.  The longest term, 30 minutes, is cut    *)
(* down to 3 ticks.                                                        *)
(***************************************************************************)
EXTENDS LeaseManager, TLC

W(remaining, reset) == [remaining |-> remaining, reset |-> reset]
Quotas(five, seven) ==
    [status |-> "supported", fiveHour |-> five, sevenDay |-> seven]

\* Plenty left until the 5h window resets in the given number of ticks.
Healthy(reset) == Quotas(W(50, reset), NoWindow)

HealthyForLong == Healthy(3)
HealthyOnly == {Healthy(3)}
HealthyShort == {Healthy(2)}

\* Clients differ in nothing but their names.
ClientSymmetry == Permutations(Client)
=============================================================================
