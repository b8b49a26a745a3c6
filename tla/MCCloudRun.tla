----------------------------- MODULE MCCloudRun -----------------------------
(***************************************************************************)
(* Values for the constants of CloudRun in TLC's runs, on the time scale   *)
(* of MCLeaseManager.                                                      *)
(***************************************************************************)
EXTENDS CloudRun, MCLeaseManager

Versions == [of : Account, version : 1..MaxVersion]

\* Low enough to swap, and not too low to be leased; from a record without a
\* reset time, which does not age.
Low(reset) == Quotas(W(7, reset), NoWindow)
LowUndated == {Low(Unknown)}
=============================================================================
