---------------------------- MODULE LoadBalance ----------------------------
(***************************************************************************)
(* The load balancer's pure rules (src/internal/manager/loadbalance.go and *)
(* the window helpers of quota.go): which account may serve a run, how     *)
(* accounts are scored, and which one the round robin picks next.          *)
(*                                                                         *)
(* Times are relative and counted in ticks: a quota window carries the     *)
(* ticks left until it resets, 0 once the reset has passed, and Unknown    *)
(* when its reset time is empty or does not parse.  Percentages are        *)
(* integers from 0 to 100.                                                 *)
(***************************************************************************)
EXTENDS Integers, FiniteSets

CONSTANTS
    NearResetWindow   \* the 90 minutes before a reset, in ticks

ASSUME NearResetWindowAssumption == NearResetWindow \in Nat \ {0}

-----------------------------------------------------------------------------
(* Quota windows and results                                               *)

Unknown == -1

\* A nil *quota.Window: the provider reported no such window.
NoWindow == [remaining |-> Unknown, reset |-> Unknown]

Window == [remaining : 0..100, reset : Int]

\* "" is a quota cache without an entry: the account was never checked.
QuotaStatus == {"", "supported", "unsupported", "not_configured",
                "refresh_invalid", "error"}

Result == [status : QuotaStatus,
           fiveHour : Window \cup {NoWindow}, sevenDay : Window \cup {NoWindow}]

\* A result that carries no window: a failed or refused probe.
Failure(status) ==
    [status |-> status, fiveHour |-> NoWindow, sevenDay |-> NoWindow]

NotChecked == Failure("")

\* What the clock does to a stored window: its reset comes one tick closer.
Closer(reset) == IF reset > 0 THEN reset - 1 ELSE reset
Aged(result) ==
    [result EXCEPT !.fiveHour.reset = Closer(@), !.sevenDay.reset = Closer(@)]

\* The most constrained window; a nil one is no constraint and never wins.
bindingWindow(result) ==
    LET five == result.fiveHour  seven == result.sevenDay
    IN  CASE five = NoWindow  -> seven
          [] seven = NoWindow -> five
          [] OTHER -> IF seven.remaining < five.remaining THEN seven ELSE five

-----------------------------------------------------------------------------
(* Eligibility, score and the swap hint                                    *)

loadBalanceMinFiveHourRemaining == 5
loadBalanceNearResetBonus == 25
swapRemainingThreshold == 10

\* The part of evaluateLoadBalanceFields that looks at the cached quota.
QuotaUsable(result) ==
    LET five == result.fiveHour  seven == result.sevenDay
    IN  /\ result.status = "supported"
        /\ five # NoWindow
        /\ five.reset > 0
        /\ five.remaining > loadBalanceMinFiveHourRemaining
        /\ seven # NoWindow =>
             /\ seven.reset # 0
             /\ seven.remaining > loadBalanceMinFiveHourRemaining

\* Scores are scaled by 100 * NearResetWindow to stay integers: the remaining
\* percentage, plus a bonus that grows as the reset of the window comes near.
loadBalanceQuotaScore(window) ==
    LET base == 100 * NearResetWindow * window.remaining
    IN  CASE window.remaining <= loadBalanceMinFiveHourRemaining -> 0
          [] window.reset > 0 /\ window.reset < NearResetWindow ->
               base + 100 * loadBalanceNearResetBonus
                          * (NearResetWindow - window.reset)
          [] OTHER -> base

Score(result) == loadBalanceQuotaScore(bindingWindow(result))

\* Equal up to loadBalanceScoreEpsilon = 0.01, scaled like the scores.
sameLoadBalanceScore(a, b) == a - b \in -NearResetWindow..NearResetWindow

\* ShouldSwapLease: advise the holder to move to a fresher account.
ShouldSwap(result) ==
    /\ bindingWindow(result) # NoWindow
    /\ result.status \in {"", "supported"}
    /\ bindingWindow(result).remaining < swapRemainingThreshold

-----------------------------------------------------------------------------
(* The pick.  Accounts are numbered in the order of their ids; quota maps  *)
(* each to its cached result.                                              *)

\* The sort order of the candidates: the higher score, then the lower id.
Before(quota, a, b) ==
    LET sa == Score(quota[a])  sb == Score(quota[b])
    IN  IF sameLoadBalanceScore(sa, sb) THEN a < b ELSE sa > sb

\* Scores that are the same as a third are the same.  Nothing ensures it; where
\* it fails Before is no order, and the sort may leave the candidates in any.
Sortable(quota, available) ==
    \A a, b, c \in available :
        /\ sameLoadBalanceScore(Score(quota[a]), Score(quota[b]))
        /\ sameLoadBalanceScore(Score(quota[b]), Score(quota[c]))
        => sameLoadBalanceScore(Score(quota[a]), Score(quota[c]))

\* The candidate that the sort puts first.
Leaders(quota, available) ==
    {a \in available : \A b \in available : ~ Before(quota, b, a)}

\* Defect: the round robin goes over every candidate.
TopGroup_Everyone(quota, available, leader) == available

\* The accounts that share the leader's score: the round robin goes over them.
TopGroup(quota, available, leader) ==
    {a \in available :
        sameLoadBalanceScore(Score(quota[a]), Score(quota[leader]))}

\* Defect: the search begins at the account that was served last.
IsNextAfter_Itself(group, last, a) ==
    LET above == {b \in group : b >= last}
        ring == IF above = {} THEN group ELSE above
    IN  a \in ring /\ \A b \in ring : a <= b

\* The account after last in the group's circular order by id.
IsNextAfter(group, last, a) ==
    LET above == {b \in group : b > last}
        ring == IF above = {} THEN group ELSE above
    IN  a \in ring /\ \A b \in ring : a <= b

\* What ClaimLease and SelectAccountForRun may select: the account after the
\* last one served when that one is still in the top group, else the leader.
Picks(quota, available, last) ==
    {a \in available : Sortable(quota, available) =>
        \E leader \in Leaders(quota, available) :
            LET group == TopGroup(quota, available, leader)
            IN  IF last \in group THEN a \in group /\ IsNextAfter(group, last, a)
                ELSE a = leader}
=============================================================================
