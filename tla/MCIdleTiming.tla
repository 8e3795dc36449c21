---------------------------- MODULE MCIdleTiming ----------------------------
(* A small instance of IdleTiming for TLC.                                 *)
EXTENDS IdleTiming

TwoBuckets == <<8, 16>>

\* A ring smaller than the promoted window, and settings out of range.
Base ==
  [policy |-> "survival", count |-> 2, minSamples |-> 1, confidence |-> 50,
   promote |-> Unset, gapFraction |-> Unset, guard |-> 0, coldStart |-> 8,
   context |-> 8, window |-> 5, blockBudget |-> 8, timeBudget |-> 40,
   internalWindow |-> Unset, promotedWindow |-> Unset, internalBudget |-> 16,
   promotedBudget |-> 32]
Survival == Base
Gap      == [Base EXCEPT !.policy = "gap", !.guard = 8]
Time     == [Base EXCEPT !.policy = "time", !.gapFraction = 0, !.count = 65]

ThreePolicies == {Survival, Gap, Time}
LaunchCosts   == {8, 127}
InFlight      == {0, 16}
============================================================================
