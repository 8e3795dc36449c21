------------------------------ MODULE BePromise ------------------------------
(***************************************************************************)
(* What one best-effort process promises the high-priority process and the *)
(* launcher, without its ring, its lock, its profiler and its predictors:  *)
(*                                                                         *)
(*   - it holds at most one permit to launch, and takes a permit only      *)
(*     while the HP is not active;                                         *)
(*   - a launch uses up the permit;                                        *)
(*   - admitted launches on the device stay within a window, and, when two *)
(*     or more are there together, within a budget.                        *)
(*                                                                         *)
(* It speaks of the launches the process knows of: a failed wait may make  *)
(* it lose sight of one, which then no longer counts.                      *)
(*                                                                         *)
(* BeAdmission implements it, under the mapping given there.               *)
(***************************************************************************)
EXTENDS Integers, FiniteSets, Functions

CONSTANTS PromisedWindow, PromisedBudget

VARIABLES
  hpSays,   \* "none", "idle" or "active"
  permit,   \* may the process launch
  device    \* admitted launches on the device it knows of: number and cost

promiseVars == <<hpSays, permit, device>>

Fits(d) ==
  /\ Cardinality(d) <= PromisedWindow
  /\ Cardinality(d) >= 2 => SumFunction([q \in d |-> q.cost]) <= PromisedBudget

PromiseInit == hpSays = "none" /\ permit = FALSE /\ device = {}

\* The permit is taken while the HP is not active.
Permit == hpSays # "active" /\ ~permit /\ permit' = TRUE /\ UNCHANGED <<hpSays, device>>

\* A launch ends, or the process loses sight of it.
OneLess == \E q \in device \ device' : device' = device \ {q}
CompleteOne == OneLess /\ UNCHANGED <<hpSays, permit>>

\* It is given back: the driver refuses the launch, or the predictor rejects it
\* and the process waits for an older one.
Withdraw ==
  /\ permit /\ permit' = FALSE
  /\ UNCHANGED device \/ OneLess
  /\ UNCHANGED hpSays

\* It is used, for an admitted launch or for one made while there was no HP.
LaunchOne ==
  /\ permit /\ permit' = FALSE
  /\ \/ UNCHANGED device
     \/ \E q \in device' : device = device' \ {q} /\ q \notin device /\ Fits(device')
  /\ UNCHANGED hpSays

HpChanges == hpSays' # hpSays /\ UNCHANGED <<permit, device>>

PromiseNext == Permit \/ Withdraw \/ LaunchOne \/ CompleteOne \/ HpChanges

Promise == PromiseInit /\ [][PromiseNext]_promiseVars
============================================================================
