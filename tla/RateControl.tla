---------------------------- MODULE RateControl ----------------------------
(***************************************************************************)
(* The TGS policy: a best-effort (BE) process holds its launches to so     *)
(* many thread blocks per period (rate_limiter, rate_watcher), and sets    *)
(* that limit from the rates that the high-priority (HP) process reports   *)
(* over a socket (limit_manager, update_rate_limit; the HP's rate_watcher).*)
(*                                                                         *)
(* One device.  Threads is one BE process; what another BE process does to *)
(* the path of the socket shows here as an HP that never connects.  The    *)
(* rates are those an HP happens to reach (Workloads): how it measures     *)
(* them is left out, as is the prefetch at a disconnect (MemRanges).  A    *)
(* product of a double and an integer is truncated here where the code     *)
(* stores it in an integer, and also in the rate estimate.                 *)
(***************************************************************************)
EXTENDS Integers, Sequences, FiniteSets, FiniteSetsExt, SequencesExt

CONSTANTS
  Threads,        \* threads of the BE process
  Hps,            \* lives of HP processes
  Workloads,      \* how often each thread launches, and what each HP reports:
                  \* its estimate and then a rate each period, or nothing
  NoHp,           \* no connection
  Sizes,          \* thread blocks of a launch
  WindowSize,     \* WINDOW_SIZE
  ProfileTime,    \* PROFILE_TIME
  SettleSamples,  \* samples before quiet periods count (15)
  QuietRate,      \* a rate below it counts as a quiet period (1000)
  ZeroTolerance,  \* quiet periods a window may have: WINDOW_SIZE / 5 * 2
  Patience,       \* far samples until the estimate is lowered (20)
  Initializer,    \* TGS_LIMIT_INITIALIZER
  RateMin,        \* RATE_MIN
  SlowCeiling,    \* 2^40, which slow start may always reach
  AvoidCeiling,   \* 2^32, which congestion avoidance may always reach
  UpperLimit,     \* UPPER_LIMIT
  RateThreshold,  \* TGS_RATE_THRESHOLD_PCT
  ReprofileThreshold, \* TGS_REPROFILE_THRESHOLD_PCT
  MaxBuffered     \* bound: reports in a socket that are not read

ASSUME SizeAssumption ==
  /\ Sizes \subseteq Nat /\ Sizes # {} /\ IsFiniteSet(Sizes)
  /\ IsFiniteSet(Threads) /\ IsFiniteSet(Hps) /\ NoHp \notin Hps
  /\ Workloads \subseteq [launches : [Threads -> Nat], reports : [Hps -> Seq(Nat)]]
ASSUME LimitAssumption ==
  /\ {Initializer, RateMin} \subseteq 1 .. UpperLimit
  /\ {SlowCeiling, AvoidCeiling, UpperLimit} \subseteq Nat
  /\ {SettleSamples, Patience} \subseteq Nat \ {0}
  /\ {QuietRate, ZeroTolerance, MaxBuffered} \subseteq Nat
  /\ {RateThreshold, ReprofileThreshold} \subseteq Nat
\* A window has neighbours, and a profile is over only after it has seen some.
ASSUME WindowAssumption ==
  WindowSize \in Nat /\ WindowSize >= 2 /\ ProfileTime \in Nat /\ ProfileTime >= 3

Free == -1        \* no limit was in force

\* Each thread may initialize the device, so there may be one manager and one
\* watcher for each thread.
Helpers == 1 .. Cardinality(Threads)

VARIABLES
  active,   \* g_active_gpu
  call,     \* what a thread does, and the size of its launch
  launches, \* launches each thread has yet to make
  counter,  \* g_rate_counter
  current,  \* g_current_rate
  limit,    \* g_rate_limit
  flag,     \* g_rate_control_flag
  sign,     \* update_rate_limit's static sign
  diffs,    \* update_rate_limit's static max_diff_counter
  watcher,  \* what each rate_watcher of the BE does, and the count it read
  manager,  \* each limit_manager, with the locals of its connection
  path,     \* the manager whose socket the path names, or 0
  backlog,  \* connections that a manager has not accepted
  hp,       \* each HP: what it does, its reports, and how many are sent
  allowed   \* the largest limit a launch passed since the counter was
            \* cleared, or Free (for the properties)

launcherVars == <<active, call, launches>>
countVars    == <<counter, current, watcher, allowed>>
controlVars  == <<limit, flag, sign, diffs, manager>>
socketVars   == <<path, backlog, hp>>
vars         == <<launcherVars, countVars, controlVars, socketVars>>

Least(a, b) == IF a < b THEN a ELSE b
Most(a, b)  == IF a > b THEN a ELSE b

NewManager ==
  [pc |-> "none", hp |-> NoHp, read |-> 0, window |-> << >>, maxRate |-> 0,
   round |-> 0, sample |-> 0, cnt |-> 0, state |-> "none"]

Init ==
  /\ active = FALSE
  /\ call = [t \in Threads |-> [pc |-> "idle", size |-> 0]]
  /\ counter = 0 /\ current = 0
  /\ limit = 0 /\ flag = FALSE /\ sign = 0 /\ diffs = 0
  /\ watcher = [w \in Helpers |-> [pc |-> "none", count |-> 0]]
  /\ manager = [m \in Helpers |-> NewManager]
  /\ path = 0 /\ backlog = [m \in Helpers |-> << >>]
  /\ \E w \in Workloads :
       /\ launches = w.launches
       /\ hp = [h \in Hps |->
                  [pc |-> IF w.reports[h] = << >> THEN "gone" ELSE "new",
                   trace |-> w.reports[h], sent |-> 0]]
  /\ allowed = 0

---------------------------------------------------------------------------
(* The threads that launch: rate_limiter. *)

Goto(t, pc) == call' = [call EXCEPT ![t].pc = pc]

LimitedByLastPeriod ==       \* mutant: compares what the last period counted
  flag /\ current > limit

Limited == flag /\ counter > limit    \* launch_test

BeginLaunch(t) ==
  /\ call[t].pc = "idle" /\ launches[t] > 0
  /\ \E size \in Sizes :
       call' = [call EXCEPT ![t] =
                  [pc |-> IF active THEN "test" ELSE "initialize", size |-> size]]
  /\ launches' = [launches EXCEPT ![t] = @ - 1]
  /\ UNCHANGED <<active, countVars, controlVars, socketVars>>

\* initialization: another thread may have been past the same test, and both
\* start a watcher and a manager.
Initialize(t) ==
  /\ call[t].pc = "initialize"
  /\ active' = TRUE /\ Goto(t, "test")
  /\ LET i == Min({j \in Helpers : watcher[j].pc = "none"}) IN
     /\ watcher' = [watcher EXCEPT ![i].pc = "start"]
     /\ manager' = [manager EXCEPT ![i].pc = "listen"]
  /\ UNCHANGED <<launches, counter, current, allowed, limit, flag, sign, diffs,
                 socketVars>>

PassTest(t) ==
  /\ call[t].pc = "test" /\ ~Limited
  /\ Goto(t, "add")
  /\ allowed' = IF flag /\ allowed # Free THEN Most(allowed, limit) ELSE Free
  /\ UNCHANGED <<active, launches, counter, current, watcher, controlVars,
                 socketVars>>

AddBlocks(t) ==
  /\ call[t].pc = "add"
  /\ counter' = counter + call[t].size
  /\ Goto(t, "idle")
  /\ UNCHANGED <<active, launches, current, watcher, allowed, controlVars,
                 socketVars>>

---------------------------------------------------------------------------
(* The period of the BE: rate_watcher, with plain loads and stores. *)

Watch(w, pc) ==
  /\ watcher[w].pc = pc
  /\ UNCHANGED <<launcherVars, controlVars, socketVars>>

StartWatcher(w) ==
  /\ Watch(w, "start")
  /\ counter' = 0 /\ allowed' = 0
  /\ watcher' = [watcher EXCEPT ![w].pc = "read"]
  /\ UNCHANGED current

ReadCounter(w) ==
  /\ Watch(w, "read")
  /\ watcher' = [watcher EXCEPT ![w] = [pc |-> "clear", count |-> counter]]
  /\ UNCHANGED <<counter, current, allowed>>

ClearCounter(w) ==
  /\ Watch(w, "clear")
  /\ counter' = 0 /\ allowed' = 0
  /\ current' = watcher[w].count
  /\ watcher' = [watcher EXCEPT ![w] = [pc |-> "read", count |-> 0]]

---------------------------------------------------------------------------
(* The HP's side: rate_watcher of hp_intercept.c. *)

\* The BE process ends a connection only by reading its end, so a write does
\* not fail and an HP does not connect twice.
HpStep(h, pc) ==
  /\ hp[h].pc = pc
  /\ UNCHANGED <<launcherVars, countVars, controlVars, path>>

HpConnect(h) ==
  /\ HpStep(h, "new") /\ path # 0
  /\ hp' = [hp EXCEPT ![h].pc = "connected"]
  /\ backlog' = [backlog EXCEPT ![path] = Append(@, h)]

Unread(h) ==
  hp[h].sent - (IF \E m \in Helpers : manager[m].hp = h
                THEN Max({manager[m].read : m \in {n \in Helpers : manager[n].hp = h}})
                ELSE 0)

HpReport(h) ==
  /\ HpStep(h, "connected")
  /\ hp[h].sent < Len(hp[h].trace) /\ Unread(h) < MaxBuffered
  /\ hp' = [hp EXCEPT ![h].sent = @ + 1]
  /\ UNCHANGED backlog

HpExit(h) ==
  /\ HpStep(h, "connected")
  /\ hp' = [hp EXCEPT ![h].pc = "gone"]
  /\ UNCHANGED backlog

---------------------------------------------------------------------------
(* The estimate of the HP's rate (shift_window, relative_delta, profile). *)

EmptyWindow == [i \in 1 .. WindowSize |-> 0]

\* shift_window: the largest mean of two neighbours, before the sample is in.
Means(window) == {(window[i] + window[i - 1]) \div 2 : i \in 2 .. WindowSize}
Largest(S)    == CHOOSE x \in S : \A y \in S : y <= x
Seen(m)       == Largest({0} \union Means(manager[m].window))
Shift(window, rate) ==
  [i \in 1 .. WindowSize |-> IF i = 1 THEN rate ELSE window[i - 1]]

\* relative_delta against a percentage; a difference from 0 is infinite.
Above(value, base, percent) ==
  IF base = 0 THEN value > 0 ELSE 100 * (value - base) > percent * base
Below(value, base, percent) == base # 0 /\ 100 * (base - value) > percent * base

Reestimate(maxRate, seen) ==
  IF Above(seen, maxRate, 0) THEN Most(maxRate, (seen * 975) \div 1000)
  ELSE Least(maxRate, (seen * 1025) \div 1000)

ProfileEstimateKeeps(maxRate, seen) ==   \* mutant: never lowers the estimate
  Most(maxRate, seen)

ProfileEstimate(maxRate, seen) ==
  IF Above(seen, maxRate, 5) \/ Below(seen, maxRate, 5)
  THEN Reestimate(maxRate, seen) ELSE Most(maxRate, seen)

NeedsProfile(maxRate, seen) ==
  /\ Above(seen, maxRate, 10) \/ Below(seen, maxRate, 10)
  /\ \/ Above(seen, maxRate, ReprofileThreshold)
     \/ Below(seen, maxRate, ReprofileThreshold)

ControlEstimate(maxRate, seen) ==
  CASE NeedsProfile(maxRate, seen) ->
         IF Above(seen, maxRate, 20) THEN Most(maxRate, (seen * 975) \div 1000)
         ELSE Least(maxRate, (seen * 1025) \div 1000)
    [] Above(seen, maxRate, 10) \/ Below(seen, maxRate, 10) -> maxRate
    [] OTHER -> Most(maxRate, seen)

---------------------------------------------------------------------------
(* update_rate_limit *)

Capped(value, ceiling) == Least(value, Least(UpperLimit, Most(3 * current, ceiling)))

Off(rate, maxRate) == 100 * (IF rate > maxRate THEN rate - maxRate ELSE maxRate - rate)
Far(rate, maxRate, times) ==
  Off(rate, maxRate) - times * RateThreshold * Most(maxRate, 1)

\* The limit, state and sign after the switch on the state.
Switched(state, rate, maxRate) ==
  LET far  == Far(rate, maxRate, 1)
      grow == (sign = -1 /\ far <= 0) \/ (sign = 1 /\ far < 0)
      step == IF grow
              THEN [limit |-> Capped(limit + Most(maxRate \div 4000, RateMin), AvoidCeiling),
                    state |-> "avoidance", sign |-> 1]
              ELSE [limit |-> Capped(limit - Most((limit * 8) \div 100, RateMin), AvoidCeiling),
                    state |-> "avoidance", sign |-> -1]
  IN CASE state = "slow" /\ far <= 0 ->
            [limit |-> Capped((limit * 3) \div 2 + 1, SlowCeiling),
             state |-> "slow", sign |-> sign]
       [] state = "slow" /\ far > 0 ->
            [limit |-> (limit * 2) \div 3, state |-> "avoidance", sign |-> -1]
       [] state = "avoidance" /\ Far(rate, maxRate, 3) >= 0 ->
            [step EXCEPT !.limit = @ \div 10, !.state = "slow"]
       [] OTHER -> step

UpdatedUnclamped(state, rate, maxRate) ==   \* mutant: no lower bound
  LET next == Switched(state, rate, maxRate) IN
  [limit |-> next.limit, state |-> next.state, sign |-> next.sign, diffs |-> 0,
   maxRate |-> maxRate]

\* Far from the estimate for long: lower the estimate.
Updated(state, rate, maxRate) ==
  LET next  == Switched(state, rate, maxRate)
      count == IF Far(rate, maxRate, 4) >= 0 THEN diffs + 1 ELSE 0
  IN IF count >= Patience
     THEN [limit |-> Most(next.limit \div 2, 0), state |-> "slow", sign |-> next.sign,
           diffs |-> 0, maxRate |-> (maxRate * 4) \div 5]
     ELSE [limit |-> Most(next.limit, 0), state |-> next.state, sign |-> next.sign,
           diffs |-> count, maxRate |-> maxRate]

---------------------------------------------------------------------------
(* limit_manager *)

Manage(m, pc) ==
  /\ manager[m].pc = pc
  /\ UNCHANGED <<launcherVars, countVars, hp>>

Becomes(m, next) == manager' = [manager EXCEPT ![m] = next]

\* open_listenfd removes what is at the path, also another manager's socket.
Listen(m) ==
  /\ Manage(m, "listen")
  /\ path' = m /\ Becomes(m, [manager[m] EXCEPT !.pc = "accept"])
  /\ UNCHANGED <<backlog, limit, flag, sign, diffs>>

Accept(m) ==
  /\ Manage(m, "accept") /\ backlog[m] # << >>
  /\ Becomes(m, [manager[m] EXCEPT !.pc = "hello", !.hp = Head(backlog[m]), !.read = 0])
  /\ backlog' = [backlog EXCEPT ![m] = Tail(@)]
  /\ UNCHANGED <<path, limit, flag, sign, diffs>>

\* rio_readn gets all that was sent before it meets the end.
CanRead(m) == manager[m].read < hp[manager[m].hp].sent
AtEnd(m)   == ~CanRead(m) /\ hp[manager[m].hp].pc = "gone"
Report(m)  == hp[manager[m].hp].trace[manager[m].read + 1]
Rate(m)    == Most(Report(m), 1)

Receive(m, pc) == Manage(m, pc) /\ CanRead(m) /\ UNCHANGED <<path, backlog>>

\* The limit at the start of a profile: what was learned is kept later on.
ProfileLimit(round) == IF round = 1 THEN 0 ELSE limit

StartProfile(m, maxRate) ==
  LET round == manager[m].round + 1 IN
  /\ Becomes(m, [manager[m] EXCEPT
       !.pc = "profile", !.read = @ + 1, !.window = EmptyWindow, !.maxRate = maxRate,
       !.round = round, !.sample = 0, !.cnt = 0, !.state = "none"])
  /\ limit' = ProfileLimit(round)
  /\ UNCHANGED <<sign, diffs>>

Hello(m) ==
  /\ Receive(m, "hello")
  /\ flag' = TRUE
  /\ StartProfile(m, Report(m))

\* A connection that ends before its first report is left open.
NoHello(m) ==
  /\ Manage(m, "hello") /\ AtEnd(m)
  /\ Becomes(m, [NewManager EXCEPT !.pc = "accept"])
  /\ UNCHANGED <<path, backlog, limit, flag, sign, diffs>>

ProfileSample(m) ==
  /\ Receive(m, "profile")
  /\ \E seen \in {Seen(m)} :
     \E estimate \in {ProfileEstimate(manager[m].maxRate, seen)} :
       LET last == manager[m].sample + 1 = ProfileTime IN
       Becomes(m, [manager[m] EXCEPT
         !.pc = IF last THEN "control" ELSE "profile",
         !.read = @ + 1, !.sample = @ + 1, !.window = Shift(@, Rate(m)),
         !.maxRate = IF last THEN Most(estimate, 1) ELSE estimate])
  /\ UNCHANGED <<limit, flag, sign, diffs>>

\* What a sample makes of the locals of the manager and of the limit, once the
\* control has begun.
Controlled(m, maxRate, window) ==
  LET cnt   == manager[m].cnt + 1
      zeros == Cardinality({i \in 1 .. WindowSize : window[i] < QuietRate})
      Restart(value) ==      \* init_rate_limit
        [limit |-> value, state |-> "slow", sign |-> sign, diffs |-> diffs,
         maxRate |-> maxRate]
  IN CASE cnt = 1 -> Restart(Initializer)
       [] cnt >= SettleSamples /\ cnt # 1 /\ zeros > ZeroTolerance ->
            Restart(Capped(UpperLimit, AvoidCeiling))
       [] cnt > SettleSamples /\ zeros = ZeroTolerance -> Restart(Initializer)
       [] OTHER -> Updated(manager[m].state, Rate(m), maxRate)

ControlSample(m) ==
  /\ Receive(m, "control") /\ UNCHANGED flag
  /\ \E seen \in {Seen(m)} : \E maxRate \in {ControlEstimate(manager[m].maxRate, seen)} :
       \/ NeedsProfile(manager[m].maxRate, seen) /\ StartProfile(m, maxRate)
       \/ /\ ~NeedsProfile(manager[m].maxRate, seen)
          /\ \E window \in {Shift(manager[m].window, Rate(m))} :
             \E next \in {Controlled(m, maxRate, window)} :
               /\ limit' = next.limit /\ sign' = next.sign /\ diffs' = next.diffs
               /\ Becomes(m, [manager[m] EXCEPT
                    !.read = @ + 1, !.window = window, !.cnt = @ + 1,
                    !.maxRate = next.maxRate, !.state = next.state])

\* The end of the connection, in the profile or in the loop after it.
Disconnect(m) ==
  /\ \E pc \in {"profile", "control"} : Manage(m, pc)
  /\ AtEnd(m)
  /\ limit' = 0 /\ Becomes(m, [manager[m] EXCEPT !.pc = "prefetch"])
  /\ UNCHANGED <<path, backlog, flag, sign, diffs>>

EndControlKeepsFlag(m) ==   \* mutant: the flag is not reset
  /\ Manage(m, "prefetch")
  /\ Becomes(m, [NewManager EXCEPT !.pc = "accept"])
  /\ UNCHANGED <<path, backlog, limit, flag, sign, diffs>>

\* The control ends after the prefetch.
EndControl(m) ==
  /\ Manage(m, "prefetch")
  /\ flag' = FALSE /\ Becomes(m, [NewManager EXCEPT !.pc = "accept"])
  /\ UNCHANGED <<path, backlog, limit, sign, diffs>>

---------------------------------------------------------------------------
LaunchStep(t) == PassTest(t) \/ AddBlocks(t) \/ Initialize(t)
WatcherStep(w) == StartWatcher(w) \/ ReadCounter(w) \/ ClearCounter(w)
ManagerStep(m) ==
  \/ Listen(m) \/ Accept(m) \/ Hello(m) \/ NoHello(m) \/ ProfileSample(m)
  \/ ControlSample(m) \/ Disconnect(m) \/ EndControl(m)

Next ==
  \/ \E t \in Threads : BeginLaunch(t) \/ LaunchStep(t)
  \/ \E i \in Helpers : WatcherStep(i) \/ ManagerStep(i)
  \/ \E h \in Hps : HpConnect(h) \/ HpReport(h) \/ HpExit(h)

Spec == Init /\ [][Next]_vars

\* The helper threads run for as long as the process, and a launch retests
\* every few milliseconds.  An HP promises its first report, which it writes
\* as soon as it is connected, and nothing after it.
Fairness ==
  /\ \A t \in Threads : WF_vars(LaunchStep(t))
  /\ \A i \in Helpers : WF_vars(WatcherStep(i)) /\ WF_vars(ManagerStep(i))
  /\ \A h \in Hps : WF_vars(hp[h].sent = 0 /\ HpReport(h))

LiveSpec == Spec /\ Fairness

---------------------------------------------------------------------------
(* Properties *)

Serving(m) == manager[m].pc \in {"profile", "control"}

ManagerType ==
  [pc : {"none", "listen", "accept", "hello", "profile", "control", "prefetch"},
   hp : Hps \union {NoHp}, read : Nat,
   window : {<< >>} \union [1 .. WindowSize -> Nat], maxRate : Nat, round : Nat,
   sample : Nat, cnt : Nat, state : {"none", "slow", "avoidance"}]

\* The counts and the limit never turn negative or pass UPPER_LIMIT, the
\* helper threads are those that initialization started, and a connection is
\* with at most one manager (be_intercept.c: rate_limiter, update_rate_limit, accept).
TypeOK ==
  /\ active \in BOOLEAN /\ flag \in BOOLEAN
  /\ call \in [Threads -> [pc : {"idle", "initialize", "test", "add"}, size : {0} \union Sizes]]
  /\ launches \in [Threads -> Nat]
  /\ {counter, current} \subseteq Nat
  /\ limit \in 0 .. UpperLimit
  /\ sign \in {-1, 0, 1} /\ diffs \in 0 .. Patience - 1
  /\ watcher \in [Helpers -> [pc : {"none", "start", "read", "clear"}, count : Nat]]
  /\ manager \in [Helpers -> ManagerType]
  /\ \A i \in Helpers : (watcher[i].pc = "none") <=> (manager[i].pc = "none")
  /\ backlog \in [Helpers -> Seq(Hps)]
  /\ hp \in [Hps -> [pc : {"new", "connected", "gone"}, trace : Seq(Nat), sent : Nat]]
  /\ path \in {0} \union {i \in Helpers : manager[i].pc \notin {"none", "listen"}}
  /\ \A h \in Hps :
       Cardinality({m \in Helpers : manager[m].hp = h \/ h \in ToSet(backlog[m])}) <= 1
  /\ allowed \in {Free} \union 0 .. UpperLimit

\* Between two clears of the counter, launches that were all held to a limit
\* exceed the largest of those limits by at most one launch of each thread,
\* however the test, the addition, the clearing and the changes of the limit
\* interleave (rate_limiter tests and adds without a lock).
OvershootBounded ==
  allowed # Free => counter <= allowed + Cardinality(Threads) * Max(Sizes)

\* The types, and the bound on what the rate limiter lets through.
RateHeld == TypeOK /\ OvershootBounded

Reports(m) == {hp[manager[m].hp].trace[i] : i \in 2 .. manager[m].read}
Profile(m) == {hp[manager[m].hp].trace[i] :
                 i \in manager[m].read - ProfileTime + 1 .. manager[m].read}

\* What the manager takes for the HP's rate is never more than the HP has
\* reported in this connection, whatever its first message says, and after a
\* profile never much less than the least rate of the profile.
EstimateWithinReports ==
  \A m \in Helpers : Serving(m) /\ manager[m].sample > 0 =>
    /\ manager[m].maxRate <= Max(Reports(m) \union {1})
    /\ manager[m].pc = "control" /\ manager[m].cnt = 0
         => 1000 * (manager[m].maxRate + 1) >= 975 * Min(Profile(m))

\* Every launch gets past the rate limiter, whatever limit the HP's reports
\* lead to: each period clears the counter, and a limit of 0 lets one through.
LaunchesReturn ==
  \A t \in Threads : call[t].pc # "idle" ~> call[t].pc = "idle"

Reporting(h) == hp[h].pc = "connected" /\ hp[h].sent > 0

\* A BE that initialized comes under control when an HP connected to it and
\* reported, and is let go when all HPs are gone.
ControlFollowsHp ==
  /\ (\E h \in Hps : Reporting(h)) ~> (flag \/ ~\E h \in Hps : Reporting(h))
  /\ (\A h \in Hps : hp[h].pc = "gone") ~> ~flag

=============================================================================
