# Lilt in TLA+

Lilt shares one GPU between a high-priority (HP) process and best-effort (BE)
processes. Each process loads a proxy `libcuda.so.1`; the HP proxy publishes
when the HP has work on the device, the BE proxies hold their launches back
while it has, and limit what they leave on the device when it has not. These
modules specify that protocol as the code implements it, TLC checks small
instances, and TLAPS proves the safety properties for every value of the constants.
Paths below are relative to `src/`; `be_intercept.c`, `hp_intercept.c`,
`activity_tracker.c`, `graph_scheduler.c`, `driver_proxy_compat.c` and `loader.c`
are in `hijack/src/`.

## The system

| Component | Code | State | Operations |
|---|---|---|---|
| BE admission controller, online kernel profiler | `be_intercept.c` 84-1104 | ring of in-flight launches with three totals, profile table, the globals of the launch being made, all under `g_be_event_lock` | `event_be_before_launch`, `event_be_after_launch`, `lilt_graphlet_boundary`, retirement, prediction |
| HP activity monitor, completion tracker | `hp_intercept.c` 58-670 | one slot and event per stream, launches in progress, record generation, a watcher thread | `event_hp_before_launch`, `event_hp_after_launch`, three watcher loops, destructor |
| Shared activity words | `activity_tracker.c` | a POSIX shared-memory segment: state, owner pid, registration count, timing words | register, unregister, mark active and idle, owner check with reclaim, futex wait |
| Idle predictors | `activity_tracker.c` 74-85, 256-327; `be_intercept.c` 655-874 | EWMA and histogram of idle periods | gap budget, survival probability |
| Graph-granularity recovery | `graph_scheduler.c` | recorded graphs, their graphlets | record, build, invalidate, launch |
| TGS rate control (older policy) | `be_intercept.c` 1262-1822, `hp_intercept.c` 762-1000 | counters, limits, a socket between the processes | rate limiter, watcher, limit manager, estimator |
| BE memory ranges | `be_intercept.c` 63-72, 1183-1254, 1843-2086 | list of managed allocations | allocate, free, prefetch |
| Loader, entry proxy, forwarding wrappers | `loader.c`, `driver_proxy_compat.c`, `cuda_originals.c`, `nvml_entry.c` | table of driver symbols | lookup, forward |
| Launcher, build, tests | `scripts/`, `tests/`, `examples/` | none | set the environment and exec |

How they interact:

    HP process                      shared segment                    BE process
    launch wrapper                                                    launch wrapper
     before_launch -- ACTIVE -->  hp_state        <-- load, futex --  before_launch
     driver launch                hp_owner_pid    <-- load, kill --    (lock held)
     after_launch                 hp_registration..                   driver launch
        | event per stream                                            after_launch -> ring
     watcher ------- IDLE ----->  hp_state                            retire: event wait

What is hard here, and hardly reachable by the repository's tests (a launcher
test and a configuration test):

* the BE's check of the HP and its launch are two moments, and so are an HP
  launch and the record of its event;
* events are reused: an event may be recorded again while a thread sleeps on its
  older completion;
* the HP exits or is killed between any two stores to the shared words, and BE
  processes repair what it leaves behind, several at a time;
* each CUDA call can fail after the kernel was launched, and so can the fallback,
  whose result the code does not look at;
* a ring, its head and tail and three running totals have to agree over every
  sequence of launches, retirements and failures (the asserts that say so are
  compiled out of a release build);
* handles are names: the per-thread default stream, and a handle whose stream is
  destroyed;
* statistics are stored and read word by word, with nothing to order the two;
* two locks, one held across waits under the other, while a graph is launched;
* checks and updates without a lock: the rate limiter's counter, the first use of
  the list of allocations, the loading of the driver by the first call;
* a program reaches a driver function in many ways (linking, `dlsym`,
  `cuGetProcAddress` of two versions and two stream modes), and all have to end in
  the hooked function.

`PROJECT.json` lists these hazards line by line with the properties that cover
them.

## Modules

### BeAdmission

One BE process. `pc[t]` follows a thread through `event_be_before_launch`, the
driver's launch and `event_be_after_launch`; `lock` is `g_be_event_lock`, held
all the way. `slots`, `head`, `tail`, `outstanding`, `outBlocks` and
`outPredicted` are the `g_be_*` variables of those names, `current` is the
`g_be_current_*` globals with the locals of the launch, `profiles` the profile
table by signature. `inflight` is the device, ordered within a stream and in any
order between streams. A completion event is the number of the last launch it was
recorded after; a slot keeps a plain event and a timing pair and waits for one of
them (`CompletionEvent`). `hp` changes at any moment, as another process does.

Every branch of the launch path is an action: bypass and its drain, the wait for
the HP, prediction, the limit of each policy, the admission loops, the survival
policy's recheck, the timing sample, the refused launch, the record that fails.
`RetireOldest` is the whole of `event_be_retire_oldest_locked`.
`StreamOf` tells the `_ptsz` entry points apart, where NULL means the caller's
own stream.

When the wait for an event fails, or an event cannot be recorded, the code
synchronizes the stream by its handle and goes on whatever that returned (600-605,
1080-1084). `Synchronized` is that wait, which succeeds, is for another stream (a
per-thread default one) or fails too (the fault `fallback`); `forgotten` notes the
launches that were still on the device when the ring gave them up (`GiveUp`). They
are in no window any more. The properties say where this matters: `WorkIsTracked`
that nothing else is lost, and the limits, the graph boundary and BePromise that
they speak of the launches the process knows of.

Abstracted: the gap and survival predictors choose any limit their arithmetic can
return (IdleTiming shows that they return these); the statistics counters; waits and sleeps have no duration; the startup
wait ends by itself; launches under stream capture do not reach the device and
are left out; counters do not wrap (they are bounded by the window, and budgets
by 10^9 ns).

### HpMonitor

The HP process: launching threads (`pc`, `call`), the watcher (`wpc` and its
locals `observed`, `snaps`, `at`, `awaited`), the slot table, and the device as
the number of launches issued and done on each stream. `abandoned` are the streams
whose synchronization failed in place of a slot (`hp_intercept.c` 603-616): its
result is not looked at, so IDLE may then be published over their work. A critical section under
`g_hp_event_lock` is one step unless the code waits for the device inside it;
`lock` then has a holder. The watcher's loops are split wherever they run without
the lock: each generation load, each deferred record, the moment
`cuEventSynchronize` captures the event it waits for, the wait, its fallback.
A setup (`Setups`) is a completion mode, which thread launches on which stream, and
the calls that may fail. `Before` includes starting the watcher,
`AfterTracked` the slot lookup, the record or its deferral, the publication and
the signal.

### ActivityTracker

The shared words, at the grain of single atomic accesses: HP processes register,
publish, unregister, exit or crash; BE processes run `lilt_event_hp_owner` and
`lilt_event_be_wait_until_idle`, with the reclaiming of dead owners, the futex and
its timeout. Segments are objects and the name is a pointer, so that unlinking
and mapping are what they are in POSIX. A process may hold several registrations
(`copies`), as with two copies of the library. `shm_open`, `ftruncate`, `mmap` and
`flock` can fail for the processes of `MayFailOpen` (131-160, `OpenFails`): an HP then
runs unregistered and tries again at a later call, and a BE takes it that there is
no HP (331-333) and passes even an active one, until a later launch maps the segment.
Left out: the timing words (IdleTiming), and reuse of process ids.

### BePromise

What a BE process promises, without its ring, lock and predictors: it holds at most
one permit to launch, takes it only while the HP is not active, uses it up by
launching, and keeps what it has on the device within a window and, when that is
more than one launch, within a budget; of the launches it has not lost to failed
waits. `KeepsPromise` in BeAdmission says that
BeAdmission implements it: the permit is the critical section between a thread's
last look at the HP and the driver's launch, the device the admitted launches with
their cost (predicted nanoseconds or blocks, by policy).

### IdleTiming

The timing words of the segment. A call of the HP (`Register`, `MarkActive`,
`MarkIdle`, `Unregister`) is the list of stores it makes, `HpStore` makes the next
one, and `HpCrash` drops the rest. The BE's snapshot (`LoadWord`) reads one word at
a time, and what it decides from it follows the code's arithmetic: remaining idle
time and the limits of the gap and time policies, numerator, denominator and target
of the survival policy, its episodes, its cold and sparse cases.
Numbers saturate at `Top`, which is `UINT64_MAX` there. Configurations are records
in `Environments`, with values out of range and unset ones, normalized as the
initialization does (`EnvironmentAssumption` says what they can be; the bound on the
clock is below `Top`).

### GraphBuild

`graph_build_graphlets`: reading nodes and edges (each call may fail, and a node type
or a device-launch graph may be refused), placing nodes in layers, closing groups
at the node limit, cloning the graph once per group and pruning it. `objects` is
what the driver has given and not got back. The arrays of indegrees are the edges
whose source is not placed yet. The two passes over the layers are apart, as in the code:
`CountLayer` counts the groups, `MakeArray` makes the array, `AddLayer` and
`LastGroup` fill it. So are the steps of a graphlet: `CloneGraph`, `PruneNode` for each
node of another layer, `Instantiate`; `GraphletFails` is a failure at any of them,
with `DestroyGraphlets`, which destroys what the array names where the driver has a
function for it. `objects` and `runs` are the driver's side, `groups` what the array
says of it.

### GraphScheduler

Extends BeAdmission. `gpc` and `gcall` follow a thread through
`lilt_graph_record`, `lilt_graph_invalidate`, `lilt_graph_forget` and
`lilt_graph_launch_impl`; `graphLock` is `g_graph_lock`. A graph launch is a call of
the controller's launch path per graphlet with `lilt_graphlet_boundary` after each,
or one for the whole graph. `driver` and `metas` give an executable graph and its
record a version each, so that a stale graphlet shows. `GraphletsOf` is what
GraphBuild makes of a graph. The controller's own actions are used as they are, with
graphlets as launches, so the theorems of BeAdmission carry over (the proofs use this
as a lemma, `GraphsRefine`; as a property it would hold by the way the module is
written).

### RateControl

The TGS policy. `rate_limiter` is a test and an addition; `rate_watcher` a read and a
clear; `limit_manager` a loop through `listen`, `accept`, `hello`, `profile` and
`control` with `update_rate_limit` on every report; the HP connects, reports the
rates of its `Workloads`, and leaves or dies. Two first launches may both initialize
the device, each with its own pair of helper threads. The window of reports, the
settling test, the multiplicative increase and decrease, `sign` and the run of large
differences follow the code, whose sizes and thresholds are parameters.

### MemRanges and Dispatch

MemRanges is the list of managed allocations: the unlocked look, the
initialization, the insertion and removal under `g_map_mutex`, and what the driver has
at every address: nothing, an allocation a thread has yet to record, or a recorded
one. An address is free again as soon as the driver's free returns, before the list
forgets it (`be_intercept.c` 1992). A list that was created twice leaves the ranges of
the first one in `lost`. The prefetch walks the list at the disconnect of the HP
(1683-1689). Dispatch includes it, and adds how a call gets to a
function: `dlsym`, the four `cuGetProcAddress` forms and the pointers they hand out
(with what was asked for kept in `answers`), the load under `pthread_once`, the
table, and the hooks around a launch with the thread-local bypass of a capture.
`cuLaunchCooperativeKernelMultiDevice` is a launch that has no hook: it is forwarded
like a query (`cuda_originals.c` 1025-1031). In a setup with aliases the driver's
`cuGetProcAddress` answers with other addresses than it exports, for any function, and
the proxy falls back on the flag and the version (`driver_proxy_compat.c` 241-262).
`CreateStream` has the fall-backs of both roles, to the driver's own creation or to
the priority the program asked for, when the range or the priority call fails.
One name stands for each kind of entry point: 458 CUDA and 238 NVML functions are
one-line wrappers of a handful of forms.

### Composition

HpMonitor, ActivityTracker and BeAdmission meet at `published`/`state`/`hp`: HpMonitor
shows when the HP publishes, ActivityTracker that what is published reaches the BE,
BeAdmission what the BE does with it. GraphScheduler contains BeAdmission, Dispatch
contains MemRanges. IdleTiming discharges what BeAdmission assumes of the
predictors: `LimitsAsAdmissionExpects` is the set its `EffectiveLimits` choose from,
and `RequestsAreAdmitted` is why `SurvivalAdmission` has strong fairness there.

## Runs

| Run | Shows | Bounds |
|---|---|---|
| BeTimeSum | the launcher's policy: ring and totals agree, no admitted work is lost but what a failed wait on a per-thread default stream gives up, samples are exact, one escape at most, BePromise is kept | 2 threads, a stream and a per-thread default one, 2 signatures, a profile table of one, window 2, 4 launches, 2 samples, durations below and over the budget, failing launches, samples, records and event waits; 3.3 million states |
| BeSurvival | limits are clamped, an unseen signature enters an empty window, every launch and boundary returns | promoted window and budget above the hard window, 4 launches, failing launches, records, event waits and the synchronizations that replace them |
| Hp | IDLE is never published over work (`IdleMeansIdle`), and ACTIVE ends in IDLE | the modes deferred, blocking and query; a shared, an own and a default stream; fewer slots than streams; a destroyed stream; failing starts, launches, records, waits, queries and synchronizations; 3 calls |
| Activity | what the HP publishes stays published (`PublicationKept`); no BE passes an active HP; a waiting BE is released by idle, exit or crash | one HP with 2 registrations, 2 BEs, 2 segments, crash of any process at any step, the HP and one BE may fail to map the segment |
| GraphBuild | a split runs every node once, keeps edges and limit, leaks nothing; layers are depths, only cyclic graphs are called cyclic; the build ends | every graph of up to 3 nodes, cyclic and malformed ones included, 128 of 4 nodes, six odd ones; groups of 2; every failure, with any of the driver's two destroying functions missing |
| Graph | graphlets go out one by one (`BoundaryHolds`), up to date, and are done when the call returns; every call returns | 2 threads, a graph of two graphlets and a kernel, per-thread default streams, updates and destruction, failing launches, records and builds, 3 calls |
| Idle | histogram and average are those of the idle periods (`StatisticsExact`); limits are what BeAdmission expects; the odds are never overestimated; every request is admitted | 3 policies, 2 buckets, 2 periods, 48 ns in steps of 8, HP killed between any two stores |
| Tgs | counts stay near the limit (`RateHeld`); the estimate is one the HP has reported; launches return; control follows the HP's coming and going | 2 threads, 2 HPs, six workloads, profiles of 3 reports |
| Dispatch | launches are hooked but for two kinds, lookups keep the kind of a function, hooks pair, no call through an empty table, the HP's streams outrank, the list covers the allocations (`MemoryAccounted`), calls return | 2 threads, 14 setups of driver, policy, role and lookups, 2 addresses and 2 records |
| HpTwoDefaults, ActivityRestart, GraphSingleton | counterexamples, see Findings | |

A module's type invariant is checked by itself where it is also proved (BeAdmission,
GraphBuild), and as the first conjunct of the run's main invariant elsewhere.
`DeviceWithinLimits` is implied by `KeepsPromise` in BeTimeSum.

The bounds reach the interesting cases. The ring of two wraps within four
launches; a table of one leaves a second signature without a profile; a window of
two is the smallest in which a budget matters; two BEs are needed for two reclaims
to race, two segments for a stale mapping. Three nodes are enough for a layer of
two beside a chain, and four for groups that close on a full layer. Two periods and
two buckets give a histogram a row that is empty, partial and full. Two address
values are the fewest with which an address is reused while another is held, and two
records let a thread allocate at an address whose release is still to reach the list.
`MaxLaunches`, `MaxCalls`, `MaxSegments`, `MaxCopies`, `MaxTime`, `MaxPeriods` and
`MaxRecords` bound what the program may do often; a behaviour that reaches them just
stops calling, hence `CHECK_DEADLOCK FALSE` where nothing else moves on (the Be and
Tgs runs check deadlock: there the HP or the helper threads always move).
Symmetry is used only in BeTimeSum, where the threads are interchangeable. The Graph
run has no failing waits: what they lose is in the Be runs, and the theorems on
graphs cover them.
The policies `fixed`, `blocks` and `time` have no run of their own: their loops are
those of `gap` (in Graph) and `time_sum` with a subset of the conditions; the
theorems cover all six.

Fairness. A thread inside a launch, the watcher, a destructor, a helper thread and a
process inside a call to the activity words take their next step (the scheduler
runs them, and the futex has a 10 ms timeout); the device finishes what it was
given. Nothing makes a program launch, exit or destroy a stream, or the HP become
idle: `EveryCallReturns`, `GraphCallsReturn`, `BeReleased` and `RequestsAreAdmitted`
suppose that the HP eventually stays idle or away. Strong fairness is stated in two
places. In HpMonitor a wait or a query of the watcher does not fail for ever (a
context in which it does has been lost). In BeAdmission the survival policy's
admission, tried again and again by its loop (`be_intercept.c` 914), succeeds:
an idle period longer than the last threshold is always admitted
(835-845), which `RequestsAreAdmitted` derives from weak fairness of the clock and
the two processes. A waiter for a mutex gets it under weak fairness, since the calls
that could overtake it are bounded.

`ActiveEndsInIdle` supposes `StreamsOutliveEvents`: a program that synchronizes and
destroys a stream before the watcher has recorded its deferred event leaves a slot
whose record and fallback fail every time (`hp_intercept.c` 440-442), and the HP
stays ACTIVE. `RequestsAreAdmitted` supposes a `last_idle` that has been stored once:
an HP killed between its owner store and that one, in a fresh segment, leaves a
survival BE refused (`be_intercept.c` 803) until another HP comes.

## Findings

1. *Two default streams, one slot* (HpTwoDefaults). Slots are keyed by handle
   (`hp_intercept.c` 262). Two threads launching through `_ptsz` entry points on
   NULL share a slot and an event; the second record replaces the first, and IDLE
   is published while the first thread's kernel runs.
2. *HP restart* (ActivityRestart). The exiting HP unlinks the segment
   (`activity_tracker.c` 253); a BE that has it mapped never sees the next HP and
   bypasses its window. The comment in `be_intercept.c` 888-891 expects the next
   launch to observe it.
3. *Singleton graphs* (GraphSingleton). The comment in `graph_scheduler.c` 629 says
   that an opaque graph must remain a singleton. Admission does not treat it so: it
   enters beside outstanding launches that fit with it, and another thread can
   launch between its `after_launch` and its boundary.

Two more ways for HP processes to disturb each other are instances of
ActivityTracker outside the premises of its passing runs (one HP process at a
time, no second HP after a crash): the stores that follow the swap of a dead owner
(`activity_tracker.c` 340-341, 368) can hit the next HP's registration, and a
child of the HP, which inherits `LD_PRELOAD`, takes the registration over
(209-211) and clears it when it exits.

Where the code gives a guarantee up, the properties say so instead of leaving the case
out: a BE loses sight of a launch when both waits for it fail, or the first one on a
per-thread default stream (`WorkIsTracked`); an HP publishes IDLE over a stream whose
synchronization failed (`IdleMeansIdle`, `abandoned`); a BE that cannot map the segment
passes an active HP (`NoPassWhileActive`, for BEs that have); one launch function has no
hook (`LaunchesAreHooked`); a driver that hides its addresses gets its newer graph
functions taken for the oldest (`KindPreserved`, `TakenForOlder`); an HP's stream created
by a fall-back is not ahead of anything (`HpOutranksBe`); ranges can be lost with a list
created twice (`MemoryAccounted`). One premise is left in the passing runs: in Hp no two
threads launch on default streams that share a handle, and waits for events do not fail
in a setup that has one.

## Proofs

Every safety property of the passing runs is a theorem, for any number of threads,
processes, streams, graphs and addresses, any limits and any failures, under the
assumptions that the modules name. Each follows one argument: an invariant that is
inductive is kept by every action, one lemma per action, and implies the property.
What the invariant adds to the property is what the code relies on without saying so.

### Admission_proofs: BeAdmission, then GraphScheduler

* `TypeCorrect` (`TypeOK`), on `Base`: a thread is inside a launch exactly when it
  holds the lock (`LockInv`), so the globals of the launch are its own.
* `EscapeBound` (`AtMostOneEscape`). After the one escape no second thread may be past
  its check (`EscapeInv`).
* `RingCorrect`: a slot is active exactly when its distance from the head is below
  `outstanding` (`RingInv`), and an admitted launch leaves room for itself (`RoomInv`),
  needed since the slot is taken only after the driver's launch.
* `NothingForgotten` (`WorkIsTracked`). `TrackInv` adds that launch numbers are fresh,
  that the launch between the driver and its slot belongs to the thread in
  `event_be_after_launch`, and that a slot's stream is one its handle names. A
  retirement is safe because a complete event leaves nothing at or below its number
  on the stream; a record writes a slot that `RingCorrect` shows free. A failed wait
  takes one launch at most out of sight, the one its event was recorded after, since
  the slots of a stream cover different launches (`GiveUpOne`).
* `AccountingHolds` (`RingAccounting`): the totals are sums over the active slots
  (`SumInv`). A retirement never subtracts more than is there.
* `SamplesHold` (`SamplesAreExact`): a timing slot, a launch that carries a timing pair
  and a profile's count of measurements belong together, whichever call fails
  between them (`StageInv`, `SampleInv`).
* `UnseenAlone` (`UnseenEntersEmptyWindow`): between the choice of a limit and the
  launch a profile can become ready, never the reverse (`UnseenInv`).
* `LimitsHold` (`DeviceWithinLimits`). Each admitted launch on the device owns a slot, or
  is the current one (`OwnInv`), no two own the same, and so what is on the device costs
  at most what is accounted (`SumTheorems!SumInjection`); two or more outstanding
  launches are within the longest budget, since a launch over the budget entered an
  empty window (`BudgetInv`).
* `PromiseKept` (`KeepsPromise`): with that, every step of BeAdmission is a step of
  BePromise or a stutter. The permit is taken and given back in the critical section.
* For the graphs, `CallsOK` says that a thread that starts a unit has a graph and a
  stream to start it with; every step is then a step of the controller or leaves its
  variables alone (the lemma `GraphsRefine`), so the theorems above hold of the
  composition, and two of them are used below.
* `NoStaleGraphlets`: a call that changes a graph has it for itself, and a splittable
  graph that is not being changed has the graphlets of its present version
  (`CurrentInv`).
* `BoundaryCorrect`, `CallWaits`: an admitted unit on the device belongs to a thread
  that owes its completion, between the driver's success and the end of the boundary
  (`UnitsInv`). The boundary ends with an empty window, which by `NothingForgotten`
  means that nothing admitted is left but what failed waits gave up; two graphlets would need two holders of
  `g_graph_lock`.

### HpMonitor_proofs

* `IdleHolds` (`IdleMeansIdle`), in the three completion modes. A stream with work under
  way is held by a thread in its `after_launch`, or an active slot covers it whose
  event, once recorded, comes after all of its launches (`CoverInv`); a snapshot of the
  watcher whose slot has kept its generation is about those launches (`SnapInv`,
  `WaitInv`). A stream whose synchronization failed is set apart (`abandoned`) until a
  later wait covers it. The premise `OwnDefaults` is the one the Hp run keeps to: no two
  threads launch through one default-stream handle, and waits do not fail where there
  is one.
  HpTwoDefaults shows what happens without it.

### ActivityTracker_proofs

* `PublicationStays` (`PublicationKept`), for one HP process, which may crash, or for
  any number in turn that do not (`SingleHp \/ InTurn`). At most one HP ever maps a
  segment (`SegmentInv`), so its words are about that HP (`WordInv`), and a BE that
  repairs a segment has seen its HP finished (`BeInv`).
* `NoPass` (`NoPassWhileActive`) and `ZeroOwner` for `SingleHp`, with processes that
  may fail to map the segment; `NoPass` is about the BEs that have mapped it, and
  `ZeroOwner` has the further premise that no BE fails to. Its property is the one
  ActivityRestart refutes: it takes a second HP or such a BE.

### GraphBuild_proofs

* `TypeCorrect` (`TypeOK`): the filling pass repeats the counting one, so what it has
  closed so far and the group it has open are within what was counted (`Filling`), and
  every index is within the array.
* `NodesOnce`, `EdgesForward`. Placing keeps behind the edges (`LayersFollowEdges`),
  groups tile the layers (`Tiles`), and pruning leaves each clone the nodes of its
  group (`Cloning`). Every node is then in the one executable that has its layer, and an
  edge leads to a higher layer and so to the same executable or a later one.
* `PassesAreExact` (`PassesExact`): a node is in a layer above 1 only by an edge from
  the layer below (`LayersTight`), so layers satisfy the recursion that defines `Depth`,
  and by induction equal it; groups are maximal (`GroupExact`).
* `ObjectsKept` (`NoObjectLeaks`): at every step the driver has, for each entry of the
  array, exactly what the entry names, and the entries before the current one are
  complete. So the clean-up, which goes by the array, finds what there is.

### Dispatch_proofs, with MemRanges

* `NoNullCalls`: a thread that calls through the table has seen the load end, since
  `pthread_once` lets one thread load and the others wait (`LoadsOnce`).
* `KindsPreserved`: a replaced pointer is what was asked for, version and variant, with
  and without aliases (`ReplacementRight`), but for what `TakenForOlder` says; `Answers`
  says it of every pointer a thread holds.
* `LaunchesHooked`, `HooksMatch`: a call that reaches the driver from a wrapper of
  `HookedLaunches` has been through its hook, and the note of a captured launch lives
  from the hook to its after-hook (`ThreadOK`).
* `HpOutranks`: the two halves of a priority range meet in the middle and do not
  cross, by the rounding of C's division (`HalvedOrder`); the driver's default, zero, is
  the least priority.
* `MemoryHolds` (`MemoryAccounted`): each release under way and each recorded allocation
  has a record of its own, in the list or in one that was replaced (`Covered`, in
  `MemInv`). A list is made by an actor that found none, and afterwards nobody finds
  none, so there are at most as many lists as actors (`HeadsOK`). An address may be
  allocated again before the record of its previous life is removed; counting records,
  as the list does, is what makes that harmless.

### RateControl_proofs

* `HeldToLimit` (`RateHeld`): a thread past the test has yet to add its blocks, and
  there is one for each thread at most (`AddersWithin`). Two threads that both
  initialize the device leave a second pair of helpers, and each HP is connected to one
  manager at most (`HelpersLeft`, `OneConnection`).
* `EstimateHolds` (`EstimateWithinReports`): window and estimate stay within the reports
  of the connection (`EInv`). The integer division of an average loses less than one,
  which is why the lower bound is `1000 * (maxRate + 1) >= 975 * Min(profile)`.

### IdleTiming_proofs

* `StatisticsHold` (`StatisticsExact`): the stores an HP has yet to make lead to the
  statistics of its periods (`Finals`).
* `LimitsFit` (`LimitsAsAdmissionExpects`): a share of a share is within the whole, in
  integers and for any snapshot.
* `OddsHold` (`OddsAreConservative`). A snapshot nobody ran into is what the words are
  (`Whole`). The words may still lack a period that an HP was killed in the middle of
  counting, but only the last one, and that one is no longer than the time since the HP
  became idle (`Near`), so the denominator does not miss a period that lasted until now.
  A sum that saturates is beyond every threshold a period can outlast.

`SumTheorems` has the sums over finite sets and sequences, and inductions carried out by
the smallest counterexample (the library's induction theorems take an operator, which
the provers here cannot instantiate).

Only model-checked: the liveness properties and what they rest on (fairness, ENABLED,
the temporal premises), which are out of the provers' reach.

## Plan

1. `Lilt`: HpMonitor's publications, the shared words and several BePromise
   processes together, with a group bound (`LILT_EVENT_BE_COUNT`) and the launches
   that exceed it (a window of at least one per BE, launches over the budget, the
   work left by the bypass); then its theorem from `PromiseKept`, `NoPass` and
   `IdleHolds`.
2. A refinement of HpMonitor to an abstract publisher, as BePromise is for the BE.

## Not modelled

The launcher, the build and the tests: they hold no state while the program runs.
The driver's own scheduling between contexts is not Lilt's and is the device's
nondeterminism here. Within the modelled parts:

* graph recovery: the mode that records nothing, and updates of a graph through
  driver pointers the proxy does not replace (`driver_proxy_compat.c` 184), after
  which graphlets would be out of date;
* TGS: how the HP measures its rate, several BE processes that unlink each other's
  socket path (`be_intercept.c` 1325), and file descriptors left open
  after a failed first read or write (1519-1521, `hp_intercept.c` 877-879);
* memory: what `cuMemGetInfo` and `cuDeviceTotalMem` report, arrays, and a program that
  mixes the driver's and the proxy's allocation functions;
* activity words: a second HP that registers while a dead one is reclaimed (Findings);
* dispatch: calls of functions the driver lacks, the text of library paths, the process-name tests, `lilt_getenv`, and
  wrappers that differ from their kind in one argument; a proxy `dlsym` entered again
  by the system's own `dlopen` during the load;
* reporting: statistics and the summaries printed at exit.
