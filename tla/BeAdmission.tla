---------------------------- MODULE BeAdmission ----------------------------
(***************************************************************************)
(* The admission controller of one best-effort (BE) process               *)
(* (be_intercept.c): the launch path event_be_before_launch, the driver's  *)
(* launch, event_be_after_launch, the graphlet boundary, the ring of       *)
(* in-flight launches and the online kernel profiler.                      *)
(*                                                                         *)
(* Threads of the process call it; g_be_event_lock is held from            *)
(* before_launch to the end of after_launch, across the driver's launch.   *)
(* The device runs launches of a stream in order and streams against each  *)
(* other in any order.  The high-priority (HP) process is an environment:  *)
(* it registers, becomes active and idle, and exits at any time, also      *)
(* between two steps of a launch.                                          *)
(*                                                                         *)
(* Left to other modules: the shared words behind hp (ActivityTracker),    *)
(* what makes the HP active (HpMonitor).  Abstracted: the gap and survival *)
(* predictors choose any limit their code can return.                      *)
(***************************************************************************)
EXTENDS Integers, FiniteSets, Functions

CONSTANTS
  Threads,            \* host threads of the BE process that launch
  NoThread,           \* not a thread: the lock is free
  Kernels,            \* launch signatures: function or graph, and blocks
  NoKernel,
  BlocksOf,           \* blocks of a signature
  Handles,            \* stream handles the program passes
  PerThreadHandles,   \* those that name a stream per calling thread (ptsz)
  NoStream,
  Policy,             \* LILT_EVENT_BE_POLICY
  BeCount,            \* LILT_EVENT_BE_COUNT, and the totals it divides
  TotalWindow, TotalBlockBudget, TotalTimeBudget,
  TotalInternalWindow, TotalInternalBudget,
  TotalPromotedWindow, TotalPromotedBudget,
  UnknownNs,          \* prediction for a signature without samples
  TableSize,          \* EVENT_BE_PROFILE_TABLE_SIZE
  ProfileSamples,     \* EVENT_BE_PROFILE_SAMPLES
  Durations,          \* durations the device can measure
  Faults,             \* which CUDA calls may fail
  MaxLaunches         \* bound: launches issued in a behaviour

TimePolicies  == {"time", "time_sum", "survival"}
BlockPolicies == {"fixed", "blocks", "gap"}

\* event_be_partition_window and event_be_partition_budget.
Partition(total) == IF total \div BeCount = 0 THEN 1 ELSE total \div BeCount

Window      == Partition(TotalWindow)
BlockBudget == Partition(TotalBlockBudget)
TimeBudget  == Partition(TotalTimeBudget)
Lower(a, b) == IF a < b THEN a ELSE b

\* The two limits event_be_survival_admission_locked can select.
InternalLimit == [window |-> Lower(Partition(TotalInternalWindow), Window),
                  budget |-> Partition(TotalInternalBudget)]
PromotedLimitUnclamped ==      \* mutant: the window is not clamped
  [window |-> Partition(TotalPromotedWindow),
   budget |-> Partition(TotalPromotedBudget)]
PromotedLimit == [window |-> Lower(Partition(TotalPromotedWindow), Window),
                  budget |-> Partition(TotalPromotedBudget)]

ASSUME ThreadAssumption == NoThread \notin Threads
ASSUME KernelAssumption ==
  /\ NoKernel \notin Kernels
  /\ BlocksOf \in [Kernels -> Nat]
ASSUME StreamAssumption ==
  /\ PerThreadHandles \subseteq Handles
  /\ NoStream \notin Handles
ASSUME ConfigAssumption ==
  /\ Policy \in TimePolicies \cup BlockPolicies
  /\ BeCount \in Nat \ {0}
  /\ TotalWindow \in Nat /\ TotalBlockBudget \in Nat /\ TotalTimeBudget \in Nat
  /\ TotalInternalWindow \in Nat /\ TotalInternalBudget \in Nat
  /\ TotalPromotedWindow \in Nat /\ TotalPromotedBudget \in Nat
ASSUME ProfilerAssumption ==
  /\ UnknownNs \in Nat /\ ProfileSamples \in Nat /\ TableSize \in Nat
  /\ Durations \subseteq Nat \ {0}
ASSUME FaultAssumption ==
  Faults \subseteq {"launch", "sample", "record", "sync", "fallback"}
ASSUME BoundAssumption == MaxLaunches \in Nat

VARIABLES
  lock,         \* g_be_event_lock: its holder
  pc,           \* where each thread is in the launch path
  current,      \* the g_be_current_* globals and the locals of the launch
  slots,        \* g_be_event_slots
  head, tail,   \* g_be_window_head, g_be_window_tail
  outstanding,  \* g_be_outstanding_launches, _blocks, _predicted_ns
  outBlocks, outPredicted,
  forgotten,    \* history: launches on the device whose wait was given up
  profiles,     \* g_be_profiles, by signature
  hp,           \* environment: what the shared activity words say of the HP
  inflight,     \* environment: launches on the device
  launches,     \* launches issued so far: the last launch's number
  escapes       \* history: launches issued since the HP last became active

vars == <<lock, pc, current, slots, head, tail, outstanding, outBlocks,
          outPredicted, forgotten, profiles, hp, inflight, launches, escapes>>
ring   == <<slots, head, tail, outstanding, outBlocks, outPredicted>>
ledger == <<ring, forgotten>>

---------------------------------------------------------------------------
SlotIds == 0 .. Window - 1

\* The stream a handle names for a thread.
StreamOf(t, h) == IF h \in PerThreadHandles THEN <<h, t>> ELSE <<h, NoThread>>

NoLimit  == [window |-> 1, budget |-> 1]
NoLaunch == [kernel |-> NoKernel, handle |-> NoStream, predicted |-> 0,
             profiled |-> FALSE, unknown |-> FALSE, timing |-> FALSE,
             windowed |-> FALSE, limit |-> NoLimit, id |-> 0]

\* A slot holds the launch number its completion events were recorded after.
EmptySlot == [active |-> FALSE, timing |-> FALSE, kernel |-> NoKernel,
              handle |-> NoStream, stream |-> <<NoStream, NoThread>>,
              blocks |-> 0, predicted |-> 0, event |-> 0, stop |-> 0]

NewProfile == [occupied |-> FALSE, samples |-> 0, pending |-> 0, ewma |-> 0]

Init ==
  /\ lock = NoThread
  /\ pc = [t \in Threads |-> "idle"]
  /\ current = NoLaunch
  /\ slots = [i \in SlotIds |-> EmptySlot]
  /\ head = 0 /\ tail = 0
  /\ outstanding = 0 /\ outBlocks = 0 /\ outPredicted = 0
  /\ forgotten = {}
  /\ profiles = [k \in Kernels |-> NewProfile]
  /\ hp = "none"
  /\ inflight = {}
  /\ launches = 0
  /\ escapes = 0

Goto(t, label) == pc' = [pc EXCEPT ![t] = label]

---------------------------------------------------------------------------
(* The online kernel profiler. *)

\* event_be_predict_kernel_ns_locked for a signature with samples.
Learned(k) == profiles[k].ewma + profiles[k].ewma \div 4

\* event_be_profile_lookup_locked with create: the signature has an entry, or
\* the table still has room for it.  (Every launch entry point passes the
\* function, and a graph launch its handle: function = NULL does not occur.)
HasEntry(k) ==
  \/ profiles[k].occupied
  \/ Cardinality({j \in Kernels : profiles[j].occupied}) < TableSize

\* event_be_update_profile_locked.
Updated(p, d) ==
  [p EXCEPT !.samples = @ + 1,
            !.ewma = IF p.samples = 0 THEN d
                     ELSE IF d >= p.ewma THEN p.ewma + (d - p.ewma) \div 4
                     ELSE p.ewma - (p.ewma - d) \div 4]

\* A pending sample is given back, when there is one.
Released(p) == [p EXCEPT !.pending = IF @ > 0 THEN @ - 1 ELSE 0]

\* The next launch of the signature is to be measured.
WantsSampleNoPending ==        \* mutant: measurements under way not counted
  /\ current.profiled
  /\ profiles[current.kernel].samples < ProfileSamples
WantsSample ==
  /\ current.profiled
  /\ profiles[current.kernel].samples + profiles[current.kernel].pending
       < ProfileSamples

---------------------------------------------------------------------------
(* The ring of launches in flight. *)

CompletionEventPlain(slot) ==  \* mutant: the timing pair is forgotten
  slot.event
CompletionEvent(slot) == IF slot.timing THEN slot.stop ELSE slot.event

\* What cuEventSynchronize waits for: the event was recorded on the stream
\* after the launches up to this number.
EventComplete(slot) ==
  \A q \in inflight :
    q.stream = slot.stream => q.id > CompletionEvent(slot)

\* What cuStreamSynchronize, called by thread t, waits for.
StreamDrained(t, h) == \A q \in inflight : q.stream # StreamOf(t, h)

\* When a wait fails the stream is synchronized by its handle instead, and the
\* result is not looked at: that wait may fail too, and for a per-thread default
\* stream it is for the stream of the thread that asks.
Synchronized(t, h) == StreamDrained(t, h) \/ "fallback" \in Faults
GiveUp(id) == forgotten' = forgotten \cup ({q.id : q \in inflight} \cap {id})

\* event_be_retire_oldest_locked, to its end.  The wait for the event is the
\* guard; when it fails no duration is learned, and the slot is freed whatever
\* became of its launch.
RetireOldest(t) ==
  LET slot == slots[head] IN
  /\ outstanding > 0
  /\ \/ /\ EventComplete(slot)
        /\ \/ /\ slot.timing
              /\ \E d \in Durations :
                   profiles' = [profiles EXCEPT
                                  ![slot.kernel] = Updated(Released(@), d)]
           \/ /\ slot.timing
              /\ "sample" \in Faults          \* elapsed time not available
              /\ profiles' = [profiles EXCEPT ![slot.kernel] = Released(@)]
           \/ /\ ~slot.timing
              /\ UNCHANGED profiles
        /\ UNCHANGED forgotten
     \/ /\ "sync" \in Faults
        /\ Synchronized(t, slot.handle)
        /\ GiveUp(CompletionEvent(slot))
        /\ profiles' = IF slot.timing
                       THEN [profiles EXCEPT ![slot.kernel] = Released(@)]
                       ELSE profiles
  /\ outBlocks' = outBlocks - slot.blocks
  /\ outPredicted' = outPredicted - slot.predicted
  /\ slots' = [slots EXCEPT ![head] = EmptySlot]
  /\ head' = (head + 1) % Window
  /\ outstanding' = outstanding - 1
  /\ UNCHANGED tail

\* The tail of event_be_after_launch that puts the launch in the ring.
TrackNoWrap(t) ==              \* mutant: the tail does not wrap
  /\ slots' = [slots EXCEPT ![tail] =
       [EmptySlot EXCEPT !.active = TRUE, !.event = current.id]]
  /\ tail' = tail + 1
  /\ outstanding' = outstanding + 1
  /\ UNCHANGED <<head, outBlocks, outPredicted, forgotten>>
Track(t) ==
  /\ slots' = [slots EXCEPT ![tail] =
       [active |-> TRUE, timing |-> current.timing, kernel |-> current.kernel,
        handle |-> current.handle, stream |-> StreamOf(t, current.handle),
        blocks |-> BlocksOf[current.kernel], predicted |-> current.predicted,
        event |-> IF current.timing THEN @.event ELSE current.id,
        stop |-> IF current.timing THEN current.id ELSE @.stop]]
  /\ tail' = (tail + 1) % Window
  /\ outstanding' = outstanding + 1
  /\ outBlocks' = outBlocks + BlocksOf[current.kernel]
  /\ outPredicted' = outPredicted + current.predicted
  /\ UNCHANGED <<head, forgotten>>

---------------------------------------------------------------------------
(* event_be_before_launch. *)

\* A thread calls a launch wrapper and takes the lock.
Begin(t, k, h) ==
  /\ pc[t] = "idle" /\ lock = NoThread
  /\ launches < MaxLaunches
  /\ lock' = t
  /\ current' = [NoLaunch EXCEPT !.kernel = k, !.handle = h]
  /\ Goto(t, "owner")
  /\ UNCHANGED <<ledger, profiles, hp, inflight, launches, escapes>>

\* lilt_event_hp_owner, after the startup wait (which ends on its own): the
\* policy applies when an HP is registered, otherwise the window is bypassed.
ReadOwner(t) ==
  /\ pc[t] = "owner"
  /\ Goto(t, IF hp = "none" THEN "drain" ELSE "wait")
  /\ UNCHANGED <<lock, current, ledger, profiles, hp, inflight, launches, escapes>>

\* The bypass drains the window first.
Drain(t) ==
  /\ pc[t] = "drain"
  /\ RetireOldest(t)
  /\ UNCHANGED <<lock, pc, current, hp, inflight, launches, escapes>>

Bypass(t) ==
  /\ pc[t] = "drain" /\ outstanding = 0
  /\ Goto(t, "issue")
  /\ UNCHANGED <<lock, current, ledger, profiles, hp, inflight, launches, escapes>>

\* lilt_event_be_wait_until_idle returns.
WaitUntilIdleNever(t) ==       \* mutant: an empty window does not wait
  /\ pc[t] = "wait" /\ (hp # "active" \/ outstanding = 0)
  /\ Goto(t, "predict")
  /\ UNCHANGED <<lock, current, ledger, profiles, hp, inflight, launches, escapes>>
WaitUntilIdle(t) ==
  /\ pc[t] = "wait" /\ hp # "active"
  /\ Goto(t, "predict")
  /\ UNCHANGED <<lock, current, ledger, profiles, hp, inflight, launches, escapes>>

\* The time policies look the signature up and predict its duration; the
\* block policies predict nothing.
Predict(t) ==
  LET k == current.kernel IN
  /\ pc[t] = "predict"
  /\ IF Policy \in TimePolicies
     THEN /\ profiles' = IF HasEntry(k)
                         THEN [profiles EXCEPT ![k].occupied = TRUE]
                         ELSE profiles
          /\ current' = [current EXCEPT
               !.profiled = HasEntry(k),
               !.unknown = ~HasEntry(k) \/ profiles[k].samples = 0,
               !.predicted = IF HasEntry(k) /\ profiles[k].samples > 0
                             THEN Learned(k) ELSE UnknownNs]
     ELSE UNCHANGED <<profiles, current>>
  /\ Goto(t, IF Policy = "survival" THEN "recheck" ELSE "choose")
  /\ UNCHANGED <<lock, ledger, hp, inflight, launches, escapes>>

\* Effective limits.  The gap predictors shrink the budget by what they
\* expect to be left of the idle gap, never below 1.
EffectiveLimits ==
  CASE Policy = "time_sum" -> {[window |-> Window, budget |-> TimeBudget]}
    [] Policy = "time"     -> [window : {Window}, budget : 1 .. TimeBudget]
    [] Policy = "gap"      -> [window : {Window}, budget : 1 .. BlockBudget]
    [] OTHER               -> {[window |-> Window, budget |-> BlockBudget]}

ChooseLimit(t) ==
  /\ pc[t] = "choose" /\ Policy # "survival"
  /\ \E l \in EffectiveLimits : current' = [current EXCEPT !.limit = l]
  /\ Goto(t, "admit")
  /\ UNCHANGED <<lock, ledger, profiles, hp, inflight, launches, escapes>>

\* The survival policy waits for the HP before every attempt ...
RecheckIdle(t) ==
  /\ pc[t] = "recheck" /\ hp # "active"
  /\ Goto(t, "choose")
  /\ UNCHANGED <<lock, current, ledger, profiles, hp, inflight, launches, escapes>>

\* ... and event_be_survival_admission_locked admits the attempt to one of
\* two windows, an unseen signature only to a window of one ...
SurvivalAdmissionAny(t) ==     \* mutant: unseen signatures are not special
  /\ pc[t] = "choose" /\ Policy = "survival"
  /\ hp # "active"
  /\ \E l \in {InternalLimit, PromotedLimit} :
       current' = [current EXCEPT !.limit = l]
  /\ Goto(t, "admit")
  /\ UNCHANGED <<lock, ledger, profiles, hp, inflight, launches, escapes>>
SurvivalAdmission(t) ==
  /\ pc[t] = "choose" /\ Policy = "survival"
  /\ hp # "active"
  /\ \E l \in {InternalLimit, PromotedLimit} :
       current' = [current EXCEPT
                     !.limit = IF current.unknown THEN [l EXCEPT !.window = 1]
                                                  ELSE l]
  /\ Goto(t, "admit")
  /\ UNCHANGED <<lock, ledger, profiles, hp, inflight, launches, escapes>>

\* ... or rejects it, which retires a launch or sleeps.
SurvivalRejection(t) ==
  /\ pc[t] = "choose" /\ Policy = "survival"
  /\ \/ RetireOldest(t)
     \/ outstanding = 0 /\ UNCHANGED <<ledger, profiles>>
  /\ Goto(t, "recheck")
  /\ UNCHANGED <<lock, current, hp, inflight, launches, escapes>>

\* The conditions of the three admission loops.
ExceedsCommitted(incoming, committed) ==  \* mutant: the new launch not counted
  committed > current.limit.budget
Exceeds(incoming, committed) == incoming + committed > current.limit.budget

MustWaitOffByOne ==            \* mutant: one launch more than the window
  outstanding > current.limit.window
MustWaitForFit ==              \* mutant: a launch over the budget never fits
  \/ outstanding > 0 /\ outstanding >= current.limit.window
  \/ Exceeds(current.predicted, outPredicted)
MustWait ==
  /\ outstanding > 0
  /\ \/ outstanding >= current.limit.window
     \/ Policy \in {"time", "time_sum"} /\ current.unknown
     \/ Policy \in TimePolicies /\ Exceeds(current.predicted, outPredicted)
     \/ Policy \in {"blocks", "gap"}
          /\ Exceeds(BlocksOf[current.kernel], outBlocks)

RetireForRoom(t) ==
  /\ pc[t] = "admit" /\ MustWait
  /\ RetireOldest(t)
  /\ Goto(t, IF Policy = "survival" THEN "recheck" ELSE "admit")
  /\ UNCHANGED <<lock, current, hp, inflight, launches, escapes>>

\* The launch fits.  A signature with too few samples gets a timing pair
\* (event_be_prepare_timing_sample_locked), unless its events fail.
Admit(t) ==
  /\ pc[t] = "admit" /\ ~MustWait
  /\ \/ /\ WantsSample
        /\ profiles' = [profiles EXCEPT ![current.kernel].pending = @ + 1]
        /\ current' = [current EXCEPT !.windowed = TRUE, !.timing = TRUE]
     \/ /\ WantsSample => "sample" \in Faults
        /\ current' = [current EXCEPT !.windowed = TRUE]
        /\ UNCHANGED profiles
  /\ Goto(t, "issue")
  /\ UNCHANGED <<lock, ledger, hp, inflight, launches, escapes>>

---------------------------------------------------------------------------
(* The driver's launch, and event_be_after_launch. *)

Issue(t) ==
  /\ pc[t] = "issue"
  /\ launches' = launches + 1
  /\ current' = [current EXCEPT !.id = launches + 1]
  /\ inflight' = inflight \cup
       {[id |-> launches + 1, stream |-> StreamOf(t, current.handle),
         windowed |-> current.windowed, predicted |-> current.predicted,
         blocks |-> BlocksOf[current.kernel]]}
  /\ escapes' = IF hp = "active" THEN escapes + 1 ELSE escapes
  /\ Goto(t, "after")
  /\ UNCHANGED <<lock, ledger, profiles, hp>>

\* The end of event_be_after_launch: the launch's globals are reset.
Finish(t) ==
  /\ current' = NoLaunch
  /\ lock' = NoThread
  /\ Goto(t, "idle")

\* The driver refuses the launch: nothing runs, a pending sample is given up.
IssueFails(t) ==
  /\ pc[t] = "issue" /\ "launch" \in Faults
  /\ profiles' = IF current.timing
                 THEN [profiles EXCEPT ![current.kernel] = Released(@)]
                 ELSE profiles
  /\ Finish(t)
  /\ UNCHANGED <<ledger, hp, inflight, launches, escapes>>

\* The completion event is recorded: the launch enters the ring.
AfterTracked(t) ==
  /\ pc[t] = "after" /\ current.windowed
  /\ Track(t)
  /\ Finish(t)
  /\ UNCHANGED <<profiles, hp, inflight, launches, escapes>>

\* The event cannot be created or recorded: the stream is synchronized instead,
\* and again nothing looks at the result.
AfterUntracked(t) ==
  /\ pc[t] = "after" /\ current.windowed /\ "record" \in Faults
  /\ Synchronized(t, current.handle)
  /\ GiveUp(current.id)
  /\ profiles' = IF current.timing
                 THEN [profiles EXCEPT ![current.kernel] = Released(@)]
                 ELSE profiles
  /\ Finish(t)
  /\ UNCHANGED <<ring, hp, inflight, launches, escapes>>

AfterBypass(t) ==
  /\ pc[t] = "after" /\ ~current.windowed
  /\ Finish(t)
  /\ UNCHANGED <<ledger, profiles, hp, inflight, launches, escapes>>

---------------------------------------------------------------------------
(* lilt_graphlet_boundary: the graph scheduler empties the window. *)

BeginBoundary(t) ==
  /\ pc[t] = "idle" /\ lock = NoThread
  /\ lock' = t
  /\ Goto(t, "boundary")
  /\ UNCHANGED <<current, ledger, profiles, hp, inflight, launches, escapes>>

DrainBoundary(t) ==
  /\ pc[t] = "boundary"
  /\ RetireOldest(t)
  /\ UNCHANGED <<lock, pc, current, hp, inflight, launches, escapes>>

EndBoundaryAtOnce(t) ==        \* mutant: the window is not drained
  /\ pc[t] = "boundary"
  /\ lock' = NoThread
  /\ Goto(t, "idle")
  /\ UNCHANGED <<current, ledger, profiles, hp, inflight, launches, escapes>>
EndBoundary(t) ==
  /\ pc[t] = "boundary" /\ outstanding = 0
  /\ lock' = NoThread
  /\ Goto(t, "idle")
  /\ UNCHANGED <<current, ledger, profiles, hp, inflight, launches, escapes>>

---------------------------------------------------------------------------
(* The environment: the device and the HP process. *)

Complete(q) ==
  /\ q \in inflight
  /\ \A r \in inflight : r.stream = q.stream => r.id >= q.id
  /\ inflight' = inflight \ {q}
  /\ forgotten' = forgotten \cap {r.id : r \in inflight'}
  /\ UNCHANGED <<lock, pc, current, ring, profiles, hp, launches, escapes>>

HpRegister == hp = "none" /\ hp' = "idle" /\ UNCHANGED escapes
HpActivate == hp = "idle" /\ hp' = "active" /\ escapes' = 0
HpIdle     == hp = "active" /\ hp' = "idle" /\ UNCHANGED escapes
HpExit     == hp # "none" /\ hp' = "none" /\ UNCHANGED escapes

HpStep ==
  /\ HpRegister \/ HpActivate \/ HpIdle \/ HpExit
  /\ UNCHANGED <<lock, pc, current, ledger, profiles, inflight, launches>>

\* Steps of the launch path that its thread takes by itself.
Work(t) ==
  \/ ReadOwner(t) \/ Drain(t) \/ Bypass(t) \/ WaitUntilIdle(t) \/ Predict(t)
  \/ ChooseLimit(t) \/ RecheckIdle(t) \/ SurvivalAdmission(t)
  \/ SurvivalRejection(t) \/ RetireForRoom(t) \/ Admit(t)
  \/ Issue(t) \/ IssueFails(t)
  \/ AfterTracked(t) \/ AfterUntracked(t) \/ AfterBypass(t)
  \/ DrainBoundary(t) \/ EndBoundary(t)

Next ==
  \/ \E t \in Threads :
       \/ \E k \in Kernels, h \in Handles : Begin(t, k, h)
       \/ BeginBoundary(t)
       \/ Work(t)
  \/ \E q \in inflight : Complete(q)
  \/ HpStep

Spec == Init /\ [][Next]_vars

\* A thread inside the launch path runs, the device finishes what it is given,
\* and the survival predictor, asked again and again, admits: an idle period
\* that has outlasted the longest threshold is always admitted.
Fairness ==
  /\ \A t \in Threads : WF_vars(Work(t)) /\ SF_vars(SurvivalAdmission(t))
  /\ WF_vars(\E q \in inflight : Complete(q))

LiveSpec == Spec /\ Fairness

---------------------------------------------------------------------------
(* Properties. *)

Labels == {"idle", "owner", "drain", "wait", "predict", "recheck", "choose",
           "admit", "issue", "after", "boundary"}

LimitType == [window : Nat, budget : Nat]
LaunchType ==
  [kernel : Kernels \cup {NoKernel}, handle : Handles \cup {NoStream},
   predicted : Nat, profiled : BOOLEAN, unknown : BOOLEAN, timing : BOOLEAN,
   windowed : BOOLEAN, limit : LimitType, id : Nat]
StreamType == (Handles \cup {NoStream}) \X (Threads \cup {NoThread})
SlotType ==
  [active : BOOLEAN, timing : BOOLEAN, kernel : Kernels \cup {NoKernel},
   handle : Handles \cup {NoStream}, stream : StreamType,
   blocks : Nat, predicted : Nat, event : Nat, stop : Nat]
ProfileType ==
  [occupied : BOOLEAN, samples : Nat, pending : Nat, ewma : Nat]
InflightType ==
  [id : Nat, stream : StreamType, windowed : BOOLEAN, predicted : Nat,
   blocks : Nat]

\* The state has the shape the program's declarations give it.
TypeOK ==
  /\ lock \in Threads \cup {NoThread}
  /\ pc \in [Threads -> Labels]
  /\ current \in LaunchType
  /\ slots \in [SlotIds -> SlotType]
  /\ head \in SlotIds /\ tail \in SlotIds
  /\ outstanding \in Int /\ outBlocks \in Int /\ outPredicted \in Int
  /\ profiles \in [Kernels -> ProfileType]
  /\ hp \in {"none", "idle", "active"}
  /\ inflight \in SUBSET InflightType
  /\ launches \in Nat /\ escapes \in Nat
  /\ forgotten \subseteq {q.id : q \in inflight}

ActiveSlots == {i \in SlotIds : slots[i].active}

\* What each slot committed.
BlocksIn    == [i \in SlotIds |-> slots[i].blocks]
PredictedIn == [i \in SlotIds |-> slots[i].predicted]

\* The ring and its counters agree: the active slots are the outstanding ones
\* counted from the head, and the two totals are what those slots committed.
\* The asserts of be_intercept.c (588, 625, 627, 1019) follow; a release build
\* compiles them out, and a counter below zero would wrap around.
RingAccounting ==
  /\ ActiveSlots = {(head + n) % Window : n \in 0 .. outstanding - 1}
  /\ tail = (head + outstanding) % Window
  /\ outBlocks = SumFunctionOnSet(BlocksIn, ActiveSlots)
  /\ outPredicted = SumFunctionOnSet(PredictedIn, ActiveSlots)

\* Admitted launches on the device that the process still knows of.
Windowed == {q \in inflight : q.windowed /\ q.id \notin forgotten}

\* What is on the device, of the launches the process still knows of, keeps to
\* the limits the launcher configured: never more admitted launches than the
\* window, and whenever two or more are there together, their predicted time
\* (or blocks) is within the budget.
LongestBudget == IF Policy = "survival"
                 THEN IF InternalLimit.budget > PromotedLimit.budget
                      THEN InternalLimit.budget ELSE PromotedLimit.budget
                 ELSE TimeBudget
DeviceWithinLimits ==
  /\ Cardinality(Windowed) <= Window
  /\ Cardinality(Windowed) >= 2 =>
       /\ Policy \in TimePolicies =>
            SumFunction([q \in Windowed |-> q.predicted]) <= LongestBudget
       /\ Policy \in {"blocks", "gap"} =>
            SumFunction([q \in Windowed |-> q.blocks]) <= BlockBudget

\* The window forgets no work but by a wait that failed: an admitted launch that
\* is still on the device is covered by the completion event of an active slot,
\* or is the launch its thread has not finished, or both waits for it failed, or
\* the wait for its event failed and its stream is a per-thread default one,
\* which the fall-back takes for the stream of the thread that asks.
MayBeForgotten(q) ==
  \/ "fallback" \in Faults
  \/ "sync" \in Faults /\ q.stream[1] \in PerThreadHandles
WorkIsTracked ==
  \A q \in inflight : q.windowed =>
    \/ \E i \in SlotIds : /\ slots[i].active
                          /\ slots[i].stream = q.stream
                          /\ q.id <= CompletionEvent(slots[i])
    \/ q.id = current.id
    \/ q.id \in forgotten /\ MayBeForgotten(q)

\* The profiler measures each signature at most ProfileSamples times, and its
\* count of pending measurements is exact: every one of them is a slot that
\* carries a timing pair or the launch being made.
SamplesAreExact ==
  \A k \in Kernels :
    /\ profiles[k].samples + profiles[k].pending <= ProfileSamples
    /\ profiles[k].pending =
         Cardinality({i \in ActiveSlots : slots[i].timing /\ slots[i].kernel = k})
         + (IF current.timing /\ current.kernel = k THEN 1 ELSE 0)

\* The HP is protected: once it is active, at most one launch of this process
\* still reaches the device, the one that had passed its check before.
AtMostOneEscape == hp = "active" => escapes <= 1

\* An unseen signature does not fill a speculative window: when a launch
\* without samples is about to be issued, no admitted launch the process knows
\* of is on the device.  (The launches after it may join it there.)
UnseenEntersEmptyWindow ==
  \A t \in Threads :
    pc[t] = "issue" /\ current.windowed /\ current.unknown => Windowed = {}

\* The process keeps BePromise.  Its permit is the critical section of a thread
\* between its last look at the HP and the driver's launch, or between finding
\* no HP and that launch; the survival policy gives it back when it rejects.
Permitted ==
  \E t \in Threads :
    \/ pc[t] \in {"drain", "choose", "admit", "issue"}
    \/ pc[t] = "predict" /\ Policy # "survival"

\* What a launch counts against the budget: the fixed policy has a window only.
Cost(q) == CASE Policy \in TimePolicies      -> q.predicted
             [] Policy \in {"blocks", "gap"} -> q.blocks
             [] OTHER                        -> 0

HpView == INSTANCE BePromise WITH
  PromisedWindow <- Window,
  PromisedBudget <- IF Policy \in TimePolicies THEN LongestBudget ELSE BlockBudget,
  hpSays <- hp,
  permit <- Permitted,
  device <- {[id |-> q.id, cost |-> Cost(q)] : q \in Windowed}

KeepsPromise == HpView!Promise

\* Once the HP stays idle or stays away, every launch and every boundary
\* returns: no thread is left in the retire, wait or admission loops.
EveryCallReturns ==
  <>[](hp = "idle") \/ <>[](hp = "none") =>
    \A t \in Threads : (pc[t] # "idle") ~> (pc[t] = "idle")
============================================================================
