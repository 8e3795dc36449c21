----------------------------- MODULE HpMonitor -----------------------------
(***************************************************************************)
(* The activity monitor of the high-priority (HP) process (hp_intercept.c): *)
(* the launch path event_hp_before_launch, the driver's launch,            *)
(* event_hp_after_launch; the watcher thread in its three completion modes; *)
(* and the process's destructor.  It decides when the HP is published       *)
(* ACTIVE and IDLE to the best-effort processes.                           *)
(*                                                                         *)
(* Threads launch on stream handles; a stream runs its launches in order.  *)
(* The device's progress on a stream is the number of launches given to it *)
(* and the number it has finished, and an event is a stream and a number.  *)
(* A critical section under g_hp_event_lock is one step, except where the  *)
(* code waits for the device inside it: then lock has a holder.            *)
(***************************************************************************)
EXTENDS Integers, FiniteSets, FiniteSetsExt

CONSTANTS
  Threads,           \* application threads that launch
  Watcher,           \* the watcher thread
  NoThread,          \* not a thread: the lock is free
  Handles,           \* stream handles
  PerThreadHandles,  \* NULL and 2 through a _ptsz entry point: a stream per
                     \* calling thread
  NSlots,            \* EVENT_MAX_STREAMS
  Setups,            \* the configurations and programs to look at
  MaxCalls           \* bound: launch calls in a behaviour

\* LILT_EVENT_COMPLETION_MODE, whether LILT_EVENT_BLOCKING_QUIET_NS is above
\* zero, which thread launches on which handle, the handles the program may
\* destroy and the CUDA calls that may fail.
SetupType ==
  [mode : {"deferred", "blocking", "query"}, quiet : BOOLEAN,
   uses : SUBSET (Threads \X Handles), destroys : SUBSET (Handles \ PerThreadHandles),
   faults : SUBSET {"watcher", "launch", "record", "wait", "fallback", "drain"}]

ASSUME ThreadAssumption ==
  /\ IsFiniteSet(Threads)
  /\ NoThread \notin Threads /\ Watcher \notin Threads /\ NoThread # Watcher
ASSUME HandleAssumption ==
  PerThreadHandles \subseteq Handles /\ NoThread \notin Handles
ASSUME ConfigAssumption ==
  /\ NSlots \in Nat /\ MaxCalls \in Nat
  /\ Setups \subseteq SetupType

Slots   == 1 .. NSlots
Streams == Handles \X (Threads \cup {Watcher, NoThread})

\* The stream a handle names when thread t passes it to the driver.
StreamOf(t, h) == IF h \in PerThreadHandles THEN <<h, t>> ELSE <<h, NoThread>>

VARIABLES
  setup,        \* the environment variables and the program
  lock,         \* holder of g_hp_event_lock while it waits for the device
  pc,           \* where each application thread is
  call,         \* its arguments and result
  slots,        \* g_hp_event_slots
  events,       \* what the event of each slot was last recorded after
  stateActive,  \* g_hp_state_active
  inProgress,   \* g_hp_launches_in_progress
  recordGen,    \* g_hp_event_record_generation
  wpc,          \* where the watcher is
  observed,     \* its locals: generation last seen, snapshots, the wait
  snaps, at, awaited,
  stop,         \* g_hp_event_stop
  exited,       \* the destructor has unregistered the process
  published,    \* hp_state in the shared segment
  issued, done, \* environment: progress of the device on every stream
  abandoned,    \* streams whose synchronization has failed, until a later
                \* launch on them is tracked or waited for
  destroyed,    \* handles the program has destroyed
  calls         \* launch calls so far

appVars    == <<pc, call, calls>>
slotVars   == <<slots, events, recordGen>>
stateVars  == <<stateActive, inProgress, published>>
waitVars   == <<observed, snaps, at, awaited>>
deviceVars == <<issued, done, abandoned, destroyed>>
processVars == <<setup, stop, exited>>
vars == <<lock, appVars, slotVars, stateVars, wpc, waitVars, deviceVars, processVars>>

---------------------------------------------------------------------------
NoEvent  == [stream |-> <<NoThread, NoThread>>, upto |-> 0]
NoHandle == NoThread
FreeSlot == [handle |-> NoHandle, active |-> FALSE, pending |-> FALSE, gen |-> 0]
NoSnap   == [taken |-> FALSE, gen |-> 0, pending |-> FALSE, ok |-> FALSE]
NoCall   == [handle |-> NoHandle, ok |-> FALSE]

Init ==
  /\ setup \in Setups
  /\ lock = NoThread
  /\ pc = [t \in Threads |-> "idle"]
  /\ call = [t \in Threads |-> NoCall]
  /\ slots = [i \in Slots |-> FreeSlot]
  /\ events = [i \in Slots |-> NoEvent]
  /\ stateActive = FALSE /\ inProgress = 0 /\ published = "idle"
  /\ recordGen = 0
  /\ wpc = "none" /\ observed = 0 /\ at = 0
  /\ snaps = [i \in Slots |-> NoSnap]
  /\ awaited = NoEvent
  /\ stop = FALSE /\ exited = FALSE
  /\ issued = [s \in Streams |-> 0] /\ done = [s \in Streams |-> 0]
  /\ abandoned = {} /\ destroyed = {}
  /\ calls = 0

\* An event recorded now on the stream a handle names for thread t.
RecordedNow(t, h) ==
  [stream |-> StreamOf(t, h), upto |-> issued[StreamOf(t, h)]]

Complete(e) == IF e = NoEvent THEN TRUE ELSE done[e.stream] >= e.upto

AnyActive(table) == \E i \in Slots : table[i].active

\* hp_publish_idle_locked, on the slots and the launch count a step leaves.
PublishIdle(table, count) ==
  IF stateActive /\ count = 0 /\ ~AnyActive(table)
  THEN published' = "idle" /\ stateActive' = FALSE
  ELSE UNCHANGED <<published, stateActive>>

---------------------------------------------------------------------------
(* The launch path. *)

\* event_hp_before_launch: the first call starts the watcher (which fails
\* without a context); the first launch of an active period publishes ACTIVE.
Before(t, h) ==
  /\ pc[t] = "idle" /\ lock = NoThread /\ ~exited
  /\ <<t, h>> \in setup.uses /\ h \notin destroyed
  /\ calls < MaxCalls
  /\ calls' = calls + 1
  /\ \/ wpc = "none" /\ wpc' = "check"
     \/ wpc = "none" /\ "watcher" \in setup.faults /\ UNCHANGED wpc
     \/ wpc # "none" /\ UNCHANGED wpc
  /\ inProgress' = inProgress + 1
  /\ stateActive' = TRUE
  /\ published' = IF stateActive THEN published ELSE "active"
  /\ pc' = [pc EXCEPT ![t] = "launch"]
  /\ call' = [call EXCEPT ![t] = [handle |-> h, ok |-> FALSE]]
  /\ UNCHANGED <<lock, slotVars, waitVars, deviceVars, processVars>>

\* The driver's launch.
Launch(t) ==
  /\ pc[t] = "launch"
  /\ LET s == StreamOf(t, call[t].handle) IN
     \/ /\ issued' = [issued EXCEPT ![s] = @ + 1]
        /\ call' = [call EXCEPT ![t].ok = TRUE]
     \/ "launch" \in setup.faults /\ UNCHANGED <<issued, call>>
  /\ pc' = [pc EXCEPT ![t] = "after"]
  /\ UNCHANGED <<lock, calls, slotVars, stateVars, wpc, waitVars, done, abandoned,
                 destroyed, processVars>>

\* hp_event_slot_locked: the slot of the handle, else the first free one.
SlotFor(h) ==
  IF \E i \in Slots : slots[i].handle = h
  THEN {i \in Slots : slots[i].handle = h}
  ELSE {i \in Slots : /\ slots[i].handle = NoHandle
                      /\ \A j \in 1 .. i - 1 : slots[j].handle # NoHandle}

\* In deferred mode the watcher records the event, except on a stream that
\* only the launching thread can name.
Deferred(h) == setup.mode = "deferred" /\ h \notin PerThreadHandles

\* The end of event_hp_after_launch, with the slots it leaves.
FinishCall(t, table) ==
  /\ inProgress' = inProgress - 1
  /\ PublishIdle(table, inProgress - 1)
  /\ pc' = [pc EXCEPT ![t] = "idle"]
  /\ call' = [call EXCEPT ![t] = NoCall]

\* pthread_cond_signal: a watcher asleep has to take the lock again.
Signal == wpc' = IF wpc = "asleep" THEN "check" ELSE wpc

\* event_hp_after_launch when the launch succeeded and a slot takes it.  The
\* watcher is signalled when no other slot was active.
AfterTracked(t) ==
  LET h == call[t].handle IN
  /\ pc[t] = "after" /\ lock = NoThread /\ call[t].ok
  /\ wpc # "none"
  /\ \E i \in SlotFor(h) :
       /\ slots' = [slots EXCEPT ![i] =
            [handle |-> h, active |-> TRUE, pending |-> Deferred(h),
             gen |-> @.gen + 1]]
       /\ events' = IF Deferred(h) THEN events
                    ELSE [events EXCEPT ![i] = RecordedNow(t, h)]
  /\ recordGen' = recordGen + 1
  /\ FinishCall(t, slots')
  /\ IF AnyActive(slots) THEN UNCHANGED wpc ELSE Signal
  /\ abandoned' = abandoned \ {StreamOf(t, h)}
  /\ UNCHANGED <<lock, calls, waitVars, issued, done, destroyed, processVars>>

\* The launch failed.
AfterFailed(t) ==
  /\ pc[t] = "after" /\ lock = NoThread /\ ~call[t].ok
  /\ FinishCall(t, slots)
  /\ UNCHANGED <<lock, calls, slotVars, wpc, waitVars, deviceVars, processVars>>

\* No watcher, no slot left, or the event cannot be created (for a new slot) or
\* recorded (the slot stays the handle's): the thread synchronizes the stream,
\* and holds the lock while it waits.
AfterUntracked(t) ==
  LET h == call[t].handle IN
  /\ pc[t] = "after" /\ lock = NoThread /\ call[t].ok
  /\ \/ /\ wpc = "none" \/ SlotFor(h) = {}
        /\ UNCHANGED slots
     \/ /\ wpc # "none" /\ "record" \in setup.faults
        /\ \E i \in SlotFor(h) :
             \/ slots[i].handle = NoHandle /\ UNCHANGED slots
             \/ ~Deferred(h) /\ slots' = [slots EXCEPT ![i].handle = h]
  /\ lock' = t
  /\ pc' = [pc EXCEPT ![t] = "drain"]
  /\ UNCHANGED <<call, calls, events, recordGen, stateVars, wpc, waitVars, deviceVars,
                 processVars>>

\* The synchronization returns: the stream has finished, or the call has failed
\* and its result is ignored.
AfterDrained(t) ==
  LET s == StreamOf(t, call[t].handle) IN
  /\ pc[t] = "drain"
  /\ \/ done[s] = issued[s] /\ abandoned' = abandoned \ {s}
     \/ "drain" \in setup.faults /\ abandoned' = abandoned \cup {s}
  /\ lock' = NoThread
  /\ FinishCall(t, slots)
  /\ UNCHANGED <<calls, slotVars, wpc, waitVars, issued, done, destroyed, processVars>>

---------------------------------------------------------------------------
(* The watcher: the wait for work, common to its three loops. *)

WatcherGoto(label) == wpc' = label

WatcherCheck ==
  /\ wpc = "check" /\ lock = NoThread
  /\ setup.mode = "query" => stop \/ ~AnyActive(slots)
  /\ WatcherGoto(IF stop THEN "stopped"
                 ELSE IF ~AnyActive(slots) THEN "asleep"
                 ELSE "frontier")
  /\ UNCHANGED <<lock, appVars, slotVars, stateVars, waitVars, deviceVars, processVars>>

\* hp_event_query_watcher_loop: one pass over the slots, in the same critical
\* section as the check.  A query error waits for the event; a slot stays
\* active when that fails too.
QueryPass(failed) ==
  /\ wpc = "check" /\ lock = NoThread
  /\ setup.mode = "query" /\ ~stop /\ AnyActive(slots)
  /\ failed = {} \/ "fallback" \in setup.faults
  /\ slots' = [i \in Slots |->
       IF slots[i].active /\ Complete(events[i]) /\ i \notin failed
       THEN [slots[i] EXCEPT !.active = FALSE] ELSE slots[i]]
  /\ PublishIdle(slots', inProgress)
  /\ UNCHANGED <<lock, appVars, events, recordGen, inProgress, wpc, waitVars,
                 deviceVars, processVars>>

---------------------------------------------------------------------------
(* The watcher: hp_event_blocking_watcher_loop, blocking and deferred. *)

\* hp_wait_for_stable_frontier: the first load of the record generation, and
\* the first look at the stop flag when there is an interval to wait for.
FrontierLoad ==
  /\ wpc = "frontier"
  /\ observed' = recordGen
  /\ WatcherGoto(IF ~setup.quiet THEN "snapshot" ELSE IF stop THEN "stopped" ELSE "settle")
  /\ UNCHANGED <<lock, appVars, slotVars, stateVars, snaps, at, awaited,
                 deviceVars, processVars>>

\* One quiet interval later: stable, or observe again, or stop.
FrontierSettle ==
  /\ wpc = "settle"
  /\ observed' = recordGen
  /\ WatcherGoto(IF recordGen = observed THEN "snapshot"
                 ELSE IF stop THEN "stopped" ELSE "settle")
  /\ UNCHANGED <<lock, appVars, slotVars, stateVars, snaps, at, awaited,
                 deviceVars, processVars>>

\* The snapshot of the active slots, unless a launch came in between.
TakeSnapshots ==
  /\ wpc = "snapshot" /\ lock = NoThread
  /\ IF stop THEN WatcherGoto("stopped") /\ UNCHANGED <<snaps, at>>
     ELSE IF recordGen # observed \/ inProgress # 0
     THEN WatcherGoto("check") /\ UNCHANGED <<snaps, at>>
     ELSE /\ snaps' = [i \in Slots |->
               IF slots[i].active
               THEN [taken |-> TRUE, gen |-> slots[i].gen,
                     pending |-> slots[i].pending, ok |-> FALSE]
               ELSE NoSnap]
          /\ at' = 1
          /\ WatcherGoto("each")
  /\ UNCHANGED <<lock, appVars, slotVars, stateVars, observed, awaited,
                 deviceVars, processVars>>

\* The next snapshot in slot order, without the lock.  A pending slot's event
\* is recorded now, by this thread.
SnapHandle == slots[at].handle
Fallback   == RecordedNow(Watcher, SnapHandle)

NextSnapshot ==
  /\ wpc = "each" /\ at <= NSlots /\ ~snaps[at].taken
  /\ at' = at + 1
  /\ UNCHANGED <<lock, appVars, slotVars, stateVars, wpc, observed, snaps, awaited,
                 deviceVars, processVars>>

RecordSnapshot ==
  /\ wpc = "each" /\ at <= NSlots /\ snaps[at].taken /\ snaps[at].pending
  /\ \/ /\ SnapHandle \notin destroyed
        /\ events' = [events EXCEPT ![at] = RecordedNow(Watcher, SnapHandle)]
        /\ WatcherGoto("enter")
        /\ UNCHANGED awaited
     \/ /\ SnapHandle \in destroyed \/ "record" \in setup.faults
        /\ awaited' = Fallback
        /\ WatcherGoto("fallback")
        /\ UNCHANGED events
  /\ UNCHANGED <<lock, appVars, slots, recordGen, stateVars, observed, snaps, at,
                 deviceVars, processVars>>

\* cuEventSynchronize waits for what the event was recorded after when it is
\* called: a launch that records it again meanwhile is not waited for.
EnterWait ==
  /\ \/ wpc = "each" /\ at <= NSlots /\ snaps[at].taken /\ ~snaps[at].pending
     \/ wpc = "enter"
  /\ awaited' = events[at]
  /\ WatcherGoto("wait")
  /\ UNCHANGED <<lock, appVars, slotVars, stateVars, observed, snaps, at,
                 deviceVars, processVars>>

SnapshotDone(ok) ==
  /\ snaps' = [snaps EXCEPT ![at].ok = ok]
  /\ at' = at + 1
  /\ awaited' = NoEvent
  /\ WatcherGoto("each")

WaitDone ==
  /\ wpc = "wait" /\ Complete(awaited)
  /\ SnapshotDone(TRUE)
  /\ UNCHANGED <<lock, appVars, slotVars, stateVars, observed, deviceVars, processVars>>

WaitFails ==
  /\ wpc = "wait" /\ "wait" \in setup.faults
  /\ awaited' = Fallback
  /\ WatcherGoto("fallback")
  /\ UNCHANGED <<lock, appVars, slotVars, stateVars, observed, snaps, at,
                 deviceVars, processVars>>

\* The fallback synchronizes the stream; on a destroyed stream it fails.
FallbackDone ==
  /\ wpc = "fallback" /\ SnapHandle \notin destroyed /\ Complete(awaited)
  /\ SnapshotDone(TRUE)
  /\ UNCHANGED <<lock, appVars, slotVars, stateVars, observed, deviceVars, processVars>>

FallbackFails ==
  /\ wpc = "fallback" /\ (SnapHandle \in destroyed \/ "fallback" \in setup.faults)
  /\ SnapshotDone(FALSE)
  /\ UNCHANGED <<lock, appVars, slotVars, stateVars, observed, deviceVars, processVars>>

\* Under the lock again: a slot whose wait ended well and whose generation has
\* not moved is free; a slot that was re-recorded is left to the next round.
ValidatedNoGeneration(i) ==    \* mutant: the generation is not validated
  slots[i].active /\ snaps[i].ok
Validated(i) == slots[i].active /\ snaps[i].ok /\ slots[i].gen = snaps[i].gen

CommitPublishFirst ==          \* mutant: published before the slots are freed
  /\ wpc = "each" /\ at = NSlots + 1 /\ lock = NoThread
  /\ slots' = [i \in Slots |->
       IF Validated(i)
       THEN [slots[i] EXCEPT !.active = FALSE, !.pending = FALSE] ELSE slots[i]]
  /\ PublishIdle(slots, inProgress)
  /\ snaps' = [i \in Slots |-> NoSnap]
  /\ at' = 0
  /\ WatcherGoto("check")
  /\ UNCHANGED <<lock, appVars, events, recordGen, inProgress, observed, awaited,
                 deviceVars, processVars>>
Commit ==
  /\ wpc = "each" /\ at = NSlots + 1 /\ lock = NoThread
  /\ slots' = [i \in Slots |->
       IF Validated(i)
       THEN [slots[i] EXCEPT !.active = FALSE, !.pending = FALSE] ELSE slots[i]]
  /\ PublishIdle(slots', inProgress)
  /\ snaps' = [i \in Slots |-> NoSnap]
  /\ at' = 0
  /\ WatcherGoto("check")
  /\ UNCHANGED <<lock, appVars, events, recordGen, inProgress, observed, awaited,
                 deviceVars, processVars>>

---------------------------------------------------------------------------
(* The destructor, the program and the device. *)

\* Stop and signal the watcher ...
Stop ==
  /\ ~stop /\ lock = NoThread
  /\ stop' = TRUE
  /\ Signal
  /\ UNCHANGED <<lock, appVars, slotVars, stateVars, waitVars, deviceVars, setup, exited>>

\* ... join it, and unregister, which publishes IDLE.
Unregister ==
  /\ stop /\ ~exited /\ wpc \in {"none", "stopped"}
  /\ exited' = TRUE
  /\ published' = "idle"
  /\ UNCHANGED <<lock, appVars, slotVars, stateActive, inProgress, wpc, waitVars,
                 deviceVars, setup, stop>>

\* cuStreamDestroy is forwarded: no slot is told.  The program destroys a
\* stream it has synchronized and no longer launches on.
StreamDestroy(h) ==
  /\ h \in setup.destroys \ destroyed
  /\ done[StreamOf(NoThread, h)] = issued[StreamOf(NoThread, h)]
  /\ \A t \in Threads : call[t].handle # h
  /\ destroyed' = destroyed \cup {h}
  /\ UNCHANGED <<lock, appVars, slotVars, stateVars, wpc, waitVars, issued, done,
                 abandoned, processVars>>

DeviceStep(s) ==
  /\ done[s] < issued[s]
  /\ done' = [done EXCEPT ![s] = @ + 1]
  /\ UNCHANGED <<lock, appVars, slotVars, stateVars, wpc, waitVars, issued, abandoned,
                 destroyed, processVars>>

ThreadWork(t) ==
  Launch(t) \/ AfterTracked(t) \/ AfterFailed(t) \/ AfterUntracked(t) \/ AfterDrained(t)

WatcherWork ==
  \/ WatcherCheck \/ (\E failed \in SUBSET Slots : QueryPass(failed))
  \/ FrontierLoad \/ FrontierSettle \/ TakeSnapshots
  \/ NextSnapshot \/ RecordSnapshot \/ EnterWait
  \/ WaitDone \/ WaitFails \/ FallbackDone \/ FallbackFails \/ Commit

Next ==
  \/ \E t \in Threads : (\E h \in Handles : Before(t, h)) \/ ThreadWork(t)
  \/ WatcherWork
  \/ Stop \/ Unregister
  \/ \E h \in Handles : StreamDestroy(h)
  \/ \E s \in Streams : DeviceStep(s)

Spec == Init /\ [][Next]_vars

\* Threads inside a launch, the watcher and a destructor run, and the device
\* finishes what it is given.  A wait that is tried again and again does not
\* fail every time, unless its stream is gone.  Nothing makes the program call,
\* destroy a stream or exit.
Fairness ==
  /\ \A t \in Threads : WF_vars(ThreadWork(t))
  /\ WF_vars(WatcherWork) /\ WF_vars(Unregister)
  /\ SF_vars(FallbackDone) /\ SF_vars(QueryPass({}))
  /\ \A s \in Streams : WF_vars(DeviceStep(s))

LiveSpec == Spec /\ Fairness

---------------------------------------------------------------------------
(* Properties. *)

\* The type of every variable: slots in their table, locals of the watcher
\* within it, and a count of launches that never goes below zero.
TypeOK ==
  /\ lock \in Threads \cup {NoThread}
  /\ pc \in [Threads -> {"idle", "launch", "after", "drain"}]
  /\ call \in [Threads -> [handle : Handles \cup {NoHandle}, ok : BOOLEAN]]
  /\ slots \in [Slots -> [handle : Handles \cup {NoHandle}, active : BOOLEAN,
                          pending : BOOLEAN, gen : Nat]]
  /\ events \in [Slots -> [stream : Streams, upto : Nat] \cup {NoEvent}]
  /\ awaited \in [stream : Streams, upto : Nat] \cup {NoEvent}
  /\ stateActive \in BOOLEAN /\ inProgress \in Nat
  /\ published \in {"idle", "active"}
  /\ recordGen \in Nat /\ observed \in Nat
  /\ wpc \in {"none", "check", "asleep", "frontier", "settle", "snapshot",
              "each", "enter", "wait", "fallback", "stopped"}
  /\ snaps \in [Slots -> [taken : BOOLEAN, gen : Nat, pending : BOOLEAN, ok : BOOLEAN]]
  /\ at \in 0 .. NSlots + 1
  /\ stop \in BOOLEAN /\ exited \in BOOLEAN
  /\ issued \in [Streams -> Nat] /\ done \in [Streams -> Nat]
  /\ abandoned \in SUBSET Streams /\ destroyed \in SUBSET Handles
  /\ calls \in Nat

\* The device has work of the HP process, not counting the streams for which
\* the synchronization that stands in for an event has failed.
Working == \E s \in Streams \ abandoned : done[s] < issued[s]

\* The BE processes are told the truth: while the HP process lives, IDLE is
\* published only when nothing it launched is still on the device, except on a
\* stream whose synchronization has failed, and no thread is between its
\* before_launch and its after_launch.
NoIdleWhileWorking ==
  published = "idle" /\ ~exited =>
    ~Working /\ \A t \in Threads : pc[t] = "idle"

\* The types, and what the HP publishes of itself.
IdleMeansIdle == TypeOK /\ NoIdleWhileWorking

\* The program destroys no stream whose event the watcher has yet to record
\* (cuStreamDestroy tells the monitor nothing, and such a slot is never freed).
StreamsOutliveEvents ==
  \A i \in Slots : slots[i].pending => slots[i].handle \notin destroyed

\* And they are not held back for nothing: once the program stops launching,
\* ACTIVE is followed by IDLE.  No wakeup of the watcher is lost, no stale
\* completion leaves a slot active for ever.
ActiveEndsInIdle ==
  []StreamsOutliveEvents => ((published = "active") ~> (published = "idle"))
============================================================================
