--------------------------- MODULE HpMonitor_proofs ---------------------------
(***************************************************************************)
(* The theorem of HpMonitor.  IdleMeansIdle: while the HP process lives,   *)
(* IDLE is published only when no thread is inside a launch and the device *)
(* has finished everything the process gave it, except on a stream whose   *)
(* synchronization has failed, in the three completion modes, for any      *)
(* number of threads, handles, slots and calls, with the calls failing     *)
(* that may fail.                                                          *)
(*                                                                         *)
(* The premise OwnDefaults is where the code stops keeping the promise: a  *)
(* slot is found by its handle, so two threads that launch on their own    *)
(* default streams share one event (HpTwoDefaults), and a failed wait is   *)
(* retried on the watcher's own default stream.                            *)
(*                                                                         *)
(* The argument: a stream with work under way is held by a thread in its   *)
(* after_launch, or covered by an active slot whose event, once recorded,  *)
(* comes after all of its launches (CoverInv); a snapshot whose slot's     *)
(* generation has not moved is about those launches (SnapInv, WaitInv), so *)
(* a slot is freed only when its stream has finished; and IDLE needs every *)
(* slot free and no launch counted (StateInv).                             *)
(***************************************************************************)
EXTENDS HpMonitor, FiniteSetTheorems, TLAPS

\* The premise on the programs: a default stream's handle is used by one thread
\* at most, and waits for an event do not fail where default streams are used.
OwnDefaults ==
  \A u \in Setups :
    /\ \A h \in PerThreadHandles : \A r, t \in Threads :
         <<r, h>> \in u.uses /\ <<t, h>> \in u.uses => r = t
    /\ "wait" \in u.faults => \A p \in u.uses : p[2] \notin PerThreadHandles

SlotRec  == [handle : Handles \cup {NoHandle}, active : BOOLEAN,
             pending : BOOLEAN, gen : Nat]
SnapRec  == [taken : BOOLEAN, gen : Nat, pending : BOOLEAN, ok : BOOLEAN]
CallRec  == [handle : Handles \cup {NoHandle}, ok : BOOLEAN]
EventRec == [stream : Streams, upto : Nat]
USE DEF SlotRec, SnapRec, CallRec, EventRec

---------------------------------------------------------------------------
(* The inductive invariant. *)

\* Threads inside a launch: the count the HP keeps under its lock is of them.
Busy == {r \in Threads : pc[r] # "idle"}

CallInv ==
  /\ setup \in Setups
  /\ inProgress = Cardinality(Busy)
  /\ \A t \in Threads :
       /\ pc[t] # "idle" => <<t, call[t].handle>> \in setup.uses
       /\ pc[t] = "launch" => ~call[t].ok
       /\ pc[t] = "drain" => call[t].ok

\* What is published is the flag, and the flag is up while there is a reason.
StateInv ==
  /\ ~exited => (published = "active" <=> stateActive)
  /\ ~stateActive => inProgress = 0 /\ ~AnyActive(slots)

\* The device runs what it was given, on streams the program launches on.
StreamInv ==
  \A s \in Streams :
    /\ done[s] <= issued[s]
    /\ issued[s] > 0 =>
         \E t \in Threads : <<t, s[1]>> \in setup.uses /\ s = StreamOf(t, s[1])

\* A handle has one slot, and an active slot is pending in the watcher's mode.
SlotInv ==
  /\ \A i \in Slots :
       /\ slots[i].active => /\ slots[i].handle \in Handles
                             /\ slots[i].pending <=> Deferred(slots[i].handle)
       /\ slots[i].pending => slots[i].active
  /\ \A i, j \in Slots :
       slots[i].handle = slots[j].handle /\ slots[i].handle # NoHandle => i = j

\* A thread that launched on stream s has yet to say so.
Held(s) ==
  \E t \in Threads : /\ pc[t] \in {"after", "drain"} /\ call[t].ok
                     /\ StreamOf(t, call[t].handle) = s
\* No slot has to answer for s: it has finished, its synchronization has failed,
\* or a thread will.
Settled(s) == done[s] = issued[s] \/ s \in abandoned \/ Held(s)

\* Event e comes after every launch on s.
Latest(e, s) == e.stream = s /\ e.upto = issued[s]

\* Slot i answers for the launches on s: its event covers them, or will.
SlotCovers(i, s) ==
  /\ slots[i].active /\ slots[i].handle = s[1]
  /\ slots[i].pending \/ Latest(events[i], s)
CoverInv ==
  \A s \in Streams : Settled(s) \/ \E i \in Slots : SlotCovers(i, s)

\* The snapshot of slot i is still about its last launch.
Fresh(i) == snaps[i].taken /\ slots[i].gen = snaps[i].gen
OfSlot(i, s) == slots[i].handle = s[1]

\* The snapshots, and where the watcher is among them.
SnapInv ==
  /\ setup.mode = "query" => /\ wpc \in {"none", "check", "asleep", "stopped"}
                             /\ \A i \in Slots : ~snaps[i].taken
  /\ wpc = "each" => at >= 1
  /\ wpc \in {"enter", "wait", "fallback"} => at \in Slots /\ snaps[at].taken
  /\ \A i \in Slots :
       /\ snaps[i].ok => snaps[i].taken
       /\ snaps[i].taken => /\ slots[i].handle \in Handles
                            /\ snaps[i].gen <= slots[i].gen
                            /\ snaps[i].pending <=> Deferred(slots[i].handle)
       /\ Fresh(i) => slots[i].active

\* A wait that has ended well, on a slot whose generation has not moved, was
\* for every launch on its stream, and so is the one under way.
WaitInv ==
  /\ \A i \in Slots : Fresh(i) /\ snaps[i].ok =>
       \A s \in Streams : OfSlot(i, s) => Settled(s)
  /\ wpc = "enter" /\ Fresh(at) =>
       \A s \in Streams : OfSlot(at, s) => Settled(s) \/ Latest(events[at], s)
  /\ wpc \in {"wait", "fallback"} /\ Fresh(at) =>
       \A s \in Streams : OfSlot(at, s) => Settled(s) \/ Latest(awaited, s)

IInv ==
  /\ TypeOK /\ CallInv /\ StateInv /\ StreamInv /\ SlotInv
  /\ CoverInv /\ SnapInv /\ WaitInv

---------------------------------------------------------------------------
(* The constants, the streams and the count of launches. *)

\* The assumptions on the constants.
LEMMA Frame ==
  /\ IsFiniteSet(Threads) /\ NoThread \notin Threads /\ Watcher \notin Threads
  /\ NoThread # Watcher /\ PerThreadHandles \subseteq Handles
  /\ NoHandle \notin Handles /\ NSlots \in Nat /\ Setups \subseteq SetupType
BY ThreadAssumption, HandleAssumption, ConfigAssumption DEF NoHandle

\* A handle names a stream that remembers it.
LEMMA StreamOfType ==
  \A h \in Handles, t \in Threads \cup {Watcher, NoThread} :
    StreamOf(t, h) \in Streams /\ StreamOf(t, h)[1] = h
BY DEF StreamOf, Streams

\* An event recorded now comes after every launch on its stream.
LEMMA RecordedType ==
  ASSUME TypeOK, NEW t \in Threads \cup {Watcher}, NEW h \in Handles
  PROVE  /\ RecordedNow(t, h) \in EventRec
         /\ RecordedNow(t, h).stream = StreamOf(t, h)
         /\ Latest(RecordedNow(t, h), StreamOf(t, h))
<1>1. StreamOf(t, h) \in Streams  BY Frame, StreamOfType
<1> QED  BY <1>1 DEF TypeOK, RecordedNow, Latest

\* A thread enters its launch: one more is counted.
LEMMA CountUp ==
  ASSUME TypeOK, NEW t \in Threads, pc[t] = "idle", NEW x, x # "idle",
         pc' = [pc EXCEPT ![t] = x]
  PROVE  Cardinality(Busy)' = Cardinality(Busy) + 1 /\ Cardinality(Busy) \in Nat
<1>1. IsFiniteSet(Busy)  BY Frame, FS_Subset DEF Busy
<1>2. t \notin Busy /\ Busy' = Busy \cup {t}  BY DEF Busy, TypeOK
<1> QED  BY <1>1, <1>2, FS_AddElement, FS_CardinalityType

\* A thread leaves it: one less.
LEMMA CountDown ==
  ASSUME TypeOK, NEW t \in Threads, pc[t] # "idle",
         pc' = [pc EXCEPT ![t] = "idle"]
  PROVE  Cardinality(Busy)' = Cardinality(Busy) - 1
<1>1. IsFiniteSet(Busy)  BY Frame, FS_Subset DEF Busy
<1>2. t \in Busy /\ Busy' = Busy \ {t}  BY DEF Busy, TypeOK
<1> QED  BY <1>1, <1>2, FS_RemoveElement, FS_CardinalityType

\* A step inside it.
LEMMA CountSame ==
  ASSUME TypeOK, NEW t \in Threads, pc[t] # "idle", NEW x, x # "idle",
         pc' = [pc EXCEPT ![t] = x]
  PROVE  Busy' = Busy
BY DEF Busy, TypeOK

\* While a thread is inside its launch, it is counted and ACTIVE is flagged.
LEMMA LaunchCounts ==
  ASSUME TypeOK, CallInv, StateInv, NEW t \in Threads, pc[t] # "idle"
  PROVE  inProgress \in Nat \ {0} /\ stateActive
<1>1. IsFiniteSet(Busy)  BY Frame, FS_Subset DEF Busy
<1>2. t \in Busy  BY DEF Busy
<1>3. Cardinality(Busy) # 0  BY <1>1, <1>2, FS_EmptySet
<1> QED  BY <1>3 DEF CallInv, StateInv, TypeOK, Busy

---------------------------------------------------------------------------
(* The launch path. *)

\* WaitInv survives a step that leaves the watcher's locals alone, the slots it
\* has seen, and the streams of those slots settled or without a new launch.
LEMMA WaitKept ==
  ASSUME SnapInv, WaitInv, UNCHANGED <<snaps, at, awaited>>,
         wpc' = wpc \/ wpc' \notin {"enter", "wait", "fallback"},
         \A i \in Slots : Fresh(i)' =>
           Fresh(i) /\ slots'[i].handle = slots[i].handle /\ events'[i] = events[i],
         \A i \in Slots, s \in Streams :
           Fresh(i)' /\ slots[i].handle = s[1] =>
             /\ Settled(s) => Settled(s)'
             /\ issued'[s] = issued[s] \/ Settled(s)'
  PROVE  WaitInv'
<1>1. \A i \in Slots, s \in Streams : OfSlot(i, s)' /\ Fresh(i)' => OfSlot(i, s)
  BY DEF OfSlot
<1>2. \A i \in Slots : (Fresh(i) /\ snaps[i].ok)' =>
        \A s \in Streams : OfSlot(i, s)' => Settled(s)'
  BY <1>1 DEF WaitInv, OfSlot
<1>3. wpc' \in {"enter", "wait", "fallback"} => at \in Slots /\ wpc' = wpc
  BY DEF SnapInv
<1>4. (wpc' = "enter" /\ Fresh(at)') =>
        \A s \in Streams : OfSlot(at, s)' => Settled(s)' \/ Latest(events[at], s)'
  BY <1>1, <1>3 DEF WaitInv, OfSlot, Latest
<1>5. (wpc' \in {"wait", "fallback"} /\ Fresh(at)') =>
        \A s \in Streams : OfSlot(at, s)' => Settled(s)' \/ Latest(awaited, s)'
  BY <1>1, <1>3 DEF WaitInv, OfSlot, Latest
<1> QED  BY <1>2, <1>4, <1>5 DEF WaitInv

\* The result of a launch is marked in the call.
LEMMA CallMarked ==
  ASSUME TypeOK, NEW t \in Threads,
         call' = call \/ call' = [call EXCEPT ![t].ok = TRUE]
  PROVE  /\ call' \in [Threads -> CallRec]
         /\ \A r \in Threads : call'[r].handle = call[r].handle
         /\ \A r \in Threads \ {t} : call'[r] = call[r]
<1>1. CASE call' = call  BY <1>1 DEF TypeOK
<1>2. CASE call' = [call EXCEPT ![t].ok = TRUE]
  <2>1. /\ DOMAIN call' = Threads /\ call' = [r \in Threads |-> call'[r]]
        /\ \A r \in Threads \ {t} : call'[r] = call[r]
        /\ call'[t] = [call[t] EXCEPT !.ok = TRUE]
    BY <1>2 DEF TypeOK
  <2>2. call[t] \in CallRec  BY DEF TypeOK
  <2>3. /\ call'[t] \in CallRec
        /\ call'[t].handle = call[t].handle
    BY <2>1, <2>2
  <2> QED  BY <2>1, <2>3 DEF TypeOK
<1> QED  BY <1>1, <1>2

\* The stream a busy thread launches on is the only one of its handle with work.
LEMMA OnlyStream ==
  ASSUME StreamInv, CallInv, OwnDefaults, TypeOK, NEW t \in Threads, pc[t] # "idle",
         NEW s \in Streams, s[1] = call[t].handle
  PROVE  s = StreamOf(t, call[t].handle) \/ issued[s] = 0
<1>1. setup \in Setups /\ <<t, call[t].handle>> \in setup.uses  BY DEF CallInv
<1>2. SUFFICES ASSUME issued[s] > 0  PROVE s = StreamOf(t, call[t].handle)
  BY DEF TypeOK
<1>3. PICK r \in Threads : <<r, s[1]>> \in setup.uses /\ s = StreamOf(r, s[1])
  BY <1>2 DEF StreamInv
<1>4. s[1] \in PerThreadHandles => r = t  BY <1>1, <1>3 DEF OwnDefaults
<1> QED  BY <1>3, <1>4 DEF StreamOf

\* The slot for a handle is its own, or a free one when it has none.
LEMMA SlotForType ==
  ASSUME NEW h \in Handles, NEW i \in SlotFor(h)
  PROVE  /\ i \in Slots
         /\ \/ slots[i].handle = h
            \/ slots[i].handle = NoHandle /\ \A j \in Slots : slots[j].handle # h
BY DEF SlotFor

---------------------------------------------------------------------------
(* The watcher. *)

\* The slot of a stream's handle is the one that answers for it.
LEMMA OwnCover ==
  ASSUME SlotInv, CoverInv, NEW i \in Slots, NEW s \in Streams, OfSlot(i, s)
  PROVE  Settled(s) \/ SlotCovers(i, s)
<1>1. slots[i].handle = s[1] /\ slots[i].handle # NoHandle
  BY Frame DEF OfSlot, Streams
<1>2. \A j \in Slots : SlotCovers(j, s) => j = i
  BY <1>1 DEF SlotCovers, SlotInv
<1> QED  BY <1>2 DEF CoverInv

\* On a handle all threads share, the watcher names the stream they launch on.
LEMMA SharedStream ==
  ASSUME TypeOK, StreamInv, NEW s \in Streams, s[1] \notin PerThreadHandles
  PROVE  s = StreamOf(Watcher, s[1]) \/ Settled(s)
<1>1. CASE issued[s] = 0
  <2>1. done[s] = 0  BY <1>1 DEF StreamInv, TypeOK
  <2> QED  BY <1>1, <2>1 DEF Settled
<1>2. CASE issued[s] > 0
  <2>1. PICK t \in Threads : s = StreamOf(t, s[1])  BY <1>2 DEF StreamInv
  <2> QED  BY <2>1 DEF StreamOf
<1>3. issued[s] \in Nat  BY DEF TypeOK
<1> QED  BY <1>1, <1>2, <1>3

\* A stream the program does not launch on has no work.
LEMMA UnusedStream ==
  ASSUME TypeOK, StreamInv, NEW s \in Streams,
         \A t \in Threads : <<t, s[1]>> \notin setup.uses
  PROVE  Settled(s)
<1>1. issued[s] \in Nat /\ done[s] \in Nat /\ done[s] <= issued[s]
  BY DEF StreamInv, TypeOK
<1>2. ~(issued[s] > 0)  BY DEF StreamInv
<1> QED  BY <1>1, <1>2 DEF Settled

\* The watcher has a snapshot to wait for.
Waiting == \/ wpc \in {"enter", "wait", "fallback"}
           \/ wpc = "each" /\ at <= NSlots /\ snaps[at].taken

\* The snapshot the watcher waits for is of a slot with a handle.
LEMMA WaitingFacts ==
  ASSUME TypeOK, SnapInv, Waiting
  PROVE  /\ at \in Slots /\ snaps[at].taken /\ at + 1 \in 0 .. NSlots + 1
         /\ slots[at].handle \in Handles
         /\ snaps[at].pending <=> Deferred(slots[at].handle)
<1>1. at \in Slots /\ snaps[at].taken
  BY Frame DEF Waiting, SnapInv, TypeOK, Slots
<1> QED  BY <1>1, Frame DEF SnapInv, Slots

\* The fallback waits for all the launches on the stream the watcher names.
LEMMA FallbackFacts ==
  ASSUME TypeOK, SnapInv, Waiting
  PROVE  /\ Fallback \in EventRec
         /\ Latest(Fallback, StreamOf(Watcher, slots[at].handle))
BY WaitingFacts, RecordedType DEF Fallback, SnapHandle

\* The watcher's steps leave the streams and the threads alone.
LEMMA WatcherKeeps ==
  ASSUME UNCHANGED <<slots, pc, call, issued, done, abandoned>>
  PROVE  \A s \in Streams :
           /\ Settled(s)' <=> Settled(s)
           /\ \A i \in Slots : OfSlot(i, s)' <=> OfSlot(i, s)
BY DEF Settled, Held, OfSlot

\* Once an event after every launch has completed, the stream has finished.
LEMMA CaughtUp ==
  ASSUME TypeOK, StreamInv, NEW s \in Streams, NEW e, Latest(e, s), Complete(e)
  PROVE  Settled(s)
<1>1. s # <<NoThread, NoThread>>  BY Frame DEF Streams, NoHandle
<1>2. e # NoEvent  BY <1>1 DEF Latest, NoEvent
<1>3. done[s] >= issued[s]  BY <1>2 DEF Complete, Latest
<1>4. issued[s] \in Nat /\ done[s] \in Nat /\ done[s] <= issued[s]
  BY DEF StreamInv, TypeOK
<1> QED  BY <1>3, <1>4 DEF Settled

\* A wait that ends well has settled its stream, if the snapshot is fresh.
LEMMA FinishedWait ==
  ASSUME IInv, wpc \in {"wait", "fallback"}, NEW ok \in BOOLEAN, SnapshotDone(ok),
         ok => Complete(awaited),
         UNCHANGED <<slots, pc, call, issued, done, abandoned, events>>
  PROVE  WaitInv'
<1>1. at \in Slots  BY WaitingFacts DEF IInv, Waiting
<1>2. /\ \A i \in Slots : Fresh(i)' <=> Fresh(i)
      /\ \A i \in Slots : snaps'[i].ok => (IF i = at THEN ok ELSE snaps[i].ok)
  BY <1>1 DEF IInv, TypeOK, SnapshotDone, Fresh
<1>3. \A s \in Streams : Fresh(at) /\ ok /\ OfSlot(at, s) => Settled(s)
  BY CaughtUp DEF IInv, WaitInv
<1>4. \A i \in Slots : (Fresh(i) /\ snaps[i].ok)' =>
        \A s \in Streams : OfSlot(i, s)' => Settled(s)'
  BY <1>1, <1>2, <1>3, WatcherKeeps DEF IInv, WaitInv
<1>5. wpc' = "each"  BY DEF SnapshotDone, WatcherGoto
<1> QED  BY <1>4, <1>5 DEF WaitInv, Slots

\* What the end of a wait does to the snapshots.
LEMMA SnapsType ==
  ASSUME TypeOK, NEW ok \in BOOLEAN, at \in Slots, SnapshotDone(ok)
  PROVE  /\ snaps' \in [Slots -> SnapRec]
         /\ at' \in 0 .. NSlots + 1
         /\ awaited' \in EventRec \cup {NoEvent}
         /\ wpc' = "each" /\ at' = at + 1
         /\ \A i \in Slots : /\ snaps'[i].taken = snaps[i].taken
                             /\ snaps'[i].gen = snaps[i].gen
                             /\ snaps'[i].pending = snaps[i].pending
                             /\ snaps'[i].ok => snaps[i].ok \/ i = at
<1>1. snaps[at] \in SnapRec
  BY DEF TypeOK
<1>2. snaps' = [snaps EXCEPT ![at].ok = ok]  BY DEF SnapshotDone
<1>3. snaps'[at] = [taken |-> snaps[at].taken, gen |-> snaps[at].gen,
                    pending |-> snaps[at].pending, ok |-> ok]
  BY <1>1, <1>2 DEF TypeOK
<1>4. \A i \in Slots \ {at} : snaps'[i] = snaps[i]  BY <1>2 DEF TypeOK
<1>5. snaps' = [i \in Slots |-> snaps'[i]]  BY <1>2 DEF TypeOK
<1>6. \A i \in Slots : snaps'[i] \in
        SnapRec
  BY <1>1, <1>3, <1>4 DEF TypeOK
<1>7. at' = at + 1 /\ awaited' = NoEvent /\ wpc' = "each"
  BY DEF SnapshotDone, WatcherGoto
<1>8. at' \in 0 .. NSlots + 1  BY <1>7, Frame DEF Slots
<1>9. \A i \in Slots : /\ snaps'[i].taken = snaps[i].taken
                       /\ snaps'[i].gen = snaps[i].gen
                       /\ snaps'[i].pending = snaps[i].pending
                       /\ snaps'[i].ok => snaps[i].ok \/ i = at
  BY <1>3, <1>4
<1> QED  BY <1>5, <1>6, <1>7, <1>8, <1>9

\* SnapInv when the watcher goes from one snapshot to its wait or to the next.
LEMMA SnapMove ==
  ASSUME TypeOK, SnapInv, Waiting, UNCHANGED <<slots, setup>>,
         \A i \in Slots : /\ snaps'[i].taken = snaps[i].taken
                          /\ snaps'[i].gen = snaps[i].gen
                          /\ snaps'[i].pending = snaps[i].pending
                          /\ snaps'[i].ok => snaps[i].ok \/ i = at,
         \/ wpc' \in {"wait", "fallback"} /\ at' = at
         \/ wpc' = "each" /\ at' = at + 1
  PROVE  SnapInv'
<1>1. at \in Slots /\ snaps[at].taken /\ at >= 0
  BY WaitingFacts, Frame DEF Slots
<1>2. setup.mode # "query"  BY <1>1 DEF SnapInv
<1>3. \A i \in Slots : Fresh(i)' <=> Fresh(i)  BY DEF Fresh
<1>4. /\ wpc' = "each" => at' >= 1
      /\ wpc' \in {"enter", "wait", "fallback"} => at' \in Slots /\ snaps'[at'].taken
  BY <1>1, Frame DEF Slots
<1> QED  BY <1>1, <1>2, <1>3, <1>4 DEF SnapInv, Slots, Deferred

\* What the snapshots are taken of.
LEMMA Snapshots ==
  ASSUME TypeOK,
         snaps' = [i \in Slots |->
           IF slots[i].active
           THEN [taken |-> TRUE, gen |-> slots[i].gen,
                 pending |-> slots[i].pending, ok |-> FALSE]
           ELSE NoSnap]
  PROVE  /\ snaps' \in [Slots -> SnapRec]
         /\ \A i \in Slots :
              /\ ~snaps'[i].ok
              /\ snaps'[i].taken => /\ slots[i].active
                                    /\ snaps'[i].gen = slots[i].gen
                                    /\ snaps'[i].pending = slots[i].pending
<1>1. \A i \in Slots : slots[i].gen \in Nat /\ slots[i].pending \in BOOLEAN
  BY DEF TypeOK
<1>2. \A i \in Slots : /\ ~slots[i].active => snaps'[i] = NoSnap
                       /\ slots[i].active =>
                            snaps'[i] = [taken |-> TRUE, gen |-> slots[i].gen,
                                         pending |-> slots[i].pending, ok |-> FALSE]
  OBVIOUS
<1>3. \A i \in Slots : snaps'[i] \in
        SnapRec
  BY <1>1, <1>2 DEF NoSnap
<1> QED  BY <1>2, <1>3 DEF NoSnap

\* What freeing a set of slots leaves.
LEMMA Freed ==
  ASSUME TypeOK, NEW S \in SUBSET Slots,
         slots' \in {[i \in Slots |-> IF i \in S
                                      THEN [slots[i] EXCEPT !.active = FALSE]
                                      ELSE slots[i]],
                     [i \in Slots |-> IF i \in S
                                      THEN [slots[i] EXCEPT !.active = FALSE, !.pending = FALSE]
                                      ELSE slots[i]]}
  PROVE  /\ slots' \in [Slots -> SlotRec]
         /\ \A i \in Slots :
              /\ slots'[i].handle = slots[i].handle /\ slots'[i].gen = slots[i].gen
              /\ slots'[i].active <=> slots[i].active /\ i \notin S
              /\ slots'[i].pending => slots[i].pending
              /\ i \notin S => slots'[i] = slots[i]
<1>1. \A i \in Slots : slots[i] \in SlotRec  BY DEF TypeOK
<1>2. \A i \in Slots :
        /\ i \notin S => slots'[i] = slots[i]
        /\ i \in S => slots'[i] \in
             {[slots[i] EXCEPT !.active = FALSE],
              [slots[i] EXCEPT !.active = FALSE, !.pending = FALSE]}
  OBVIOUS
<1>3. ASSUME NEW i \in Slots
      PROVE  /\ slots'[i] \in SlotRec
             /\ slots'[i].handle = slots[i].handle /\ slots'[i].gen = slots[i].gen
             /\ slots'[i].active <=> slots[i].active /\ i \notin S
             /\ slots'[i].pending => slots[i].pending
  <2>1. CASE i \notin S  BY <1>1, <1>2, <2>1
  <2>2. CASE slots'[i] = [slots[i] EXCEPT !.active = FALSE] /\ i \in S
    BY <1>1, <2>2
  <2>3. CASE /\ slots'[i] = [slots[i] EXCEPT !.active = FALSE, !.pending = FALSE]
             /\ i \in S
    BY <1>1, <2>3
  <2> QED  BY <1>2, <2>1, <2>2, <2>3
<1>4. slots' = [i \in Slots |-> slots'[i]]  OBVIOUS
<1> QED  BY <1>2, <1>3, <1>4

\* PublishIdle on the slots a step has freed.
LEMMA FreedStates ==
  ASSUME TypeOK, StateInv, PublishIdle(slots', inProgress),
         \A i \in Slots : slots'[i].active => slots[i].active,
         UNCHANGED <<inProgress, exited>>
  PROVE  /\ StateInv'
         /\ stateActive' \in BOOLEAN /\ published' \in {"idle", "active"}
<1>1. AnyActive(slots') <=> AnyActive(slots)'  BY DEF AnyActive, Slots
<1>2. AnyActive(slots') => AnyActive(slots)  BY DEF AnyActive
<1>3. CASE stateActive /\ inProgress = 0 /\ ~AnyActive(slots')
  BY <1>1, <1>3 DEF PublishIdle, StateInv
<1>4. CASE ~(stateActive /\ inProgress = 0 /\ ~AnyActive(slots'))
  BY <1>1, <1>2, <1>4 DEF PublishIdle, StateInv, TypeOK
<1> QED  BY <1>3, <1>4

\* SnapInv when the watcher is elsewhere.
LEMMA SnapKept ==
  ASSUME SnapInv, UNCHANGED <<snaps, at, slots, setup>>,
         \/ wpc' = wpc
         \/ wpc' \in {"check", "asleep", "stopped"}
         \/ wpc' \in {"frontier", "settle", "snapshot"} /\ setup.mode # "query"
  PROVE  SnapInv'
<1>1. \A i \in Slots : Fresh(i)' <=> Fresh(i)  BY DEF Fresh
<1> QED  BY <1>1 DEF SnapInv, Deferred, Slots

---------------------------------------------------------------------------
(* Every action preserves the invariant: the launch path. *)

LEMMA BeforeStep ==
  ASSUME IInv, OwnDefaults, NEW t \in Threads, NEW h \in Handles, Before(t, h)
  PROVE  IInv'
<1> USE Frame DEF IInv, Before, appVars, slotVars, stateVars, waitVars,
              deviceVars, processVars
<1>1. TypeOK'  BY DEF TypeOK, Slots
<1>2. CallInv'
  <2>1. inProgress' = Cardinality(Busy)'  BY CountUp DEF CallInv, Busy, TypeOK
  <2> QED  BY <2>1 DEF CallInv, Busy, TypeOK
<1>3. StateInv'  BY DEF StateInv, AnyActive, TypeOK
<1>4. StreamInv'  BY DEF StreamInv, TypeOK
<1>5. SlotInv'  BY DEF SlotInv, TypeOK, Deferred
<1>6. CoverInv'
  <2>1. \A s \in Streams : Settled(s) => Settled(s)'
    BY DEF Settled, Held, TypeOK
  <2>2. \A i \in Slots, s \in Streams : SlotCovers(i, s) => SlotCovers(i, s)'
    BY DEF SlotCovers, Latest
  <2> QED  BY <2>1, <2>2 DEF CoverInv, Slots
<1>7. SnapInv'
  <2>1. UNCHANGED <<snaps, at, slots, setup>>  OBVIOUS
  <2>2. \/ wpc' = wpc
        \/ wpc' \in {"check", "asleep", "stopped"}
        \/ wpc' \in {"frontier", "settle", "snapshot"} /\ setup.mode # "query"
    BY DEF SnapInv
  <2> QED  BY <2>1, <2>2, SnapKept
<1>8. WaitInv'
  <2>1. \A s \in Streams : Settled(s) => Settled(s)'
    BY DEF Settled, Held, TypeOK
  <2>2. wpc' = wpc \/ wpc' = "check"  OBVIOUS
  <2> QED  BY <2>1, <2>2, WaitKept DEF Fresh
<1> QED  BY <1>1, <1>2, <1>3, <1>4, <1>5, <1>6, <1>7, <1>8

LEMMA LaunchStep ==
  ASSUME IInv, OwnDefaults, NEW t \in Threads, Launch(t)
  PROVE  IInv'
<1> USE Frame DEF IInv, Launch, appVars, slotVars, stateVars, waitVars,
              deviceVars, processVars
<1>1. TypeOK'
  <2>1. call[t].handle \in Handles  BY DEF CallInv, SetupType
  <2>2. StreamOf(t, call[t].handle) \in Streams  BY <2>1, StreamOfType
  <2>3. issued' \in [Streams -> Nat]  BY <2>2 DEF TypeOK
  <2>4. pc' \in [Threads -> {"idle", "launch", "after", "drain"}]  BY DEF TypeOK
  <2>5. call' = call \/ call' = [call EXCEPT ![t].ok = TRUE]  OBVIOUS
  <2>6. call' \in [Threads -> CallRec]
    BY <2>5, CallMarked
  <2> QED  BY <2>3, <2>4, <2>6 DEF TypeOK
<1>2. CallInv'
  <2>1. Busy' = Busy  BY CountSame
  <2>2. call' = call \/ call' = [call EXCEPT ![t].ok = TRUE]  OBVIOUS
  <2>3. /\ \A r \in Threads : call'[r].handle = call[r].handle
        /\ \A r \in Threads \ {t} : call'[r] = call[r]
    BY <2>2, CallMarked
  <2>4. \A r \in Threads : pc'[r] = IF r = t THEN "after" ELSE pc[r]
    BY DEF TypeOK
  <2>5. setup' = setup /\ inProgress' = inProgress /\ pc[t] = "launch"  OBVIOUS
  <2>6. inProgress' = Cardinality(Busy)'  BY <2>1, <2>5 DEF CallInv, Busy
  <2>7. \A r \in Threads :
          /\ pc'[r] # "idle" => <<r, call'[r].handle>> \in setup.uses
          /\ pc'[r] = "launch" => ~call'[r].ok
          /\ pc'[r] = "drain" => call'[r].ok
    BY <2>3, <2>4, <2>5 DEF CallInv
  <2>8. setup \in Setups  BY DEF CallInv
  <2> QED  BY <2>5, <2>6, <2>7, <2>8 DEF CallInv, Busy
<1>3. StateInv'  BY DEF StateInv, AnyActive, TypeOK
<1>4. StreamInv'
  <2>1. call[t].handle \in Handles  BY DEF CallInv, SetupType
  <2>2. /\ StreamOf(t, call[t].handle) \in Streams
        /\ StreamOf(t, call[t].handle)[1] = call[t].handle
    BY <2>1, StreamOfType
  <2>3. SUFFICES ASSUME NEW s \in Streams
                 PROVE  /\ done[s] <= issued'[s]
                        /\ issued'[s] > 0 =>
                             \E r \in Threads : /\ <<r, s[1]>> \in setup.uses
                                                /\ s = StreamOf(r, s[1])
    BY DEF StreamInv
  <2>4. CASE issued'[s] = issued[s]  BY <2>4 DEF StreamInv
  <2>5. CASE s = StreamOf(t, call[t].handle) /\ issued'[s] = issued[s] + 1
    <3>1. done[s] <= issued[s] /\ done[s] \in Nat /\ issued[s] \in Nat
      BY DEF StreamInv, TypeOK
    <3>2. <<t, s[1]>> \in setup.uses /\ s = StreamOf(t, s[1])
      BY <2>2, <2>5 DEF CallInv
    <3> QED  BY <2>5, <3>1, <3>2
  <2>6. \/ issued' = issued
        \/ issued' = [issued EXCEPT ![StreamOf(t, call[t].handle)] = @ + 1]
    OBVIOUS
  <2>7. issued \in [Streams -> Nat]  BY DEF TypeOK
  <2> HIDE DEF Launch
  <2> QED  BY <2>2, <2>4, <2>5, <2>6, <2>7
<1>5. SlotInv'  BY DEF SlotInv, TypeOK, Deferred
<1>s. ASSUME NEW s \in Streams
      PROVE  /\ Settled(s) => Settled(s)'
             /\ issued'[s] = issued[s] \/ Settled(s)'
  <2>1. CASE UNCHANGED <<issued, call>>
    BY <2>1 DEF Settled, Held, TypeOK
  <2>2. CASE /\ issued' = [issued EXCEPT ![StreamOf(t, call[t].handle)] = @ + 1]
             /\ call' = [call EXCEPT ![t].ok = TRUE]
    <3>1. call'[t].ok /\ call'[t].handle = call[t].handle /\ pc'[t] = "after"
      BY <2>2 DEF TypeOK
    <3>2. s = StreamOf(t, call[t].handle) => Held(s)'
      BY <3>1 DEF Held
    <3>3. s # StreamOf(t, call[t].handle) => issued'[s] = issued[s]
      BY <2>2 DEF TypeOK
    <3>4. Held(s) => Held(s)'
      BY <2>2 DEF Held, TypeOK
    <3> QED  BY <3>2, <3>3, <3>4 DEF Settled
  <2> QED  BY <2>1, <2>2
<1>6. CoverInv'
  <2>1. \A i \in Slots, s \in Streams :
          SlotCovers(i, s) /\ issued'[s] = issued[s] => SlotCovers(i, s)'
    BY DEF SlotCovers, Latest
  <2> QED  BY <1>s, <2>1 DEF CoverInv, Slots
<1>7. SnapInv'
  <2>1. UNCHANGED <<snaps, at, slots, setup>>  OBVIOUS
  <2>2. \/ wpc' = wpc
        \/ wpc' \in {"check", "asleep", "stopped"}
        \/ wpc' \in {"frontier", "settle", "snapshot"} /\ setup.mode # "query"
    BY DEF SnapInv
  <2> QED  BY <2>1, <2>2, SnapKept
<1>8. WaitInv'  BY <1>s, WaitKept DEF Fresh
<1> QED  BY <1>1, <1>2, <1>3, <1>4, <1>5, <1>6, <1>7, <1>8

LEMMA AfterTrackedStep ==
  ASSUME IInv, OwnDefaults, NEW t \in Threads, AfterTracked(t)
  PROVE  IInv'
<1> USE Frame DEF IInv
<1> DEFINE h == call[t].handle
           s0 == StreamOf(t, h)
<1>0. /\ pc[t] = "after" /\ call[t].ok /\ h \in Handles
      /\ s0 \in Streams /\ s0[1] = h
  BY StreamOfType DEF AfterTracked, CallInv, SetupType
<1>1. PICK i \in SlotFor(h) :
        /\ slots' = [slots EXCEPT ![i] =
             [handle |-> h, active |-> TRUE, pending |-> Deferred(h), gen |-> @.gen + 1]]
        /\ events' = IF Deferred(h) THEN events
                     ELSE [events EXCEPT ![i] = RecordedNow(t, h)]
  BY DEF AfterTracked
<1>2. /\ pc' = [pc EXCEPT ![t] = "idle"] /\ call' = [call EXCEPT ![t] = NoCall]
      /\ inProgress' = inProgress - 1 /\ recordGen' = recordGen + 1
      /\ PublishIdle(slots', inProgress - 1)
      /\ wpc # "none" /\ (wpc' = wpc \/ (wpc = "asleep" /\ wpc' = "check"))
      /\ abandoned' = abandoned \ {s0}
      /\ UNCHANGED <<lock, calls, waitVars, issued, done, destroyed, processVars>>
  <2>1. FinishCall(t, slots') /\ recordGen' = recordGen + 1 /\ wpc # "none"
    BY DEF AfterTracked
  <2>2. (wpc' = wpc) \/ wpc' = (IF wpc = "asleep" THEN "check" ELSE wpc)
    BY DEF AfterTracked, Signal
  <2>3. wpc' = wpc \/ (wpc = "asleep" /\ wpc' = "check")
    <3>1. CASE wpc = "asleep"  BY <2>2, <3>1
    <3>2. CASE wpc # "asleep"  BY <2>2, <3>2
    <3> QED  BY <3>1, <3>2
  <2>4. /\ UNCHANGED <<lock, calls, waitVars, issued, done, destroyed, processVars>>
        /\ abandoned' = abandoned \ {s0}
    BY DEF AfterTracked
  <2> QED  BY <2>1, <2>3, <2>4 DEF FinishCall
<1>3. /\ i \in Slots
      /\ \/ slots[i].handle = h
         \/ slots[i].handle = NoHandle /\ \A j \in Slots : slots[j].handle # h
  BY <1>0, SlotForType
<1>4. /\ slots'[i].handle = h /\ slots'[i].active /\ slots'[i].pending = Deferred(h)
      /\ slots'[i].gen = slots[i].gen + 1
      /\ \A j \in Slots \ {i} : slots'[j] = slots[j] /\ events'[j] = events[j]
  BY <1>1, <1>3 DEF TypeOK
<1>5. ~Deferred(h) => Latest(events'[i], s0) /\ events'[i] \in EventRec
  BY <1>0, <1>1, <1>3, RecordedType DEF TypeOK
<1>6. inProgress \in Nat \ {0} /\ stateActive  BY <1>0, LaunchCounts
<1>7. \A s \in Streams : s # s0 /\ Settled(s) => Settled(s)'
  BY <1>2 DEF Settled, Held, TypeOK
<1>8. \A s \in Streams : s[1] = h /\ s # s0 => Settled(s) /\ Settled(s)'
  <2>1. SUFFICES ASSUME NEW s \in Streams, s[1] = h, s # s0
                 PROVE  Settled(s) /\ Settled(s)'
    OBVIOUS
  <2>2. issued[s] = 0  BY <2>1, <1>0, OnlyStream
  <2>3. done[s] = 0  BY <2>2 DEF StreamInv, TypeOK
  <2> QED  BY <2>2, <2>3, <1>2 DEF Settled
<1> HIDE DEF h, s0
<1>11. TypeOK'
  <2>1. slots' \in [Slots -> SlotRec]
    BY <1>0, <1>1, <1>3 DEF TypeOK, Deferred
  <2>2. events' \in [Slots -> EventRec \cup {NoEvent}]
    BY <1>1, <1>3, <1>5 DEF TypeOK
  <2>3. inProgress' \in Nat /\ recordGen' \in Nat  BY <1>2, <1>6 DEF TypeOK
  <2>4. published' \in {"idle", "active"} /\ stateActive' \in BOOLEAN
    BY <1>2 DEF PublishIdle, TypeOK
  <2> QED  BY <1>2, <2>1, <2>2, <2>3, <2>4
           DEF TypeOK, NoCall, waitVars, processVars
<1>12. CallInv'
  <2>1. Cardinality(Busy)' = Cardinality(Busy) - 1  BY <1>0, <1>2, CountDown
  <2>2. inProgress' = Cardinality(Busy)'  BY <1>2, <2>1 DEF CallInv, Busy
  <2>3. \A r \in Threads : pc'[r] = IF r = t THEN "idle" ELSE pc[r]
    BY <1>2 DEF TypeOK
  <2>4. \A r \in Threads \ {t} : call'[r] = call[r]  BY <1>2 DEF TypeOK
  <2> QED  BY <1>2, <2>2, <2>3, <2>4 DEF CallInv, Busy, processVars
<1>13. StateInv'
  <2>1. AnyActive(slots') /\ AnyActive(slots)'
    BY <1>3, <1>4 DEF AnyActive, Slots
  <2>2. UNCHANGED <<published, stateActive>>  BY <1>2, <2>1 DEF PublishIdle
  <2> QED  BY <1>2, <1>6, <2>1, <2>2 DEF StateInv, processVars
<1>14. StreamInv'
  BY <1>2 DEF StreamInv, processVars
<1>15. SlotInv'
  <2>1. setup' = setup /\ Slots' = Slots  BY <1>2 DEF processVars, Slots
  <2>2. \A j, k \in Slots : slots'[j].handle = slots'[k].handle
                            /\ slots'[j].handle # NoHandle => j = k
    BY <1>0, <1>3, <1>4 DEF SlotInv
  <2>3. \A j \in Slots : /\ slots'[j].active =>
                              /\ slots'[j].handle \in Handles
                              /\ slots'[j].pending <=> Deferred(slots'[j].handle)
                         /\ slots'[j].pending => slots'[j].active
    BY <1>0, <1>4 DEF SlotInv
  <2> QED  BY <2>1, <2>2, <2>3 DEF SlotInv, Deferred
<1>16. CoverInv'
  <2>1. SUFFICES ASSUME NEW s \in Streams
                 PROVE  Settled(s)' \/ \E j \in Slots : SlotCovers(j, s)'
    BY DEF CoverInv, Slots
  <2>2. CASE s = s0
    <3>1. SlotCovers(i, s)'
      BY <1>0, <1>4, <1>5, <1>2, <2>2 DEF SlotCovers, Latest
    <3> QED  BY <3>1, <1>3
  <2>3. CASE s # s0 /\ s[1] = h  BY <2>3, <1>8
  <2>4. CASE s[1] # h
    <3>1. \A j \in Slots : SlotCovers(j, s) => j # i
      BY <1>3, <2>4 DEF SlotCovers, SlotInv
    <3>2. \A j \in Slots : SlotCovers(j, s) => SlotCovers(j, s)'
      BY <1>2, <1>4, <3>1 DEF SlotCovers, Latest
    <3>3. s # s0  BY <1>0, <2>4
    <3> QED  BY <1>7, <3>2, <3>3 DEF CoverInv
  <2> QED  BY <2>2, <2>3, <2>4
<1>17. SnapInv'
  <2>1. wpc' \in {wpc, "check"} /\ UNCHANGED <<at, snaps, setup>>
    BY <1>2 DEF waitVars, processVars
  <2>2. snaps[i].taken => snaps[i].gen < slots'[i].gen
    BY <1>3, <1>4 DEF SnapInv, TypeOK
  <2>3. \A j \in Slots : Fresh(j)' => j # i /\ Fresh(j)
    BY <1>3, <1>4, <2>1, <2>2 DEF Fresh, TypeOK
  <2>8. \A j \in Slots : slots[j].handle \in Handles => slots'[j].handle = slots[j].handle
    BY Frame, <1>3, <1>4
  <2>4. \A j \in Slots : snaps[j].taken =>
          /\ slots'[j].handle \in Handles /\ snaps[j].gen <= slots'[j].gen
          /\ snaps[j].pending <=> Deferred(slots'[j].handle)
    BY <2>8, <1>3, <1>4, <2>2 DEF SnapInv, TypeOK
  <2>5. \A j \in Slots : Fresh(j)' => slots'[j].active
    BY <1>4, <2>3 DEF SnapInv
  <2>6. setup.mode = "query" =>
          /\ wpc' \in {"none", "check", "asleep", "stopped"}
          /\ \A j \in Slots : ~snaps[j].taken
    BY <2>1 DEF SnapInv
  <2>7. /\ wpc' = "each" => at >= 1
        /\ wpc' \in {"enter", "wait", "fallback"} => at \in Slots /\ snaps[at].taken
        /\ \A j \in Slots : snaps[j].ok => snaps[j].taken
    BY <2>1 DEF SnapInv
  <2> QED  BY <2>1, <2>4, <2>5, <2>6, <2>7 DEF SnapInv, Slots, Deferred
<1>18. WaitInv'
  <2>1. wpc' \in {wpc, "check"} /\ UNCHANGED <<at, snaps, awaited, issued>>
    BY <1>2 DEF waitVars
  <2>2. snaps[i].taken => snaps[i].gen < slots'[i].gen
    BY <1>3, <1>4 DEF SnapInv, TypeOK
  <2>3. \A j \in Slots : Fresh(j)' => j # i /\ Fresh(j)
    BY <1>3, <1>4, <2>1, <2>2 DEF Fresh, TypeOK
  <2>4. \A j \in Slots, s \in Streams :
          Fresh(j)' /\ slots[j].handle = s[1] /\ Settled(s) => Settled(s)'
    BY <2>3, <1>0, <1>3, <1>7, <1>8 DEF SnapInv, SlotInv
  <2> QED  BY <1>4, <2>1, <2>3, <2>4, WaitKept
<1> QED  BY <1>11, <1>12, <1>13, <1>14, <1>15, <1>16, <1>17, <1>18

LEMMA AfterFailedStep ==
  ASSUME IInv, OwnDefaults, NEW t \in Threads, AfterFailed(t)
  PROVE  IInv'
<1> USE Frame DEF IInv, AfterFailed, FinishCall, PublishIdle, appVars, slotVars,
              stateVars, waitVars, deviceVars, processVars
<1>1. TypeOK'
  <2>0. inProgress \in Nat \ {0} /\ stateActive  BY LaunchCounts

  <2>1. inProgress' \in Nat  BY <2>0
  <2> QED  BY <2>1 DEF TypeOK, NoCall
<1>2. CallInv'
  <2>1. Cardinality(Busy)' = Cardinality(Busy) - 1  BY CountDown
  <2>2. inProgress' = Cardinality(Busy)'  BY <2>1 DEF CallInv, Busy
  <2> QED  BY <2>2 DEF CallInv, Busy, TypeOK
<1>3. StateInv'
  <2>0. inProgress \in Nat \ {0} /\ stateActive  BY LaunchCounts

  <2> QED  BY <2>0 DEF StateInv, AnyActive
<1>4. StreamInv'  BY DEF StreamInv, TypeOK
<1>5. SlotInv'  BY DEF SlotInv, TypeOK, Deferred
<1>6. CoverInv'  BY DEF CoverInv, Settled, Held, SlotCovers, Latest, TypeOK
<1>7. SnapInv'
  <2>1. UNCHANGED <<snaps, at, slots, setup>>  OBVIOUS
  <2>2. \/ wpc' = wpc
        \/ wpc' \in {"check", "asleep", "stopped"}
        \/ wpc' \in {"frontier", "settle", "snapshot"} /\ setup.mode # "query"
    BY DEF SnapInv
  <2> QED  BY <2>1, <2>2, SnapKept
<1>8. WaitInv'
  <2>1. \A s \in Streams : Settled(s) => Settled(s)'
    BY DEF Settled, Held, TypeOK
  <2> QED  BY <2>1, WaitKept DEF Fresh
<1> QED  BY <1>1, <1>2, <1>3, <1>4, <1>5, <1>6, <1>7, <1>8

LEMMA AfterUntrackedStep ==
  ASSUME IInv, OwnDefaults, NEW t \in Threads, AfterUntracked(t)
  PROVE  IInv'
<1> USE Frame DEF IInv
<1> DEFINE h == call[t].handle
           s0 == StreamOf(t, h)
<1>0. /\ pc[t] = "after" /\ call[t].ok /\ h \in Handles
      /\ s0 \in Streams /\ s0[1] = h
  BY StreamOfType DEF AfterUntracked, CallInv, SetupType
<1>2. /\ pc' = [pc EXCEPT ![t] = "drain"] /\ pc[t] = "after" /\ call[t].ok
      /\ lock' = t
      /\ UNCHANGED <<call, calls, events, recordGen, stateVars, wpc, waitVars,
                     deviceVars, processVars>>
  BY DEF AfterUntracked
<1>3. \/ slots' = slots
      \/ \E i \in SlotFor(h) :
           slots' = slots \/ (~Deferred(h) /\ slots' = [slots EXCEPT ![i].handle = h])
  BY DEF AfterUntracked
<1>4. /\ slots' \in [Slots -> SlotRec]
      /\ \A j \in Slots : /\ slots'[j].active = slots[j].active
                          /\ slots'[j].pending = slots[j].pending
                          /\ slots'[j].gen = slots[j].gen
      /\ \A j \in Slots : \/ slots'[j].handle = slots[j].handle
                          \/ /\ slots[j].handle = NoHandle /\ slots'[j].handle = h
                             /\ \A k \in Slots \ {j} :
                                  /\ slots[k].handle # h
                                  /\ slots'[k].handle = slots[k].handle
  <2>1. CASE slots' = slots  BY <2>1 DEF TypeOK
  <2>2. CASE \E i \in SlotFor(h) : slots' = [slots EXCEPT ![i].handle = h]
    <3>1. PICK i \in SlotFor(h) : slots' = [slots EXCEPT ![i].handle = h]
      BY <2>2
    <3>2. i \in Slots /\ (\/ slots[i].handle = h
                          \/ /\ slots[i].handle = NoHandle
                             /\ \A j \in Slots : slots[j].handle # h)
      BY <1>0, SlotForType
    <3> HIDE DEF h
    <3> QED  BY <1>0, <3>1, <3>2 DEF TypeOK
  <2> QED  BY <1>3, <2>1, <2>2
<1> HIDE DEF h, s0
<1>11. TypeOK'
  <2>1. pc' \in [Threads -> {"idle", "launch", "after", "drain"}]
    BY <1>2 DEF TypeOK
  <2> QED
    BY <1>2, <1>4, <2>1 DEF TypeOK, stateVars, waitVars, deviceVars, processVars
<1>12. CallInv'
  <2>1. Busy' = Busy  BY <1>2, CountSame
  <2>2. \A r \in Threads : pc'[r] = IF r = t THEN "drain" ELSE pc[r]
    BY <1>2 DEF TypeOK
  <2>3. UNCHANGED <<call, setup, inProgress>>
    BY <1>2 DEF stateVars, processVars
  <2> QED  BY <1>2, <2>1, <2>2, <2>3 DEF CallInv, Busy
<1>13. StateInv'
  <2>1. AnyActive(slots)' = AnyActive(slots)  BY <1>4 DEF AnyActive, Slots
  <2> QED  BY <1>2, <2>1 DEF StateInv, stateVars, processVars
<1>14. StreamInv'
  BY <1>2 DEF StreamInv, deviceVars, processVars
<1>15. SlotInv'
  <2>1. setup' = setup /\ Slots' = Slots  BY <1>2 DEF processVars, Slots
  <2>2. \A i, j \in Slots : slots'[i].handle = slots'[j].handle
                            /\ slots'[i].handle # NoHandle => i = j
    BY <1>0, <1>4 DEF SlotInv
  <2>3. \A j \in Slots : slots[j].handle # NoHandle => slots'[j].handle = slots[j].handle
    BY <1>4
  <2>4. \A j \in Slots : /\ slots'[j].active =>
                              /\ slots'[j].handle \in Handles
                              /\ slots'[j].pending <=> Deferred(slots'[j].handle)
                         /\ slots'[j].pending => slots'[j].active
    BY Frame, <1>4, <2>3 DEF SlotInv
  <2> QED  BY <2>1, <2>2, <2>4 DEF SlotInv, Deferred
<1>16. CoverInv'
  <2>1. UNCHANGED <<issued, done, abandoned, events, call, snaps, at, awaited, wpc, setup>>
    BY <1>2 DEF deviceVars, waitVars, processVars
  <2>2. \A s \in Streams : Settled(s) => Settled(s)'
    BY <1>2, <2>1 DEF Settled, Held, TypeOK

  <2>3. \A j \in Slots, s \in Streams : SlotCovers(j, s) => SlotCovers(j, s)'
    BY <1>4, <2>1 DEF SlotCovers, Latest, SlotInv, Streams
  <2> QED  BY <2>2, <2>3 DEF CoverInv, Slots
<1>17. SnapInv'
  <2>1. UNCHANGED <<issued, done, abandoned, events, call, snaps, at, awaited, wpc, setup>>
    BY <1>2 DEF deviceVars, waitVars, processVars
  <2>2. \A s \in Streams : Settled(s) => Settled(s)'
    BY <1>2, <2>1 DEF Settled, Held, TypeOK

  <2>3. \A j \in Slots : slots[j].handle \in Handles => slots'[j].handle = slots[j].handle
    BY Frame, <1>4
  <2>4. \A j \in Slots : Fresh(j)' <=> Fresh(j)  BY <1>4, <2>1 DEF Fresh
  <2> QED  BY <1>4, <2>1, <2>3, <2>4 DEF SnapInv, Slots, Deferred
<1>18. WaitInv'
  <2>1. UNCHANGED <<issued, done, abandoned, events, call, snaps, at, awaited, wpc, setup>>
    BY <1>2 DEF deviceVars, waitVars, processVars
  <2>2. \A s \in Streams : Settled(s) => Settled(s)'
    BY <1>2, <2>1 DEF Settled, Held, TypeOK

  <2>4. \A j \in Slots : Fresh(j)' => Fresh(j)  BY <1>4, <2>1 DEF Fresh
  <2>5. \A j \in Slots : Fresh(j) => slots'[j].handle = slots[j].handle
    BY <1>4 DEF SnapInv, SlotInv
  <2> QED  BY <2>1, <2>2, <2>4, <2>5, WaitKept
<1> QED  BY <1>11, <1>12, <1>13, <1>14, <1>15, <1>16, <1>17, <1>18

LEMMA AfterDrainedStep ==
  ASSUME IInv, OwnDefaults, NEW t \in Threads, AfterDrained(t)
  PROVE  IInv'
<1> USE Frame DEF IInv, AfterDrained, FinishCall, PublishIdle, appVars,
              slotVars, stateVars, waitVars, deviceVars, processVars
<1>1. TypeOK'
  <2>0. inProgress \in Nat \ {0} /\ stateActive  BY LaunchCounts

  <2>1. inProgress' \in Nat  BY <2>0
  <2>2. abandoned' \in SUBSET Streams
    <3>1. StreamOf(t, call[t].handle) \in Streams
      BY StreamOfType DEF CallInv, SetupType
    <3> QED  BY <3>1 DEF TypeOK
  <2> QED  BY <2>1, <2>2 DEF TypeOK, NoCall
<1>2. CallInv'
  <2>1. Cardinality(Busy)' = Cardinality(Busy) - 1  BY CountDown
  <2>2. inProgress' = Cardinality(Busy)'  BY <2>1 DEF CallInv, Busy
  <2> QED  BY <2>2 DEF CallInv, Busy, TypeOK
<1>3. StateInv'
  <2>0. inProgress \in Nat \ {0} /\ stateActive  BY LaunchCounts

  <2> QED  BY <2>0 DEF StateInv, AnyActive
<1>4. StreamInv'  BY DEF StreamInv, TypeOK
<1>5. SlotInv'  BY DEF SlotInv, TypeOK, Deferred
<1>c. StreamOf(t, call[t].handle) \in Streams
  BY StreamOfType DEF CallInv, SetupType
<1>s. \A s \in Streams : Settled(s) => Settled(s)'
  <2>1. SUFFICES ASSUME NEW s \in Streams, Settled(s)  PROVE Settled(s)'
    OBVIOUS
  <2>2. CASE s = StreamOf(t, call[t].handle)
    BY <2>2 DEF Settled
  <2>3. CASE s # StreamOf(t, call[t].handle)
    <3>1. Held(s) => Held(s)'
      BY <2>3 DEF Held, TypeOK
    <3>2. s \in abandoned => s \in abandoned'
      BY <2>3
    <3> QED  BY <2>1, <3>1, <3>2 DEF Settled
  <2> QED  BY <2>2, <2>3
<1>6. CoverInv'
  <2>1. \A i \in Slots, s \in Streams : SlotCovers(i, s) => SlotCovers(i, s)'
    BY DEF SlotCovers, Latest
  <2> QED  BY <1>s, <2>1 DEF CoverInv, Slots
<1>7. SnapInv'
  <2>1. UNCHANGED <<snaps, at, slots, setup>>  OBVIOUS
  <2>2. \/ wpc' = wpc
        \/ wpc' \in {"check", "asleep", "stopped"}
        \/ wpc' \in {"frontier", "settle", "snapshot"} /\ setup.mode # "query"
    BY DEF SnapInv
  <2> QED  BY <2>1, <2>2, SnapKept
<1>8. WaitInv'
  <2>1. \A s \in Streams : issued'[s] = issued[s]
    OBVIOUS
  <2> QED  BY <1>s, <2>1, WaitKept DEF Fresh
<1> QED  BY <1>1, <1>2, <1>3, <1>4, <1>5, <1>6, <1>7, <1>8

---------------------------------------------------------------------------
(* The watcher's actions. *)

LEMMA WatcherCheckStep ==
  ASSUME IInv, OwnDefaults, WatcherCheck
  PROVE  IInv'
<1> USE Frame DEF IInv, WatcherCheck, WatcherGoto, appVars, slotVars, stateVars,
              waitVars, deviceVars, processVars
<1>1. TypeOK'  BY DEF TypeOK, Slots
<1>2. CallInv'  BY DEF CallInv, Busy, TypeOK
<1>3. StateInv'  BY DEF StateInv, AnyActive, TypeOK
<1>4. StreamInv'  BY DEF StreamInv, TypeOK
<1>5. SlotInv'  BY DEF SlotInv, TypeOK, Deferred
<1>6. CoverInv'  BY DEF CoverInv, Settled, Held, SlotCovers, Latest, TypeOK
<1>7. SnapInv'
  <2>1. UNCHANGED <<snaps, at, slots, setup>>  OBVIOUS
  <2>2. \/ wpc' = wpc
        \/ wpc' \in {"check", "asleep", "stopped"}
        \/ wpc' \in {"frontier", "settle", "snapshot"} /\ setup.mode # "query"
    BY DEF SnapInv
  <2> QED  BY <2>1, <2>2, SnapKept
<1>8. WaitInv'
  BY DEF WaitInv, Fresh, OfSlot, Settled, Held, Latest, TypeOK, SnapInv
<1> QED  BY <1>1, <1>2, <1>3, <1>4, <1>5, <1>6, <1>7, <1>8

LEMMA FrontierLoadStep ==
  ASSUME IInv, OwnDefaults, FrontierLoad
  PROVE  IInv'
<1> USE Frame DEF IInv, FrontierLoad, WatcherGoto, appVars, slotVars, stateVars,
              waitVars, deviceVars, processVars
<1>1. TypeOK'  BY DEF TypeOK, Slots
<1>2. CallInv'  BY DEF CallInv, Busy, TypeOK
<1>3. StateInv'  BY DEF StateInv, AnyActive, TypeOK
<1>4. StreamInv'  BY DEF StreamInv, TypeOK
<1>5. SlotInv'  BY DEF SlotInv, TypeOK, Deferred
<1>6. CoverInv'  BY DEF CoverInv, Settled, Held, SlotCovers, Latest, TypeOK
<1>7. SnapInv'
  <2>1. UNCHANGED <<snaps, at, slots, setup>>  OBVIOUS
  <2>2. \/ wpc' = wpc
        \/ wpc' \in {"check", "asleep", "stopped"}
        \/ wpc' \in {"frontier", "settle", "snapshot"} /\ setup.mode # "query"
    BY DEF SnapInv
  <2> QED  BY <2>1, <2>2, SnapKept
<1>8. WaitInv'
  BY DEF WaitInv, Fresh, OfSlot, Settled, Held, Latest, TypeOK, SnapInv
<1> QED  BY <1>1, <1>2, <1>3, <1>4, <1>5, <1>6, <1>7, <1>8

LEMMA FrontierSettleStep ==
  ASSUME IInv, OwnDefaults, FrontierSettle
  PROVE  IInv'
<1> USE Frame DEF IInv, FrontierSettle, WatcherGoto, appVars, slotVars,
              stateVars, waitVars, deviceVars, processVars
<1>1. TypeOK'  BY DEF TypeOK, Slots
<1>2. CallInv'  BY DEF CallInv, Busy, TypeOK
<1>3. StateInv'  BY DEF StateInv, AnyActive, TypeOK
<1>4. StreamInv'  BY DEF StreamInv, TypeOK
<1>5. SlotInv'  BY DEF SlotInv, TypeOK, Deferred
<1>6. CoverInv'  BY DEF CoverInv, Settled, Held, SlotCovers, Latest, TypeOK
<1>7. SnapInv'
  <2>1. UNCHANGED <<snaps, at, slots, setup>>  OBVIOUS
  <2>2. \/ wpc' = wpc
        \/ wpc' \in {"check", "asleep", "stopped"}
        \/ wpc' \in {"frontier", "settle", "snapshot"} /\ setup.mode # "query"
    BY DEF SnapInv
  <2> QED  BY <2>1, <2>2, SnapKept
<1>8. WaitInv'
  BY DEF WaitInv, Fresh, OfSlot, Settled, Held, Latest, TypeOK, SnapInv
<1> QED  BY <1>1, <1>2, <1>3, <1>4, <1>5, <1>6, <1>7, <1>8

LEMMA TakeSnapshotsStep ==
  ASSUME IInv, OwnDefaults, TakeSnapshots
  PROVE  IInv'
<1> USE Frame DEF IInv, TakeSnapshots, WatcherGoto, appVars, slotVars,
              stateVars, waitVars, deviceVars, processVars
<1>1. TypeOK'
  <2>1. CASE UNCHANGED <<snaps, at>> /\ wpc' \in {"stopped", "check"}
    BY <2>1 DEF TypeOK, Slots
  <2>2. CASE at' = 1 /\ wpc' = "each" /\ snaps' = [i \in Slots |->
               IF slots[i].active
               THEN [taken |-> TRUE, gen |-> slots[i].gen,
                     pending |-> slots[i].pending, ok |-> FALSE]
               ELSE NoSnap]
    <3>1. snaps' \in [Slots -> SnapRec]
      BY <2>2, Snapshots
    <3>2. at' \in 0 .. NSlots + 1  BY <2>2
    <3> QED  BY <2>2, <3>1, <3>2 DEF TypeOK, Slots
  <2> QED  BY <2>1, <2>2
<1>2. CallInv'  BY DEF CallInv, Busy, TypeOK
<1>3. StateInv'  BY DEF StateInv, AnyActive, TypeOK
<1>4. StreamInv'  BY DEF StreamInv, TypeOK
<1>5. SlotInv'  BY DEF SlotInv, TypeOK, Deferred
<1>6. CoverInv'  BY DEF CoverInv, Settled, Held, SlotCovers, Latest, TypeOK
<1>7. SnapInv'
  <2>0. setup.mode # "query" /\ setup' = setup  BY DEF SnapInv
  <2>1. CASE UNCHANGED <<snaps, at>> /\ wpc' \in {"stopped", "check"}
    BY <2>0, <2>1 DEF SnapInv, Fresh, Slots, Deferred
  <2>2. CASE at' = 1 /\ wpc' = "each" /\ snaps' = [i \in Slots |->
               IF slots[i].active
               THEN [taken |-> TRUE, gen |-> slots[i].gen,
                     pending |-> slots[i].pending, ok |-> FALSE]
               ELSE NoSnap]
    <3>1. \A i \in Slots :
              /\ ~snaps'[i].ok
              /\ snaps'[i].taken => /\ slots[i].active
                                    /\ snaps'[i].gen = slots[i].gen
                                    /\ snaps'[i].pending = slots[i].pending
      BY <2>2, Snapshots
    <3>2. \A i \in Slots : snaps'[i].taken =>
            /\ slots[i].handle \in Handles /\ slots[i].gen \in Nat
            /\ snaps'[i].pending <=> Deferred(slots[i].handle)
      BY <3>1 DEF SlotInv, TypeOK
    <3>3. \A i \in Slots : snaps'[i].taken => snaps'[i].gen <= slots[i].gen
      BY <3>1, <3>2
    <3> QED  BY <2>0, <2>2, <3>1, <3>2, <3>3 DEF SnapInv, Fresh, Slots, Deferred
  <2> QED  BY <2>1, <2>2
<1>8. WaitInv'
  <2>1. CASE UNCHANGED <<snaps, at>> /\ wpc' \in {"stopped", "check"}
    BY <2>1, WatcherKeeps DEF WaitInv, Fresh
  <2>2. CASE at' = 1 /\ wpc' = "each" /\ snaps' = [i \in Slots |->
               IF slots[i].active
               THEN [taken |-> TRUE, gen |-> slots[i].gen,
                     pending |-> slots[i].pending, ok |-> FALSE]
               ELSE NoSnap]
    <3>1. \A i \in Slots : ~snaps'[i].ok  BY <2>2, Snapshots
    <3> QED  BY <2>2, <3>1 DEF WaitInv, Slots
  <2> QED  BY <2>1, <2>2
<1> QED  BY <1>1, <1>2, <1>3, <1>4, <1>5, <1>6, <1>7, <1>8

LEMMA NextSnapshotStep ==
  ASSUME IInv, OwnDefaults, NextSnapshot
  PROVE  IInv'
<1> USE Frame DEF IInv, NextSnapshot, appVars, slotVars, stateVars, waitVars,
              deviceVars, processVars
<1>1. TypeOK'
  <2>1. at' \in 0 .. NSlots + 1  BY DEF TypeOK
  <2> QED  BY <2>1 DEF TypeOK, Slots
<1>2. CallInv'  BY DEF CallInv, Busy, TypeOK
<1>3. StateInv'  BY DEF StateInv, AnyActive, TypeOK
<1>4. StreamInv'  BY DEF StreamInv, TypeOK
<1>5. SlotInv'  BY DEF SlotInv, TypeOK, Deferred
<1>6. CoverInv'  BY DEF CoverInv, Settled, Held, SlotCovers, Latest, TypeOK
<1>7. SnapInv'
  <2>1. at + 1 >= 1  BY DEF TypeOK
  <2>2. setup.mode # "query"  BY DEF SnapInv
  <2>3. \A i \in Slots : Fresh(i)' <=> Fresh(i)  BY DEF Fresh
  <2>4. wpc' = "each" /\ at' = at + 1 /\ UNCHANGED <<snaps, slots, setup>>  OBVIOUS
  <2> HIDE DEF NextSnapshot
  <2> QED  BY <2>1, <2>2, <2>3, <2>4 DEF SnapInv, Deferred, Slots
<1>8. WaitInv'
  BY DEF WaitInv, Fresh, OfSlot, Settled, Held, Latest, TypeOK, SnapInv
<1> QED  BY <1>1, <1>2, <1>3, <1>4, <1>5, <1>6, <1>7, <1>8

LEMMA RecordSnapshotStep ==
  ASSUME IInv, OwnDefaults, RecordSnapshot
  PROVE  IInv'
<1> USE Frame DEF IInv
<1> DEFINE h == slots[at].handle
           s0 == StreamOf(Watcher, h)
<1>1. Waiting  BY DEF RecordSnapshot, Waiting
<1>2. /\ at \in Slots /\ snaps[at].taken /\ at + 1 \in 0 .. NSlots + 1
      /\ h \in Handles
      /\ snaps[at].pending <=> Deferred(h)
  BY <1>1, WaitingFacts
<1>3. /\ UNCHANGED <<lock, appVars, slots, recordGen, stateVars, observed, snaps, at,
                     deviceVars, processVars>>
      /\ snaps[at].pending
  BY DEF RecordSnapshot
<1>4. \/ /\ wpc' = "enter" /\ awaited' = awaited
         /\ events' = [events EXCEPT ![at] = Fallback]
      \/ wpc' = "fallback" /\ awaited' = Fallback /\ events' = events
  BY DEF RecordSnapshot, WatcherGoto, Fallback
<1>5. Fallback \in EventRec /\ Latest(Fallback, s0)
  BY <1>1, FallbackFacts
<1>6. \A s \in Streams : OfSlot(at, s) => s = s0 \/ Settled(s)
  BY <1>2, <1>3, SharedStream DEF OfSlot, Deferred
<1>7. UNCHANGED <<slots, pc, call, issued, done, abandoned, setup, exited, snaps, at>>
  BY <1>3 DEF appVars, deviceVars, processVars
<1>8. /\ \A i \in Slots \ {at} : events'[i] = events[i]
      /\ wpc' = "enter" => events'[at] = Fallback
      /\ wpc' = "enter" \/ events'[at] = events[at]
  BY <1>2, <1>4 DEF TypeOK
<1> HIDE DEF h, s0
<1>11. TypeOK'
  <2>1. events' \in [Slots -> EventRec \cup {NoEvent}]
    BY <1>2, <1>4, <1>5 DEF TypeOK
  <2>2. awaited' \in EventRec \cup {NoEvent}
    BY <1>4, <1>5 DEF TypeOK
  <2> QED  BY <1>3, <1>4, <2>1, <2>2
           DEF TypeOK, appVars, stateVars, deviceVars, processVars, Slots
<1>12. CallInv'
  BY <1>3 DEF CallInv, Busy, appVars, stateVars, processVars
<1>13. StateInv'
  BY <1>3 DEF StateInv, AnyActive, Slots, stateVars, processVars
<1>14. StreamInv'
  BY <1>3 DEF StreamInv, deviceVars, processVars
<1>15. SlotInv'
  BY <1>3 DEF SlotInv, Deferred, Slots, processVars
<1>16. CoverInv'
  <2>1. SUFFICES ASSUME NEW s \in Streams
                 PROVE  Settled(s)' \/ \E i \in Slots : SlotCovers(i, s)'
    BY DEF CoverInv, Slots
  <2>2. \A i \in Slots \ {at} : SlotCovers(i, s) => SlotCovers(i, s)'
    BY <1>7, <1>8 DEF SlotCovers, Latest
  <2>3. SlotCovers(at, s) => Settled(s) \/ SlotCovers(at, s)'
    <3>1. SUFFICES ASSUME SlotCovers(at, s), s = s0  PROVE SlotCovers(at, s)'
      BY <1>6 DEF SlotCovers, OfSlot
    <3>2. Latest(Fallback, s)' /\ Latest(events[at], s)' = Latest(events'[at], s)
      BY <1>5, <1>7, <3>1 DEF Latest, Fallback, RecordedNow, SnapHandle
    <3> QED  BY <1>5, <1>7, <1>8, <3>1 DEF SlotCovers, Latest
  <2> QED  BY <1>7, <2>2, <2>3, WatcherKeeps DEF CoverInv
<1>17. SnapInv'
  <2>1. setup.mode # "query"  BY <1>2 DEF SnapInv
  <2>2. wpc' \in {"enter", "fallback"}  BY <1>4
  <2>3. \A i \in Slots : Fresh(i)' <=> Fresh(i)  BY <1>7 DEF Fresh
  <2> QED  BY <1>2, <1>7, <2>1, <2>2, <2>3 DEF SnapInv, Slots, Deferred
<1>18. WaitInv'
  <2>1. \A i \in Slots : Fresh(i)' <=> Fresh(i)  BY <1>7 DEF Fresh
  <2>3. wpc' = "enter" =>
          \A s \in Streams : OfSlot(at, s) => Settled(s) \/ Latest(events'[at], s)
    BY <1>5, <1>6, <1>8
  <2>4. wpc' = "fallback" =>
          \A s \in Streams : OfSlot(at, s) => Settled(s) \/ Latest(awaited', s)
    BY <1>4, <1>5, <1>6
  <2>5. wpc' \in {"enter", "fallback"}  BY <1>4
  <2>6. \A s \in Streams : Latest(events[at], s)' = Latest(events'[at], s)
    BY <1>7 DEF Latest
  <2>7. \A s \in Streams : Latest(awaited, s)' = Latest(awaited', s)
    BY <1>7 DEF Latest
  <2>8. \A i \in Slots : (Fresh(i) /\ snaps[i].ok)' =>
          \A s \in Streams : OfSlot(i, s)' => Settled(s)'
    BY <1>7, <2>1, WatcherKeeps DEF WaitInv
  <2>9. \A s \in Streams : /\ Settled(s)' <=> Settled(s)
                           /\ OfSlot(at, s)' <=> OfSlot(at, s)
    BY <1>2, <1>7, WatcherKeeps
  <2> QED  BY <2>3, <2>4, <2>5, <2>6, <2>7, <2>8, <2>9 DEF WaitInv, Slots
<1> QED  BY <1>11, <1>12, <1>13, <1>14, <1>15, <1>16, <1>17, <1>18

LEMMA EnterWaitStep ==
  ASSUME IInv, OwnDefaults, EnterWait
  PROVE  IInv'
<1> USE Frame DEF IInv, EnterWait, WatcherGoto, appVars, slotVars, stateVars,
              waitVars, deviceVars, processVars
<1>1. TypeOK'
  <2>1. at \in Slots  BY WaitingFacts DEF Waiting
  <2>2. awaited' \in EventRec \cup {NoEvent}
    BY <2>1 DEF TypeOK
  <2> QED  BY <2>2 DEF TypeOK, Slots
<1>2. CallInv'  BY DEF CallInv, Busy, TypeOK
<1>3. StateInv'  BY DEF StateInv, AnyActive, TypeOK
<1>4. StreamInv'  BY DEF StreamInv, TypeOK
<1>5. SlotInv'  BY DEF SlotInv, TypeOK, Deferred
<1>6. CoverInv'  BY DEF CoverInv, Settled, Held, SlotCovers, Latest, TypeOK
<1>7. SnapInv'
  BY SnapMove DEF Waiting
<1>8. WaitInv'
  <2>1. at \in Slots /\ (snaps[at].pending <=> Deferred(slots[at].handle))
    BY WaitingFacts DEF Waiting
  <2>2. ASSUME Fresh(at), NEW s \in Streams, OfSlot(at, s)
        PROVE  Settled(s) \/ Latest(events[at], s)
    <3>1. CASE wpc = "enter"  BY <2>2, <3>1 DEF WaitInv
    <3>2. CASE ~snaps[at].pending
      <4>1. ~slots[at].pending  BY <2>1, <2>2, <3>2 DEF SnapInv, SlotInv
      <4> QED  BY <2>1, <2>2, <4>1, OwnCover DEF SlotCovers
    <3> QED  BY <3>1, <3>2
  <2>3. \A i \in Slots : Fresh(i)' <=> Fresh(i)  BY DEF Fresh
  <2>4. \A s \in Streams : Latest(awaited, s)' <=> Latest(events[at], s)
    BY DEF Latest
  <2>5. wpc' = "wait" /\ at' = at /\ snaps' = snaps
        /\ UNCHANGED <<slots, pc, call, issued, done, abandoned>>
    OBVIOUS
  <2>6. \A s \in Streams :
           /\ Settled(s)' <=> Settled(s)
           /\ \A i \in Slots : OfSlot(i, s)' <=> OfSlot(i, s)
    BY <2>5, WatcherKeeps
  <2>7. \A i \in Slots : (Fresh(i) /\ snaps[i].ok)' =>
          \A s \in Streams : OfSlot(i, s)' => Settled(s)'
    BY <2>3, <2>5, <2>6 DEF WaitInv
  <2> HIDE DEF EnterWait
  <2>8. Fresh(at)' <=> Fresh(at)  BY <2>1, <2>3, <2>5 DEF Fresh
  <2> QED  BY <2>1, <2>2, <2>8, <2>4, <2>5, <2>6, <2>7 DEF WaitInv, Slots
<1> QED  BY <1>1, <1>2, <1>3, <1>4, <1>5, <1>6, <1>7, <1>8

LEMMA WaitDoneStep ==
  ASSUME IInv, OwnDefaults, WaitDone
  PROVE  IInv'
<1> USE Frame DEF IInv, WaitDone, SnapshotDone, WatcherGoto, appVars, slotVars,
              stateVars, waitVars, deviceVars, processVars
<1>1. TypeOK'
  <2>1. at \in Slots  BY WaitingFacts DEF Waiting
  <2> HIDE DEF SnapshotDone, WatcherGoto
  <2>2. SnapshotDone(TRUE)  OBVIOUS
  <2> QED  BY <2>1, <2>2, SnapsType DEF TypeOK, Slots
<1>2. CallInv'  BY DEF CallInv, Busy, TypeOK
<1>3. StateInv'  BY DEF StateInv, AnyActive, TypeOK
<1>4. StreamInv'  BY DEF StreamInv, TypeOK
<1>5. SlotInv'  BY DEF SlotInv, TypeOK, Deferred
<1>6. CoverInv'  BY DEF CoverInv, Settled, Held, SlotCovers, Latest, TypeOK
<1>7. SnapInv'
  <2>1. Waiting /\ at \in Slots  BY WaitingFacts DEF Waiting
  <2> HIDE DEF SnapshotDone, WatcherGoto
  <2>2. SnapshotDone(TRUE) /\ UNCHANGED <<slots, setup>>  OBVIOUS
  <2> QED  BY <2>1, <2>2, SnapsType, SnapMove
<1>8. WaitInv'
  <2> HIDE DEF SnapshotDone, WatcherGoto, IInv
  <2>1. SnapshotDone(TRUE)  OBVIOUS
  <2> QED  BY <2>1, FinishedWait
<1> QED  BY <1>1, <1>2, <1>3, <1>4, <1>5, <1>6, <1>7, <1>8

LEMMA WaitFailsStep ==
  ASSUME IInv, OwnDefaults, WaitFails
  PROVE  IInv'
<1> USE Frame DEF IInv, WaitFails, WatcherGoto, appVars, slotVars, stateVars,
              waitVars, deviceVars, processVars
<1>1. TypeOK'
  <2>1. Fallback \in EventRec  BY FallbackFacts DEF Waiting
  <2> HIDE DEF Fallback
  <2> QED  BY <2>1 DEF TypeOK, Slots
<1>2. CallInv'  BY DEF CallInv, Busy, TypeOK
<1>3. StateInv'  BY DEF StateInv, AnyActive, TypeOK
<1>4. StreamInv'  BY DEF StreamInv, TypeOK
<1>5. SlotInv'  BY DEF SlotInv, TypeOK, Deferred
<1>6. CoverInv'  BY DEF CoverInv, Settled, Held, SlotCovers, Latest, TypeOK
<1>7. SnapInv'
  BY SnapMove DEF Waiting
<1>8. WaitInv'
  <2>1. at \in Slots  BY WaitingFacts DEF Waiting
  <2>2. Latest(Fallback, StreamOf(Watcher, slots[at].handle))
    BY FallbackFacts DEF Waiting
  <2>3. ASSUME NEW s \in Streams, OfSlot(at, s)
        PROVE  Settled(s) \/ s = StreamOf(Watcher, slots[at].handle)
    <3>1. CASE s[1] \notin PerThreadHandles
      BY <2>3, <3>1, SharedStream DEF OfSlot
    <3>2. CASE s[1] \in PerThreadHandles
      <4>1. \A p \in setup.uses : p[2] \notin PerThreadHandles
        BY DEF CallInv, OwnDefaults
      <4>2. \A t \in Threads : <<t, s[1]>> \notin setup.uses  BY <3>2, <4>1
      <4> QED  BY <4>2, UnusedStream
    <3> QED  BY <3>1, <3>2
  <2>4. wpc' = "fallback" /\ at' = at /\ snaps' = snaps /\ awaited' = Fallback
        /\ UNCHANGED <<slots, pc, call, issued, done, abandoned>>
    OBVIOUS
  <2> HIDE DEF WaitFails
  <2>5. \A i \in Slots : Fresh(i)' <=> Fresh(i)  BY <2>4 DEF Fresh
  <2>6. \A s \in Streams : Latest(awaited, s)' <=> Latest(Fallback, s)
    BY <2>4 DEF Latest
  <2>7. \A s \in Streams :
           /\ Settled(s)' <=> Settled(s)
           /\ \A i \in Slots : OfSlot(i, s)' <=> OfSlot(i, s)
    BY <2>4, WatcherKeeps
  <2>8. \A i \in Slots : (Fresh(i) /\ snaps[i].ok)' =>
          \A s \in Streams : OfSlot(i, s)' => Settled(s)'
    BY <2>4, <2>5, <2>7 DEF WaitInv
  <2> QED  BY <2>1, <2>2, <2>3, <2>4, <2>6, <2>7, <2>8 DEF WaitInv, Slots
<1> QED  BY <1>1, <1>2, <1>3, <1>4, <1>5, <1>6, <1>7, <1>8

LEMMA FallbackDoneStep ==
  ASSUME IInv, OwnDefaults, FallbackDone
  PROVE  IInv'
<1> USE Frame DEF IInv, FallbackDone, SnapshotDone, WatcherGoto, appVars,
              slotVars, stateVars, waitVars, deviceVars, processVars
<1>1. TypeOK'
  <2>1. at \in Slots  BY WaitingFacts DEF Waiting
  <2> HIDE DEF SnapshotDone, WatcherGoto
  <2>2. SnapshotDone(TRUE)  OBVIOUS
  <2> QED  BY <2>1, <2>2, SnapsType DEF TypeOK, Slots
<1>2. CallInv'  BY DEF CallInv, Busy, TypeOK
<1>3. StateInv'  BY DEF StateInv, AnyActive, TypeOK
<1>4. StreamInv'  BY DEF StreamInv, TypeOK
<1>5. SlotInv'  BY DEF SlotInv, TypeOK, Deferred
<1>6. CoverInv'  BY DEF CoverInv, Settled, Held, SlotCovers, Latest, TypeOK
<1>7. SnapInv'
  <2>1. Waiting /\ at \in Slots  BY WaitingFacts DEF Waiting
  <2> HIDE DEF SnapshotDone, WatcherGoto
  <2>2. SnapshotDone(TRUE) /\ UNCHANGED <<slots, setup>>  OBVIOUS
  <2> QED  BY <2>1, <2>2, SnapsType, SnapMove
<1>8. WaitInv'
  <2> HIDE DEF SnapshotDone, WatcherGoto, IInv
  <2>1. SnapshotDone(TRUE)  OBVIOUS
  <2> QED  BY <2>1, FinishedWait
<1> QED  BY <1>1, <1>2, <1>3, <1>4, <1>5, <1>6, <1>7, <1>8

LEMMA FallbackFailsStep ==
  ASSUME IInv, OwnDefaults, FallbackFails
  PROVE  IInv'
<1> USE Frame DEF IInv, FallbackFails, SnapshotDone, WatcherGoto, appVars,
              slotVars, stateVars, waitVars, deviceVars, processVars
<1>1. TypeOK'
  <2>1. at \in Slots  BY WaitingFacts DEF Waiting
  <2> HIDE DEF SnapshotDone, WatcherGoto
  <2>2. SnapshotDone(FALSE)  OBVIOUS
  <2> QED  BY <2>1, <2>2, SnapsType DEF TypeOK, Slots
<1>2. CallInv'  BY DEF CallInv, Busy, TypeOK
<1>3. StateInv'  BY DEF StateInv, AnyActive, TypeOK
<1>4. StreamInv'  BY DEF StreamInv, TypeOK
<1>5. SlotInv'  BY DEF SlotInv, TypeOK, Deferred
<1>6. CoverInv'  BY DEF CoverInv, Settled, Held, SlotCovers, Latest, TypeOK
<1>7. SnapInv'
  <2>1. Waiting /\ at \in Slots  BY WaitingFacts DEF Waiting
  <2> HIDE DEF SnapshotDone, WatcherGoto
  <2>2. SnapshotDone(FALSE) /\ UNCHANGED <<slots, setup>>  OBVIOUS
  <2> QED  BY <2>1, <2>2, SnapsType, SnapMove
<1>8. WaitInv'
  <2> HIDE DEF SnapshotDone, WatcherGoto, IInv
  <2>1. SnapshotDone(FALSE)  OBVIOUS
  <2> QED  BY <2>1, FinishedWait
<1> QED  BY <1>1, <1>2, <1>3, <1>4, <1>5, <1>6, <1>7, <1>8

LEMMA CommitStep ==
  ASSUME IInv, OwnDefaults, Commit
  PROVE  IInv'
<1> USE Frame DEF IInv
<1> DEFINE S == {i \in Slots : Validated(i)}
<1>1. /\ snaps' = [i \in Slots |-> NoSnap] /\ at' = 0 /\ wpc' = "check"
      /\ PublishIdle(slots', inProgress)
      /\ UNCHANGED <<lock, appVars, events, recordGen, inProgress, observed, awaited,
                     deviceVars, processVars>>
  BY DEF Commit, WatcherGoto
<1>2. slots' = [i \in Slots |-> IF i \in S
                 THEN [slots[i] EXCEPT !.active = FALSE, !.pending = FALSE] ELSE slots[i]]
  BY DEF Commit
<1>3. S \in SUBSET Slots  OBVIOUS
<1>4. \A i \in S, s \in Streams : OfSlot(i, s) => Settled(s)
  BY DEF Validated, Fresh, SnapInv, WaitInv
<1> HIDE DEF S
<1>5. /\ slots' \in [Slots -> SlotRec]
      /\ \A i \in Slots :
           /\ slots'[i].handle = slots[i].handle /\ slots'[i].gen = slots[i].gen
           /\ slots'[i].active <=> slots[i].active /\ i \notin S
           /\ slots'[i].pending => slots[i].pending
           /\ i \notin S => slots'[i] = slots[i]
  BY <1>2, <1>3, Freed
<1>6. \A i \in Slots : ~snaps'[i].taken /\ ~snaps'[i].ok  BY <1>1 DEF NoSnap
<1>7. UNCHANGED <<pc, call, calls, lock, events, recordGen, inProgress, observed,
                  awaited, issued, done, abandoned, destroyed, setup, stop, exited>>
  BY <1>1 DEF appVars, deviceVars, processVars
<1>8. /\ StateInv'
      /\ stateActive' \in BOOLEAN /\ published' \in {"idle", "active"}
  BY <1>1, <1>5, <1>7, FreedStates
<1>9. \A s \in Streams : Settled(s)' <=> Settled(s)  BY <1>7 DEF Settled, Held
<1>11. TypeOK'
  <2>1. snaps' \in [Slots -> SnapRec]
    BY <1>1 DEF NoSnap
  <2>2. at' \in 0 .. NSlots + 1 /\ wpc' = "check"  BY <1>1
  <2> QED  BY <1>5, <1>7, <1>8, <2>1, <2>2 DEF TypeOK, Slots
<1>12. CallInv'
  BY <1>7 DEF CallInv, Busy
<1>13. StateInv'
  BY <1>8
<1>14. StreamInv'
  BY <1>7 DEF StreamInv
<1>15. SlotInv'
  <2>1. setup' = setup /\ Slots' = Slots  BY <1>7 DEF Slots
  <2>2. \A i, j \in Slots : slots'[i].handle = slots'[j].handle
                            /\ slots'[i].handle # NoHandle => i = j
    BY <1>5 DEF SlotInv
  <2>3. \A i \in Slots : slots'[i].active =>
          /\ slots'[i].handle \in Handles
          /\ slots'[i].pending <=> Deferred(slots'[i].handle)
    BY <1>5 DEF SlotInv
  <2>4. \A i \in Slots : slots'[i].pending => slots'[i].active
    <3>1. \A i \in S : ~slots'[i].pending  BY <1>2, <1>3 DEF TypeOK
    <3> QED  BY <1>5, <3>1 DEF SlotInv
  <2> QED  BY <2>1, <2>2, <2>3, <2>4 DEF SlotInv, Deferred
<1>16. CoverInv'
  <2>1. \A i \in Slots, s \in Streams :
          SlotCovers(i, s) => SlotCovers(i, s)' \/ Settled(s)
    <3>1. SUFFICES ASSUME NEW i \in Slots, NEW s \in Streams, SlotCovers(i, s)
                   PROVE  SlotCovers(i, s)' \/ Settled(s)
      OBVIOUS
    <3>2. CASE i \in S  BY <3>1, <3>2, <1>4 DEF SlotCovers, OfSlot
    <3>3. CASE i \notin S  BY <3>1, <3>3, <1>5, <1>7 DEF SlotCovers, Latest
    <3> QED  BY <3>2, <3>3
  <2> QED  BY <2>1, <1>9 DEF CoverInv, Slots
<1>17. SnapInv'
  <2>1. wpc' = "check"  BY <1>1
  <2> QED  BY <1>6, <1>7, <2>1 DEF SnapInv, Fresh, Slots
<1>18. WaitInv'
  <2>1. wpc' = "check"  BY <1>1
  <2> QED  BY <1>6, <2>1 DEF WaitInv, Fresh, Slots
<1> QED  BY <1>11, <1>12, <1>13, <1>14, <1>15, <1>16, <1>17, <1>18

LEMMA StopStep ==
  ASSUME IInv, OwnDefaults, Stop
  PROVE  IInv'
<1> USE Frame DEF IInv, Stop, Signal, appVars, slotVars, stateVars, waitVars,
              deviceVars, processVars
<1>1. TypeOK'  BY DEF TypeOK, Slots
<1>2. CallInv'  BY DEF CallInv, Busy, TypeOK
<1>3. StateInv'  BY DEF StateInv, AnyActive, TypeOK
<1>4. StreamInv'  BY DEF StreamInv, TypeOK
<1>5. SlotInv'  BY DEF SlotInv, TypeOK, Deferred
<1>6. CoverInv'  BY DEF CoverInv, Settled, Held, SlotCovers, Latest, TypeOK
<1>7. SnapInv'
  <2>1. UNCHANGED <<snaps, at, slots, setup>>  OBVIOUS
  <2>2. \/ wpc' = wpc
        \/ wpc' \in {"check", "asleep", "stopped"}
        \/ wpc' \in {"frontier", "settle", "snapshot"} /\ setup.mode # "query"
    BY DEF SnapInv
  <2> QED  BY <2>1, <2>2, SnapKept
<1>8. WaitInv'
  BY DEF WaitInv, Fresh, OfSlot, Settled, Held, Latest, TypeOK, SnapInv
<1> QED  BY <1>1, <1>2, <1>3, <1>4, <1>5, <1>6, <1>7, <1>8

LEMMA UnregisterStep ==
  ASSUME IInv, OwnDefaults, Unregister
  PROVE  IInv'
<1> USE Frame DEF IInv, Unregister, appVars, slotVars, stateVars, waitVars,
              deviceVars, processVars
<1>1. TypeOK'  BY DEF TypeOK, Slots
<1>2. CallInv'  BY DEF CallInv, Busy, TypeOK
<1>3. StateInv'  BY DEF StateInv, AnyActive, TypeOK
<1>4. StreamInv'  BY DEF StreamInv, TypeOK
<1>5. SlotInv'  BY DEF SlotInv, TypeOK, Deferred
<1>6. CoverInv'  BY DEF CoverInv, Settled, Held, SlotCovers, Latest, TypeOK
<1>7. SnapInv'
  <2>1. UNCHANGED <<snaps, at, slots, setup>>  OBVIOUS
  <2>2. \/ wpc' = wpc
        \/ wpc' \in {"check", "asleep", "stopped"}
        \/ wpc' \in {"frontier", "settle", "snapshot"} /\ setup.mode # "query"
    BY DEF SnapInv
  <2> QED  BY <2>1, <2>2, SnapKept
<1>8. WaitInv'
  BY DEF WaitInv, Fresh, OfSlot, Settled, Held, Latest, TypeOK, SnapInv
<1> QED  BY <1>1, <1>2, <1>3, <1>4, <1>5, <1>6, <1>7, <1>8

LEMMA QueryPassStep ==
  ASSUME IInv, OwnDefaults, NEW failed \in SUBSET Slots, QueryPass(failed)
  PROVE  IInv'
<1> USE Frame DEF IInv
<1> DEFINE S == {i \in Slots : slots[i].active /\ Complete(events[i]) /\ i \notin failed}
<1>1. /\ setup.mode = "query"
      /\ PublishIdle(slots', inProgress)
      /\ UNCHANGED <<lock, appVars, events, recordGen, inProgress, wpc, waitVars,
                     deviceVars, processVars>>
  BY DEF QueryPass
<1>2. slots' = [i \in Slots |-> IF i \in S
                 THEN [slots[i] EXCEPT !.active = FALSE] ELSE slots[i]]
  BY DEF QueryPass
<1>3. S \in SUBSET Slots  OBVIOUS
<1>10. \A i \in Slots : ~slots[i].pending  BY <1>1 DEF SlotInv, Deferred
<1>4. \A i \in S, s \in Streams : OfSlot(i, s) => Settled(s)
  BY <1>10, OwnCover, CaughtUp DEF SlotCovers
<1> HIDE DEF S
<1>5. /\ slots' \in [Slots -> SlotRec]
      /\ \A i \in Slots :
           /\ slots'[i].handle = slots[i].handle /\ slots'[i].gen = slots[i].gen
           /\ slots'[i].active <=> slots[i].active /\ i \notin S
           /\ slots'[i].pending => slots[i].pending
           /\ i \notin S => slots'[i] = slots[i]
  BY <1>2, <1>3, Freed
<1>7. UNCHANGED <<pc, call, calls, lock, events, recordGen, inProgress, observed, wpc,
                  snaps, at, awaited, issued, done, abandoned, destroyed, setup, stop,
                  exited>>
  BY <1>1 DEF appVars, waitVars, deviceVars, processVars
<1>8. /\ StateInv'
      /\ stateActive' \in BOOLEAN /\ published' \in {"idle", "active"}
  BY <1>1, <1>5, <1>7, FreedStates
<1>9. \A s \in Streams : Settled(s)' <=> Settled(s)  BY <1>7 DEF Settled, Held
<1>11. TypeOK'
  BY <1>5, <1>7, <1>8 DEF TypeOK, Slots
<1>12. CallInv'
  BY <1>7 DEF CallInv, Busy
<1>13. StateInv'
  BY <1>8
<1>14. StreamInv'
  BY <1>7 DEF StreamInv
<1>15. SlotInv'
  <2>1. setup' = setup /\ Slots' = Slots  BY <1>7 DEF Slots
  <2>2. \A i, j \in Slots : slots'[i].handle = slots'[j].handle
                            /\ slots'[i].handle # NoHandle => i = j
    BY <1>5 DEF SlotInv
  <2>3. \A i \in Slots : slots'[i].active =>
          /\ slots'[i].handle \in Handles
          /\ slots'[i].pending <=> Deferred(slots'[i].handle)
    BY <1>5 DEF SlotInv
  <2>4. \A i \in Slots : slots'[i].pending => slots'[i].active
    BY <1>5, <1>10
  <2> QED  BY <2>1, <2>2, <2>3, <2>4 DEF SlotInv, Deferred
<1>16. CoverInv'
  <2>1. \A i \in Slots, s \in Streams :
          SlotCovers(i, s) => SlotCovers(i, s)' \/ Settled(s)
    <3>1. SUFFICES ASSUME NEW i \in Slots, NEW s \in Streams, SlotCovers(i, s)
                   PROVE  SlotCovers(i, s)' \/ Settled(s)
      OBVIOUS
    <3>2. CASE i \in S  BY <3>1, <3>2, <1>4 DEF SlotCovers, OfSlot
    <3>3. CASE i \notin S  BY <3>1, <3>3, <1>5, <1>7 DEF SlotCovers, Latest
    <3> QED  BY <3>2, <3>3
  <2> QED  BY <2>1, <1>9 DEF CoverInv, Slots
<1>17. SnapInv'
  <2>1. \A i \in Slots : ~snaps[i].taken  BY <1>1 DEF SnapInv
  <2> QED  BY <1>5, <1>7, <2>1 DEF SnapInv, Fresh, Slots
<1>18. WaitInv'
  <2>1. /\ wpc \notin {"enter", "wait", "fallback"}
        /\ \A i \in Slots : ~snaps[i].taken
    BY <1>1 DEF SnapInv
  <2> QED  BY <1>7, <2>1 DEF WaitInv, Fresh, Slots
<1> QED  BY <1>11, <1>12, <1>13, <1>14, <1>15, <1>16, <1>17, <1>18

LEMMA StreamDestroyStep ==
  ASSUME IInv, OwnDefaults, NEW h \in Handles, StreamDestroy(h)
  PROVE  IInv'
<1> USE Frame DEF IInv, StreamDestroy, appVars, slotVars, stateVars, waitVars,
              deviceVars, processVars
<1>1. TypeOK'  BY DEF TypeOK, Slots
<1>2. CallInv'  BY DEF CallInv, Busy, TypeOK
<1>3. StateInv'  BY DEF StateInv, AnyActive, TypeOK
<1>4. StreamInv'  BY DEF StreamInv, TypeOK
<1>5. SlotInv'  BY DEF SlotInv, TypeOK, Deferred
<1>6. CoverInv'  BY DEF CoverInv, Settled, Held, SlotCovers, Latest, TypeOK
<1>7. SnapInv'
  <2>1. UNCHANGED <<snaps, at, slots, setup>>  OBVIOUS
  <2>2. \/ wpc' = wpc
        \/ wpc' \in {"check", "asleep", "stopped"}
        \/ wpc' \in {"frontier", "settle", "snapshot"} /\ setup.mode # "query"
    BY DEF SnapInv
  <2> QED  BY <2>1, <2>2, SnapKept
<1>8. WaitInv'
  BY DEF WaitInv, Fresh, OfSlot, Settled, Held, Latest, TypeOK, SnapInv
<1> QED  BY <1>1, <1>2, <1>3, <1>4, <1>5, <1>6, <1>7, <1>8

LEMMA DeviceStepStep ==
  ASSUME IInv, OwnDefaults, NEW s \in Streams, DeviceStep(s)
  PROVE  IInv'
<1> USE Frame DEF IInv, DeviceStep, appVars, slotVars, stateVars, waitVars,
              deviceVars, processVars
<1>1. TypeOK'  BY SMTT(30) DEF TypeOK, Slots
<1>2. CallInv'  BY DEF CallInv, Busy, TypeOK
<1>3. StateInv'  BY DEF StateInv, AnyActive, TypeOK
<1>4. StreamInv'
  <2>1. SUFFICES ASSUME NEW q \in Streams
                 PROVE  /\ done'[q] <= issued[q]
                        /\ issued[q] > 0 =>
                             \E t \in Threads : /\ <<t, q[1]>> \in setup.uses
                                                /\ q = StreamOf(t, q[1])
    BY DEF StreamInv
  <2>2. done'[q] = IF q = s THEN done[q] + 1 ELSE done[q]  BY DEF TypeOK
  <2>3. done'[q] <= issued[q]  BY <2>2 DEF StreamInv, TypeOK
  <2> QED  BY <2>3 DEF StreamInv
<1>5. SlotInv'  BY DEF SlotInv, TypeOK, Deferred
<1>6. CoverInv'  BY DEF CoverInv, Settled, Held, SlotCovers, Latest, TypeOK
<1>7. SnapInv'
  <2>1. UNCHANGED <<snaps, at, slots, setup>>  OBVIOUS
  <2>2. \/ wpc' = wpc
        \/ wpc' \in {"check", "asleep", "stopped"}
        \/ wpc' \in {"frontier", "settle", "snapshot"} /\ setup.mode # "query"
    BY DEF SnapInv
  <2> QED  BY <2>1, <2>2, SnapKept
<1>8. WaitInv'
  BY DEF WaitInv, Fresh, OfSlot, Settled, Held, Latest, TypeOK, SnapInv
<1> QED  BY <1>1, <1>2, <1>3, <1>4, <1>5, <1>6, <1>7, <1>8

---------------------------------------------------------------------------
(* The invariant and the theorem. *)

\* The initial states.
LEMMA InitInv ==
  ASSUME Init
  PROVE  IInv
<1> USE Frame DEF Init
<1>1. TypeOK
  <2>1. \A i \in Slots : slots[i] = FreeSlot /\ snaps[i] = NoSnap /\ events[i] = NoEvent
    OBVIOUS
  <2>2. slots \in [Slots -> SlotRec]
    BY DEF FreeSlot
  <2>3. snaps \in [Slots -> SnapRec]
    BY DEF NoSnap
  <2>4. call \in [Threads -> CallRec]
    BY DEF NoCall
  <2>5. at \in 0 .. NSlots + 1  OBVIOUS
  <2> QED  BY <2>2, <2>3, <2>4, <2>5 DEF TypeOK
<1>2. \A i \in Slots : /\ ~slots[i].active /\ ~slots[i].pending
                       /\ slots[i].handle = NoHandle
                       /\ ~snaps[i].taken /\ ~snaps[i].ok
  BY DEF FreeSlot, NoSnap
<1>3. CallInv
  <2>1. Busy = {}  BY DEF Busy
  <2> QED  BY <2>1, FS_EmptySet DEF CallInv
<1>4. StateInv  BY <1>2 DEF StateInv, AnyActive
<1>5. StreamInv  BY DEF StreamInv
<1>6. SlotInv  BY <1>2 DEF SlotInv
<1>7. CoverInv  BY DEF CoverInv, Settled
<1>8. SnapInv  BY <1>2 DEF SnapInv, Fresh
<1>9. WaitInv  BY <1>2 DEF WaitInv, Fresh
<1> QED  BY <1>1, <1>3, <1>4, <1>5, <1>6, <1>7, <1>8, <1>9 DEF IInv

\* A stuttering step.
LEMMA SameInv ==
  ASSUME IInv, UNCHANGED vars
  PROVE  IInv'
<1> USE DEF IInv, vars, appVars, slotVars, stateVars, waitVars, deviceVars,
            processVars
<1>1. TypeOK'  BY DEF TypeOK, Slots
<1>2. CallInv'  BY DEF CallInv, Busy
<1>3. StateInv'  BY DEF StateInv, AnyActive, Slots
<1>4. StreamInv'  BY DEF StreamInv
<1>5. SlotInv'  BY DEF SlotInv, Deferred, Slots
<1>6. CoverInv'  BY DEF CoverInv, Settled, Held, SlotCovers, Latest, Slots
<1>7. SnapInv'  BY DEF SnapInv, Fresh, Deferred, Slots
<1>8. WaitInv'  BY DEF WaitInv, Fresh, OfSlot, Settled, Held, Latest, Slots
<1> QED  BY <1>1, <1>2, <1>3, <1>4, <1>5, <1>6, <1>7, <1>8

\* Every step.
LEMMA NextInv ==
  ASSUME IInv, OwnDefaults, [Next]_vars
  PROVE  IInv'
<1>1. ASSUME NEW t \in Threads, NEW h \in Handles, Before(t, h)  PROVE IInv'
  BY <1>1, BeforeStep
<1>2. ASSUME NEW t \in Threads, ThreadWork(t)  PROVE IInv'
  BY <1>2, LaunchStep, AfterTrackedStep, AfterFailedStep, AfterUntrackedStep,
     AfterDrainedStep DEF ThreadWork
<1>3. ASSUME NEW failed \in SUBSET Slots, QueryPass(failed)  PROVE IInv'
  BY <1>3, QueryPassStep
<1>4. CASE WatcherWork
  BY <1>3, <1>4, WatcherCheckStep, FrontierLoadStep, FrontierSettleStep,
     TakeSnapshotsStep, NextSnapshotStep, RecordSnapshotStep, EnterWaitStep,
     WaitDoneStep, WaitFailsStep, FallbackDoneStep, FallbackFailsStep, CommitStep
     DEF WatcherWork
<1>5. CASE Stop \/ Unregister  BY <1>5, StopStep, UnregisterStep
<1>6. ASSUME NEW h \in Handles, StreamDestroy(h)  PROVE IInv'
  BY <1>6, StreamDestroyStep
<1>7. ASSUME NEW s \in Streams, DeviceStep(s)  PROVE IInv'
  BY <1>7, DeviceStepStep
<1>8. CASE UNCHANGED vars  BY <1>8, SameInv
<1> QED  BY <1>1, <1>2, <1>4, <1>5, <1>6, <1>7, <1>8 DEF Next

\* The invariant is strong enough: with IDLE published no slot is active and no
\* thread is counted, so nothing is held and every stream has finished.
LEMMA ImpliesIdle ==
  ASSUME IInv
  PROVE  IdleMeansIdle
<1> SUFFICES ASSUME published = "idle", ~exited
             PROVE  ~Working /\ \A t \in Threads : pc[t] = "idle"
  BY DEF IInv, IdleMeansIdle, NoIdleWhileWorking
<1>1. inProgress = 0 /\ \A i \in Slots : ~slots[i].active
  BY DEF IInv, TypeOK, StateInv, AnyActive
<1>2. \A t \in Threads : pc[t] = "idle"
  BY <1>1, LaunchCounts DEF IInv
<1>3. \A s \in Streams : Settled(s)
  BY <1>1 DEF IInv, CoverInv, SlotCovers
<1>4. \A s \in Streams \ abandoned : done[s] = issued[s]
  BY <1>2, <1>3 DEF Settled, Held
<1>5. \A s \in Streams \ abandoned : ~(done[s] < issued[s])
  BY <1>4 DEF IInv, TypeOK
<1> QED  BY <1>2, <1>5 DEF Working

\* Published IDLE means idle: while the process lives, no thread is then inside a
\* launch and the device has finished every launch it was given
\* (event_hp_before_launch to hp_publish_idle_locked), whatever the interleaving
\* of launches, watcher, failed calls, stream destruction and exit.
THEOREM IdleHolds ==
  ASSUME OwnDefaults
  PROVE  Spec => []IdleMeansIdle
<1>1. Init => IInv  BY InitInv
<1>2. IInv /\ [Next]_vars => IInv'  BY NextInv
<1>3. IInv => IdleMeansIdle  BY ImpliesIdle
<1> QED  BY <1>1, <1>2, <1>3, PTL DEF Spec
===============================================================================
