-------------------------- MODULE Admission_proofs --------------------------
(***************************************************************************)
(* Theorems about BeAdmission, for every value of its constants, and then  *)
(* about GraphScheduler, which extends it, for every number of threads,    *)
(* graphs and graphlets, every policy and every failure: its graphlets go  *)
(* out one by one and up to date, and a graph call returns when its work   *)
(* is done.                                                                *)
(***************************************************************************)
EXTENDS GraphScheduler, SumTheorems, TLAPS

USE ThreadAssumption, KernelAssumption, StreamAssumption, ConfigAssumption,
    ProfilerAssumption, FaultAssumption, BoundAssumption
    DEF ledger

---------------------------------------------------------------------------
(* The configuration and the ring's index arithmetic. *)

\* A share of an aggregate limit is at least one (event_be_partition).
LEMMA PartitionType ==
  ASSUME NEW total \in Nat PROVE Partition(total) \in Nat \ {0}
  BY DEF Partition

\* The ring has at least one slot.
LEMMA WindowType == Window \in Nat \ {0}
  BY PartitionType DEF Window

\* Head and tail stay within the ring when they advance.
LEMMA SlotIdsType ==
  /\ 0 \in SlotIds
  /\ \A i \in SlotIds : /\ i \in 0 .. Window - 1
                        /\ (i + 1) % Window = IF i + 1 = Window THEN 0 ELSE i + 1
                        /\ (i + 1) % Window \in SlotIds
  BY WindowType DEF SlotIds

\* Every configured limit is a limit: window and budgets are at least one.
LEMMA LimitTypes ==
  /\ InternalLimit \in LimitType /\ InternalLimit.window <= Window
  /\ PromotedLimit \in LimitType /\ PromotedLimit.window <= Window
  /\ TimeBudget \in Nat /\ BlockBudget \in Nat
  <1>1. \A total \in {TotalInternalWindow, TotalInternalBudget, TotalPromotedWindow,
                      TotalPromotedBudget, TotalTimeBudget, TotalBlockBudget} :
          Partition(total) \in Nat
    BY PartitionType
  <1> QED
    BY <1>1, WindowType
    DEF InternalLimit, PromotedLimit, LimitType, Lower, TimeBudget, BlockBudget

\* So are the limits a launch is admitted under.
LEMMA EffectiveLimitsType ==
  ASSUME NEW l \in EffectiveLimits
  PROVE  l \in LimitType /\ l.window <= Window
  BY WindowType, LimitTypes DEF EffectiveLimits, LimitType

\* Handles are resolved to streams of the device.
LEMMA StreamOfType ==
  ASSUME NEW t \in Threads, NEW h \in Handles \cup {NoStream}
  PROVE  StreamOf(t, h) \in StreamType
  BY DEF StreamOf, StreamType

\* The empty records have the types of the full ones.
LEMMA RecordTypes ==
  /\ NoLimit \in LimitType /\ NoLaunch \in LaunchType
  /\ EmptySlot \in SlotType /\ NewProfile \in ProfileType
  BY DEF NoLimit, NoLaunch, EmptySlot, NewProfile, LimitType, LaunchType, SlotType,
         ProfileType, StreamType

\* The profiler keeps the type of its table when it takes or gives back a
\* sample.
LEMMA ProfileSteps ==
  ASSUME NEW p \in ProfileType
  PROVE  /\ Released(p) \in ProfileType
         /\ \A d \in Durations : Updated(p, d) \in ProfileType
  <1>1. Released(p) \in ProfileType
    BY DEF Released, ProfileType
  <1>2. ASSUME NEW d \in Durations
        PROVE  Updated(p, d) \in ProfileType
    <2>1. d \in Nat /\ p.ewma \in Nat /\ p.samples + 1 \in Nat
      BY DEF ProfileType
    <2>2. d >= p.ewma => p.ewma + (d - p.ewma) \div 4 \in Nat
      BY <2>1
    <2>3. ~(d >= p.ewma) => p.ewma - (p.ewma - d) \div 4 \in Nat
      BY <2>1
    <2> QED
      BY <2>1, <2>2, <2>3 DEF Updated, ProfileType
  <1> QED
    BY <1>1, <1>2
---------------------------------------------------------------------------
(* Type correctness. *)

\* The program starts with every variable in its type.
LEMMA InitType == Init => TypeOK
  BY RecordTypes, SlotIdsType DEF Init, TypeOK, Labels, InflightType

\* A retirement keeps the types of what it changes.
LEMMA RetireType ==
  ASSUME TypeOK, NEW t \in Threads, RetireOldest(t)
  PROVE  /\ slots' \in [SlotIds -> SlotType]
         /\ head' \in SlotIds /\ tail' \in SlotIds
         /\ outstanding' \in Int /\ outBlocks' \in Int /\ outPredicted' \in Int
         /\ profiles' \in [Kernels -> ProfileType]
         /\ forgotten' \subseteq {q.id : q \in inflight}
  <1> DEFINE slot == slots[head]
  <1>1. slot \in SlotType /\ head \in SlotIds
    BY DEF TypeOK
  <1>2. slots' \in [SlotIds -> SlotType]
    BY RecordTypes DEF TypeOK, RetireOldest
  <1>3. head' \in SlotIds /\ tail' \in SlotIds
    BY <1>1, SlotIdsType DEF TypeOK, RetireOldest
  <1>4. outstanding' \in Int /\ outBlocks' \in Int /\ outPredicted' \in Int
    BY <1>1 DEF TypeOK, RetireOldest, SlotType
  <1>5. profiles' \in [Kernels -> ProfileType]
    <2>1. \A k \in Kernels : profiles[k] \in ProfileType
      BY DEF TypeOK
    <2>2. \A k \in Kernels : Released(profiles[k]) \in ProfileType
      BY <2>1, ProfileSteps
    <2>3. \A k \in Kernels, d \in Durations :
            Updated(Released(profiles[k]), d) \in ProfileType
      BY <2>2, ProfileSteps
    <2>4. \/ profiles' = profiles
          \/ profiles' = [profiles EXCEPT ![slot.kernel] = Released(@)]
          \/ \E d \in Durations :
               profiles' = [profiles EXCEPT ![slot.kernel] = Updated(Released(@), d)]
      BY DEF RetireOldest
    <2> QED
      BY <2>2, <2>3, <2>4 DEF TypeOK
  <1>6. forgotten' \subseteq {q.id : q \in inflight}
    BY DEF TypeOK, RetireOldest, GiveUp
  <1> QED
    BY <1>2, <1>3, <1>4, <1>5, <1>6
\* The lock belongs to the one thread that is inside the launch path or a
\* boundary, and a launch knows its signature and its stream.
LockInv == \A t \in Threads : pc[t] # "idle" <=> lock = t
CallInv ==
  \A t \in Threads : pc[t] \notin {"idle", "boundary"} =>
    current.kernel \in Kernels /\ current.handle \in Handles

Base == TypeOK /\ LockInv /\ CallInv

\* Every step of a thread that does not reset the launch keeps LockInv and
\* CallInv: it moves its own program counter inside the launch path.
LEMMA MoveKeepsBase ==
  ASSUME Base, NEW t \in Threads, pc[t] # "idle", NEW label \in Labels \ {"idle"},
         pc' = [pc EXCEPT ![t] = label], lock' = lock,
         current'.kernel = current.kernel, current'.handle = current.handle,
         pc[t] = "boundary" => label = "boundary"
  PROVE  LockInv' /\ CallInv'
  BY DEF Base, TypeOK, LockInv, CallInv

\* Returning from the launch path gives the lock back and keeps Base.
LEMMA FinishKeepsBase ==
  ASSUME Base, NEW t \in Threads, pc[t] # "idle",
         pc' = [pc EXCEPT ![t] = "idle"], lock' = NoThread
  PROVE  LockInv' /\ CallInv'
  BY DEF Base, TypeOK, LockInv, CallInv

\* Every step keeps the types: one case per action.
LEMMA NextBase ==
  ASSUME Base, [Next]_vars
  PROVE  Base'
  <1> USE DEF Goto, ring, vars
  <1>1. ASSUME NEW t \in Threads, NEW k \in Kernels, NEW h \in Handles, Begin(t, k, h)
        PROVE  Base'
    <2>1. current' \in LaunchType
      BY <1>1, RecordTypes DEF Begin, LaunchType
    <2>2. TypeOK'
      BY <1>1, <2>1 DEF Base, Begin, TypeOK, Labels
    <2>3. current'.kernel = k /\ current'.handle = h
      BY <1>1 DEF Begin, NoLaunch
    <2>4. LockInv' /\ CallInv'
      BY <1>1, <2>3 DEF Base, Begin, TypeOK, LockInv, CallInv
    <2> QED
      BY <2>2, <2>4 DEF Base
  <1>2. ASSUME NEW t \in Threads, ReadOwner(t)
        PROVE  Base'
    BY <1>2, MoveKeepsBase DEF Base, ReadOwner, TypeOK, Labels
  <1>3. ASSUME NEW t \in Threads, Drain(t) \/ DrainBoundary(t)
        PROVE  Base'
    BY <1>3, RetireType DEF Drain, DrainBoundary, Base, TypeOK, LockInv, CallInv
  <1>4. ASSUME NEW t \in Threads, Bypass(t) \/ WaitUntilIdle(t) \/ RecheckIdle(t)
        PROVE  Base'
    BY <1>4, MoveKeepsBase DEF Base, Bypass, WaitUntilIdle, RecheckIdle, TypeOK, Labels
  <1>5. ASSUME NEW t \in Threads, Predict(t)
        PROVE  Base'
    <2>1. current.kernel \in Kernels
      BY <1>5 DEF Base, CallInv, Predict
    <2>2. profiles' \in [Kernels -> ProfileType]
      <3>1. profiles[current.kernel] \in ProfileType
        BY <2>1 DEF Base, TypeOK
      <3>2. [profiles[current.kernel] EXCEPT !.occupied = TRUE] \in ProfileType
        BY <3>1 DEF ProfileType
      <3>3. \/ profiles' = profiles
            \/ profiles' = [profiles EXCEPT ![current.kernel] =
                              [profiles[current.kernel] EXCEPT !.occupied = TRUE]]
        BY <1>5 DEF Predict
      <3> QED
        BY <3>2, <3>3 DEF Base, TypeOK
    <2>3. Learned(current.kernel) \in Nat
      BY <2>1 DEF Base, TypeOK, Learned, ProfileType
    <2>4. /\ current' \in LaunchType
          /\ current'.kernel = current.kernel /\ current'.handle = current.handle
      <3>1. HasEntry(current.kernel) \in BOOLEAN
        BY DEF HasEntry
      <3>2. CASE current' = current
        BY <3>2 DEF Base, TypeOK
      <3>3. ASSUME NEW u \in BOOLEAN, NEW v \in BOOLEAN, NEW n \in Nat,
                   current' = [current EXCEPT !.profiled = u, !.unknown = v,
                                              !.predicted = n]
            PROVE  /\ current' \in LaunchType
                   /\ current'.kernel = current.kernel
                   /\ current'.handle = current.handle
        BY <3>3 DEF Base, TypeOK, LaunchType
      <3>4. (~HasEntry(current.kernel) \/ profiles[current.kernel].samples = 0)
              \in BOOLEAN
        OBVIOUS
      <3> QED
        BY <1>5, <2>3, <3>1, <3>2, <3>3, <3>4 DEF Predict
    <2>5. LockInv' /\ CallInv'
      BY <1>5, <2>4, MoveKeepsBase DEF Predict, Labels
    <2> QED
      BY <1>5, <2>2, <2>4, <2>5 DEF Predict, Base, TypeOK, Labels
  <1>6. ASSUME NEW t \in Threads, ChooseLimit(t) \/ SurvivalAdmission(t)
        PROVE  Base'
    <2>1. PICK l \in LimitType : current' = [current EXCEPT !.limit = l]
      <3>1. ASSUME NEW m \in LimitType
            PROVE  [m EXCEPT !.window = 1] \in LimitType
        BY DEF LimitType
      <3> QED
        BY <1>6, <3>1, LimitTypes, EffectiveLimitsType DEF ChooseLimit, SurvivalAdmission
    <2>2. /\ current' \in LaunchType
          /\ current'.kernel = current.kernel /\ current'.handle = current.handle
      BY <2>1 DEF Base, TypeOK, LaunchType
    <2>3. LockInv' /\ CallInv'
      BY <1>6, <2>2, MoveKeepsBase DEF ChooseLimit, SurvivalAdmission, Labels
    <2> QED
      BY <1>6, <2>2, <2>3 DEF ChooseLimit, SurvivalAdmission, Base, TypeOK, Labels
  <1>7. ASSUME NEW t \in Threads, SurvivalRejection(t)
        PROVE  Base'
    <2>1. LockInv' /\ CallInv'
      BY <1>7, MoveKeepsBase DEF SurvivalRejection, Labels
    <2> QED
      BY <1>7, <2>1, RetireType DEF SurvivalRejection, Base, TypeOK, Labels
  <1>8. ASSUME NEW t \in Threads, RetireForRoom(t)
        PROVE  Base'
    <2>1. LockInv' /\ CallInv'
      BY <1>8, MoveKeepsBase DEF RetireForRoom, Labels
    <2> QED
      BY <1>8, <2>1, RetireType DEF RetireForRoom, Base, TypeOK, Labels
  <1>9. ASSUME NEW t \in Threads, Admit(t)
        PROVE  Base'
    <2>1. profiles' \in [Kernels -> ProfileType]
      BY <1>9 DEF Admit, Base, TypeOK, ProfileType
    <2>2. /\ current' \in LaunchType
          /\ current'.kernel = current.kernel /\ current'.handle = current.handle
      BY ZenonT(30), <1>9 DEF Admit, Base, TypeOK, LaunchType
    <2>3. LockInv' /\ CallInv'
      BY <1>9, <2>2, MoveKeepsBase DEF Admit, Labels
    <2> QED
      BY <1>9, <2>1, <2>2, <2>3 DEF Admit, Base, TypeOK, Labels
  <1>10. ASSUME NEW t \in Threads, Issue(t)
         PROVE  Base'
    <2>1. current.kernel \in Kernels /\ current.handle \in Handles
      BY <1>10 DEF Issue, Base, CallInv
    <2>2. /\ current' \in LaunchType
          /\ current'.kernel = current.kernel /\ current'.handle = current.handle
      BY <1>10 DEF Issue, Base, TypeOK, LaunchType
    <2>3. [id |-> launches + 1, stream |-> StreamOf(t, current.handle),
           windowed |-> current.windowed, predicted |-> current.predicted,
           blocks |-> BlocksOf[current.kernel]] \in InflightType
      BY <2>1, StreamOfType DEF Base, TypeOK, LaunchType, InflightType
    <2>4. LockInv' /\ CallInv'
      BY <1>10, <2>2, MoveKeepsBase DEF Issue, Labels
    <2> QED
      BY <1>10, <2>2, <2>3, <2>4 DEF Issue, Base, TypeOK, Labels
  <1>11. ASSUME NEW t \in Threads, IssueFails(t) \/ AfterUntracked(t) \/ AfterBypass(t)
         PROVE  Base'
    <2>1. \A k \in Kernels : Released(profiles[k]) \in ProfileType
      BY ProfileSteps DEF Base, TypeOK
    <2>2. profiles' \in [Kernels -> ProfileType]
      BY <1>11, <2>1 DEF IssueFails, AfterUntracked, AfterBypass, Base, TypeOK
    <2>3. LockInv' /\ CallInv'
      BY <1>11, FinishKeepsBase DEF IssueFails, AfterUntracked, AfterBypass, Finish
    <2> QED
      BY <1>11, <2>2, <2>3, RecordTypes
      DEF IssueFails, AfterUntracked, AfterBypass, Finish, GiveUp, Base, TypeOK, Labels
  <1>12. ASSUME NEW t \in Threads, AfterTracked(t)
         PROVE  Base'
    <2>1. current.kernel \in Kernels /\ current.handle \in Handles
      BY <1>12 DEF AfterTracked, Base, CallInv
    <2>2. BlocksOf[current.kernel] \in Nat /\ StreamOf(t, current.handle) \in StreamType
      BY <2>1, StreamOfType
    <2>3. slots' \in [SlotIds -> SlotType]
      BY <1>12, <2>1, <2>2 DEF AfterTracked, Track, Base, TypeOK, SlotType, LaunchType
    <2>4. tail' \in SlotIds
      BY <1>12, SlotIdsType DEF AfterTracked, Track, Base, TypeOK
    <2>5. LockInv' /\ CallInv'
      BY <1>12, FinishKeepsBase DEF AfterTracked, Finish
    <2>6. outstanding' \in Int /\ outBlocks' \in Int /\ outPredicted' \in Int
      BY <1>12, <2>2 DEF AfterTracked, Track, Base, TypeOK, LaunchType
    <2> QED
      BY <1>12, <2>3, <2>4, <2>5, <2>6, RecordTypes
      DEF AfterTracked, Track, Finish, Base, TypeOK, Labels
  <1>13. ASSUME NEW t \in Threads, BeginBoundary(t)
         PROVE  Base'
    BY <1>13 DEF BeginBoundary, Base, TypeOK, LockInv, CallInv, Labels
  <1>14. ASSUME NEW t \in Threads, EndBoundary(t)
         PROVE  Base'
    BY <1>14, FinishKeepsBase DEF EndBoundary, Base, TypeOK, Labels
  <1>15. ASSUME NEW q \in inflight, Complete(q)
         PROVE  Base'
    BY <1>15 DEF Complete, Base, TypeOK, LockInv, CallInv
  <1>16. ASSUME HpStep
         PROVE  Base'
    BY <1>16 DEF HpStep, HpRegister, HpActivate, HpIdle, HpExit, Base, TypeOK, LockInv,
                 CallInv
  <1>17. CASE UNCHANGED vars
    BY <1>17 DEF Base, TypeOK, LockInv, CallInv
  <1> QED
    BY <1>1, <1>2, <1>3, <1>4, <1>5, <1>6, <1>7, <1>8, <1>9, <1>10, <1>11, <1>12,
       <1>13, <1>14, <1>15, <1>16, <1>17
    DEF Next, Work

\* The program starts with the lock free and no launch under way.
LEMMA InitBase == Init => Base
  BY InitType DEF Init, Base, LockInv, CallInv

\* Types, the holder of g_be_event_lock and the arguments of the launch under
\* way hold in every state: exactly the thread inside the launch path has the
\* lock, so the globals of the launch are its own.
THEOREM BaseCorrect == Spec => []Base
  BY InitBase, NextBase, PTL DEF Spec

\* The variables of the model stay in their types.
THEOREM TypeCorrect == Spec => []TypeOK
  BY BaseCorrect, PTL DEF Base
---------------------------------------------------------------------------
(* The HP's protection. *)

\* Where a thread has already passed its check of the HP.
Checked == {"drain", "predict", "recheck", "choose", "admit", "issue"}

\* While the HP is active, a launch has escaped only if no thread is past its
\* check any more: the lock admits one, and WaitUntilIdle stops the next.
EscapeInv ==
  hp = "active" =>
    \/ escapes = 0
    \/ escapes = 1 /\ \A t \in Threads : pc[t] \notin Checked

\* Every step keeps EscapeInv: one case per action.
LEMMA NextEscape ==
  ASSUME Base, EscapeInv, [Next]_vars
  PROVE  EscapeInv'
  <1> USE DEF Goto, ring, vars
  \* Steps that move the lock's holder and leave the HP and its history alone.
  <1>1. ASSUME NEW t \in Threads, NEW label, pc' = [pc EXCEPT ![t] = label],
               pc[t] \in Checked \/ label \notin Checked \/ hp # "active",
               UNCHANGED <<hp, escapes>>
        PROVE  EscapeInv'
    BY <1>1 DEF EscapeInv, Base, TypeOK
  <1>2. ASSUME NEW t \in Threads, Work(t), ~Issue(t)
        PROVE  EscapeInv'
    <2>1. CASE Drain(t) \/ DrainBoundary(t)
      BY <2>1 DEF Drain, DrainBoundary, EscapeInv
    <2>2. CASE ReadOwner(t)
      <3>1. CASE hp = "none"
        BY <2>2, <3>1 DEF ReadOwner, EscapeInv
      <3>2. CASE hp # "none"
        BY <1>1, <2>2, <3>2 DEF ReadOwner, Checked
      <3> QED
        BY <3>1, <3>2
    <2>3. CASE \/ Bypass(t) \/ Predict(t) \/ ChooseLimit(t) \/ SurvivalAdmission(t)
               \/ SurvivalRejection(t) \/ RetireForRoom(t) \/ Admit(t)
      BY <1>1, <2>3 DEF Bypass, Predict, ChooseLimit, SurvivalAdmission,
                        SurvivalRejection, RetireForRoom, Admit, Checked
    <2>4. CASE WaitUntilIdle(t) \/ RecheckIdle(t)
      BY <2>4 DEF WaitUntilIdle, RecheckIdle, EscapeInv
    <2>5. CASE \/ IssueFails(t) \/ AfterTracked(t) \/ AfterUntracked(t)
               \/ AfterBypass(t) \/ EndBoundary(t)
      BY <1>1, <2>5 DEF IssueFails, AfterTracked, AfterUntracked, AfterBypass,
                        EndBoundary, Finish, Checked
    <2> QED
      BY <1>2, <2>1, <2>2, <2>3, <2>4, <2>5 DEF Work
  <1>3. ASSUME NEW t \in Threads, Issue(t)
        PROVE  EscapeInv'
    <2>1. \A u \in Threads : u # t => pc[u] = "idle"
      BY <1>3 DEF Issue, Base, LockInv
    <2>2. \A u \in Threads : pc'[u] \notin Checked
      BY <1>3, <2>1 DEF Issue, Base, TypeOK, Checked
    <2>3. hp = "active" => escapes = 0
      BY <1>3 DEF Issue, EscapeInv, Checked
    <2> QED
      BY <1>3, <2>2, <2>3 DEF Issue, EscapeInv
  <1>4. ASSUME NEW t \in Threads, NEW k \in Kernels, NEW h \in Handles,
               Begin(t, k, h)
        PROVE  EscapeInv'
    BY <1>1, <1>4 DEF Begin, Checked
  <1>5. ASSUME NEW t \in Threads, BeginBoundary(t)
        PROVE  EscapeInv'
    BY <1>1, <1>5 DEF BeginBoundary, Checked
  <1>6. ASSUME NEW q \in inflight, Complete(q)
        PROVE  EscapeInv'
    BY <1>6 DEF Complete, EscapeInv
  <1>7. ASSUME HpStep
        PROVE  EscapeInv'
    BY <1>7 DEF HpStep, HpRegister, HpActivate, HpIdle, HpExit, EscapeInv
  <1>8. CASE UNCHANGED vars
    BY <1>8 DEF EscapeInv
  <1> QED
    BY <1>2, <1>3, <1>4, <1>5, <1>6, <1>7, <1>8 DEF Next

\* Whatever the number of threads, streams, signatures and limits: at most one
\* launch of a BE process reaches the device after the HP became active
\* (event_be_before_launch holds the lock from its check to the launch).
THEOREM EscapeBound == Spec => []AtMostOneEscape
  <1>1. Init => EscapeInv
    BY DEF Init, EscapeInv
  <1>2. EscapeInv => AtMostOneEscape
    BY DEF EscapeInv, AtMostOneEscape
  <1> QED
    BY <1>1, <1>2, BaseCorrect, NextEscape, PTL DEF Spec
---------------------------------------------------------------------------
(* The ring. *)

\* How far behind the head a slot is.
Distance(i) == IF i >= head THEN i - head ELSE i - head + Window

\* The active slots are the outstanding ones behind the head, and the tail is
\* the next one; a launch that was admitted to the window finds it free.
RingInv ==
  /\ outstanding \in 0 .. Window
  /\ \A i \in SlotIds : slots[i].active <=> Distance(i) < outstanding
  /\ tail = IF head + outstanding < Window
            THEN head + outstanding ELSE head + outstanding - Window
RoomInv ==
  /\ current.limit.window <= Window
  /\ current.windowed => outstanding < Window

\* A retirement moves the head past a slot it frees.
LEMMA RetireRing ==
  ASSUME Base, RingInv, NEW t \in Threads, RetireOldest(t)
  PROVE  RingInv' /\ outstanding' = outstanding - 1 /\ slots[head].active
  <1>1. /\ Window \in Nat \ {0} /\ head \in 0 .. Window - 1
        /\ outstanding \in 1 .. Window
        /\ head' = IF head + 1 = Window THEN 0 ELSE head + 1
        /\ tail' = tail /\ outstanding' = outstanding - 1
    BY WindowType, SlotIdsType DEF Base, TypeOK, RetireOldest, RingInv
  <1>2. slots[head].active
    BY <1>1 DEF RingInv, Distance, SlotIds
  <1>3. ASSUME NEW i \in SlotIds
        PROVE  slots'[i].active <=> Distance(i)' < outstanding'
    <2>1. CASE i = head
      <3>1. ~slots'[i].active
        BY <2>1 DEF RetireOldest, EmptySlot, Base, TypeOK
      <3>2. Distance(i)' = Window - 1
        BY <1>1, <2>1 DEF Distance
      <3> QED
        BY <1>1, <3>1, <3>2
    <2>2. CASE i # head
      <3>1. slots'[i] = slots[i]
        BY <2>2 DEF RetireOldest, Base, TypeOK
      <3>2. Distance(i)' = Distance(i) - 1
        BY <1>1, <2>2 DEF Distance, SlotIds
      <3>3. Distance(i) \in Int
        BY <1>1 DEF Distance, SlotIds
      <3> QED
        BY <1>1, <3>1, <3>2, <3>3 DEF RingInv
    <2> QED
      BY <2>1, <2>2
  <1>4. tail' = IF head' + outstanding' < Window
                THEN head' + outstanding' ELSE head' + outstanding' - Window
    BY <1>1 DEF RingInv
  <1> QED
    BY <1>1, <1>2, <1>3, <1>4 DEF RingInv, Window, Partition

\* A tracked launch takes the free slot at the tail.
LEMMA TrackRing ==
  ASSUME Base, RingInv, outstanding < Window, NEW t \in Threads, Track(t)
  PROVE  RingInv' /\ outstanding' = outstanding + 1 /\ ~slots[tail].active
  <1>1. /\ Window \in Nat \ {0} /\ head \in 0 .. Window - 1
        /\ tail \in SlotIds /\ tail \in 0 .. Window - 1
        /\ outstanding \in 0 .. Window - 1
        /\ tail' = IF tail + 1 = Window THEN 0 ELSE tail + 1
        /\ head' = head /\ outstanding' = outstanding + 1
    BY WindowType, SlotIdsType DEF Base, TypeOK, Track, RingInv
  <1>2. Distance(tail) = outstanding
    BY <1>1 DEF RingInv, Distance
  <1>3. ASSUME NEW i \in SlotIds
        PROVE  slots'[i].active <=> Distance(i)' < outstanding'
    <2>1. Distance(i)' = Distance(i) /\ Distance(i) \in Int
      BY <1>1 DEF Distance, SlotIds
    <2>2. CASE i = tail
      BY <1>1, <1>2, <2>1, <2>2 DEF Track, Base, TypeOK
    <2>3. CASE i # tail
      <3>1. slots'[i] = slots[i]
        BY <2>3 DEF Track, Base, TypeOK
      <3>2. Distance(i) # outstanding
        BY <1>1, <1>2, <2>3 DEF Distance, SlotIds
      <3> QED
        BY <1>1, <2>1, <3>1, <3>2 DEF RingInv
    <2> QED
      BY <2>2, <2>3
  <1>4. tail' = IF head' + outstanding' < Window
                THEN head' + outstanding' ELSE head' + outstanding' - Window
    BY <1>1 DEF RingInv
  <1> QED
    BY <1>1, <1>2, <1>3, <1>4 DEF RingInv, Window, Partition

\* Every step keeps the ring and the room for the admitted launch.
LEMMA NextRing ==
  ASSUME Base, RingInv, RoomInv, [Next]_vars
  PROVE  RingInv' /\ RoomInv'
  <1> USE DEF Goto, vars
  <1>1. Window \in Nat \ {0} /\ Window' = Window
    BY WindowType DEF Window, Partition
  \* Steps that leave the ring alone.
  <1>2. ASSUME UNCHANGED ring
        PROVE  RingInv'
    BY <1>2 DEF ring, RingInv, Distance, Window, Partition
  <1>3. ASSUME UNCHANGED ring,
               \/ current' = NoLaunch
               \/ /\ current'.limit = current.limit
                  /\ current'.windowed = current.windowed
        PROVE  RingInv' /\ RoomInv'
    BY <1>1, <1>2, <1>3 DEF ring, RoomInv, NoLaunch, NoLimit
  <1>4. ASSUME NEW t \in Threads, RetireOldest(t), current' = current
        PROVE  RingInv' /\ RoomInv'
    BY <1>1, <1>4, RetireRing DEF RoomInv, RingInv
  <1>5. ASSUME NEW t \in Threads, NEW k \in Kernels, NEW h \in Handles, Begin(t, k, h)
        PROVE  RingInv' /\ RoomInv'
    <2>1. current'.limit = NoLimit /\ current'.windowed = FALSE
      BY <1>5 DEF Begin, NoLaunch
    <2> QED
      BY <1>1, <1>2, <1>5, <2>1 DEF Begin, RoomInv, NoLimit
  <1>6. ASSUME NEW t \in Threads,
               ReadOwner(t) \/ Bypass(t) \/ WaitUntilIdle(t) \/ RecheckIdle(t)
        PROVE  RingInv' /\ RoomInv'
    BY <1>3, <1>6 DEF ReadOwner, Bypass, WaitUntilIdle, RecheckIdle
  <1>7. ASSUME NEW t \in Threads,
               \/ Drain(t) \/ SurvivalRejection(t) \/ RetireForRoom(t)
               \/ DrainBoundary(t)
        PROVE  RingInv' /\ RoomInv'
    BY <1>3, <1>4, <1>7 DEF Drain, SurvivalRejection, RetireForRoom, DrainBoundary
  <1>8. ASSUME NEW t \in Threads, Predict(t)
        PROVE  RingInv' /\ RoomInv'
    <2>1. current'.limit = current.limit /\ current'.windowed = current.windowed
      BY <1>8 DEF Predict, Base, TypeOK, LaunchType
    <2> QED
      BY <1>3, <1>8, <2>1 DEF Predict
  <1>9. ASSUME NEW t \in Threads, ChooseLimit(t) \/ SurvivalAdmission(t)
        PROVE  RingInv' /\ RoomInv'
    <2>1. PICK l \in LimitType :
            l.window <= Window /\ current' = [current EXCEPT !.limit = l]
      <3>1. ASSUME NEW m \in LimitType
            PROVE  /\ [m EXCEPT !.window = 1] \in LimitType
                   /\ [m EXCEPT !.window = 1].window <= Window
        BY <1>1 DEF LimitType
      <3> QED
        BY <1>9, <3>1, LimitTypes, EffectiveLimitsType
        DEF ChooseLimit, SurvivalAdmission
    <2>2. current'.limit = l /\ current'.windowed = current.windowed
      BY <2>1 DEF Base, TypeOK, LaunchType
    <2> QED
      BY <1>1, <1>2, <1>9, <2>1, <2>2 DEF ChooseLimit, SurvivalAdmission, RoomInv, ring
  <1>10. ASSUME NEW t \in Threads, Admit(t)
         PROVE  RingInv' /\ RoomInv'
    <2>1. current'.limit = current.limit
      BY <1>10 DEF Admit, Base, TypeOK, LaunchType
    <2>2. outstanding < Window
      BY <1>1, <1>10 DEF Admit, MustWait, RoomInv, RingInv, Base, TypeOK, LaunchType,
                         LimitType
    <2> QED
      BY <1>1, <1>2, <1>10, <2>1, <2>2 DEF Admit, RoomInv, ring
  <1>11. ASSUME NEW t \in Threads, Issue(t)
         PROVE  RingInv' /\ RoomInv'
    <2>1. current'.limit = current.limit /\ current'.windowed = current.windowed
      BY <1>11 DEF Issue, Base, TypeOK, LaunchType
    <2> QED
      BY <1>3, <1>11, <2>1 DEF Issue
  <1>12. ASSUME NEW t \in Threads, IssueFails(t) \/ AfterUntracked(t) \/ AfterBypass(t)
         PROVE  RingInv' /\ RoomInv'
    BY <1>3, <1>12 DEF IssueFails, AfterUntracked, AfterBypass, Finish
  <1>13. ASSUME NEW t \in Threads, AfterTracked(t)
         PROVE  RingInv' /\ RoomInv'
    <2>1. RingInv'
      BY <1>13, TrackRing DEF AfterTracked, RoomInv
    <2>2. current' = NoLaunch
      BY <1>13 DEF AfterTracked, Finish
    <2> QED
      BY <1>1, <2>1, <2>2 DEF RoomInv, NoLaunch, NoLimit
  <1>14. ASSUME NEW t \in Threads, BeginBoundary(t) \/ EndBoundary(t)
         PROVE  RingInv' /\ RoomInv'
    BY <1>3, <1>14 DEF BeginBoundary, EndBoundary
  <1>15. ASSUME NEW q \in inflight, Complete(q)
         PROVE  RingInv' /\ RoomInv'
    BY <1>3, <1>15 DEF Complete
  <1>16. CASE HpStep
    BY <1>3, <1>16 DEF HpStep
  <1>17. CASE UNCHANGED vars
    BY <1>3, <1>17 DEF ring
  <1> QED
    BY <1>5, <1>6, <1>7, <1>8, <1>9, <1>10, <1>11, <1>12, <1>13, <1>14, <1>15, <1>16,
       <1>17
    DEF Next, Work

\* The empty ring is a correct one.
LEMMA InitRing == Init => RingInv /\ RoomInv
  BY WindowType DEF Init, RingInv, RoomInv, Distance, SlotIds, EmptySlot, NoLaunch,
                    NoLimit

\* The ring never overflows and never loses count: the slots in use are exactly
\* the outstanding ones behind the head (the asserts on slot->active).
THEOREM RingCorrect == Spec => [](RingInv /\ RoomInv)
  BY BaseCorrect, InitRing, NextRing, PTL DEF Spec
---------------------------------------------------------------------------
(* The window never forgets work. *)

\* Launch numbers are fresh; the launch between the driver and its slot is the
\* one of the thread in event_be_after_launch; a slot's stream is its handle's.
IdInv ==
  /\ current.id \in 0 .. launches
  /\ \A q \in inflight : q.id \in 1 .. launches
  /\ current.id # 0 => \E t \in Threads : pc[t] = "after"
  /\ \A t \in Threads : pc[t] = "after" =>
       \A q \in inflight : q.id = current.id =>
         q.stream = StreamOf(t, current.handle) /\ q.windowed = current.windowed
StreamInv ==
  \A i \in SlotIds : slots[i].active =>
    \E t \in Threads : slots[i].stream = StreamOf(t, slots[i].handle)

\* A launch has the slot it filled, is still between the driver and its slot, or
\* was given up, for a reason.
Covers(i, q) == /\ slots[i].active /\ slots[i].stream = q.stream
                /\ q.id = CompletionEvent(slots[i])
HeldInv ==
  \A q \in inflight : q.windowed =>
    \/ \E i \in SlotIds : Covers(i, q)
    \/ q.id = current.id
    \/ q.id \in forgotten /\ MayBeForgotten(q)

TrackInv == IdInv /\ StreamInv /\ HeldInv

\* A thread's move outside event_be_after_launch changes none of the parts.
LEMMA MoveTrack ==
  ASSUME Base, IdInv, NEW t \in Threads, pc[t] # "after", NEW label,
         label # "after", pc' = [pc EXCEPT ![t] = label],
         current'.id = current.id, current'.handle = current.handle,
         current'.windowed = current.windowed, UNCHANGED <<inflight, launches>>
  PROVE  IdInv'
  BY DEF IdInv, Base, TypeOK, StreamOf

\* Outside event_be_after_launch no launch is between the driver and its slot.
LEMMA NoneBetween ==
  ASSUME Base, IdInv, \A t \in Threads : pc[t] # "after"
  PROVE  current.id = 0 /\ \A q \in inflight : q.id # current.id
  BY DEF IdInv, Base, TypeOK

\* At most one thread is inside the launch path.
LEMMA OnlyHolder ==
  ASSUME Base, NEW t \in Threads, pc[t] # "idle"
  PROVE  \A u \in Threads : u # t => pc[u] = "idle"
  BY DEF Base, LockInv

\* The slot a retirement frees covers nothing that is still on the device, but
\* for a launch it gives up.
LEMMA RetiredIsDone ==
  ASSUME Base, RingInv, StreamInv, NEW t \in Threads, RetireOldest(t),
         NEW q \in inflight, Covers(head, q)
  PROVE  q.id \in forgotten' /\ MayBeForgotten(q)
  <1>1. head \in SlotIds /\ slots[head].active
    BY RetireRing DEF Base, TypeOK
  <1>2. ~EventComplete(slots[head])
    <2>1. q.id \in Nat
      BY DEF Base, TypeOK, InflightType
    <2> QED
      BY <2>1 DEF EventComplete, Covers
  <1>3. /\ "sync" \in Faults /\ Synchronized(t, slots[head].handle)
        /\ GiveUp(CompletionEvent(slots[head]))
    BY <1>2 DEF RetireOldest
  <1>4. q.id \in forgotten'
    BY <1>3 DEF GiveUp, Covers
  <1>5. ASSUME "fallback" \notin Faults
        PROVE  q.stream[1] \in PerThreadHandles
    <2>1. PICK u \in Threads : slots[head].stream = StreamOf(u, slots[head].handle)
      BY <1>1 DEF StreamInv
    <2>2. StreamOf(u, slots[head].handle) # StreamOf(t, slots[head].handle)
      BY <1>3, <1>5, <2>1 DEF Synchronized, StreamDrained, Covers
    <2>3. slots[head].handle \in PerThreadHandles
      BY <2>2 DEF StreamOf
    <2>4. q.stream = <<slots[head].handle, u>>
      BY <2>1, <2>3 DEF Covers, StreamOf
    <2> QED
      BY <2>3, <2>4
  <1> QED
    BY <1>3, <1>4, <1>5 DEF MayBeForgotten

\* A retirement drops no launch that is still on the device, but for the one it
\* gives up.
LEMMA RetireTrack ==
  ASSUME Base, RingInv, StreamInv, HeldInv, NEW t \in Threads,
         RetireOldest(t), current'.id = current.id, inflight' = inflight
  PROVE  StreamInv' /\ HeldInv'
  <1>1. /\ head \in SlotIds /\ slots[head].active
        /\ slots' = [slots EXCEPT ![head] = EmptySlot]
    BY RetireRing DEF Base, TypeOK, RetireOldest
  <1>2. ~EmptySlot.active
    BY DEF EmptySlot
  <1>3. StreamInv'
    BY <1>1, <1>2 DEF StreamInv, StreamOf, SlotIds, Base, TypeOK, Window, Partition
  <1>4. forgotten \subseteq forgotten'
    BY DEF RetireOldest, GiveUp
  <1>5. ASSUME NEW q \in inflight, NEW i \in SlotIds, Covers(i, q)
        PROVE  Covers(i, q)' \/ (q.id \in forgotten' /\ MayBeForgotten(q))
    <2>1. CASE i = head
      BY <1>5, <2>1, RetiredIsDone
    <2>2. CASE i # head
      <3>1. slots'[i] = slots[i]
        BY <1>1, <2>2 DEF Base, TypeOK
      <3> QED
        BY <1>5, <3>1 DEF Covers, CompletionEvent
    <2> QED
      BY <2>1, <2>2
  <1>6. SlotIds' = SlotIds
    BY DEF SlotIds, Window, Partition
  <1>7. \A q \in inflight : MayBeForgotten(q) => MayBeForgotten(q)'
    BY DEF MayBeForgotten
  <1>8. HeldInv'
    BY <1>4, <1>5, <1>6, <1>7 DEF HeldInv
  <1> QED
    BY <1>3, <1>8

\* Entering the ring, the launch takes its slot's completion event.
LEMMA AfterTrack ==
  ASSUME Base, RingInv, RoomInv, TrackInv, NEW t \in Threads, AfterTracked(t)
  PROVE  TrackInv'
  <1>1. /\ tail \in SlotIds /\ ~slots[tail].active
        /\ current \in LaunchType /\ slots[tail] \in SlotType
        /\ pc[t] = "after" /\ current' = NoLaunch
    BY TrackRing DEF Base, TypeOK, AfterTracked, RoomInv, Finish
  <1>2. /\ slots'[tail].active
        /\ slots'[tail].handle = current.handle
        /\ slots'[tail].stream = StreamOf(t, current.handle)
        /\ CompletionEvent(slots'[tail]) = current.id
    BY <1>1 DEF AfterTracked, Track, CompletionEvent, Base, TypeOK, SlotType, LaunchType
  <1>3. \A i \in SlotIds : i # tail => slots'[i] = slots[i]
    BY <1>1 DEF AfterTracked, Track, Base, TypeOK
  <1>4. SlotIds' = SlotIds
    BY DEF SlotIds, Window, Partition
  <1>5. IdInv'
    <2>1. \A u \in Threads : pc'[u] # "after"
      BY <1>1, OnlyHolder DEF AfterTracked, Finish, Goto, Base, TypeOK
    <2>2. launches' = launches /\ inflight' = inflight /\ launches \in Nat
      BY DEF AfterTracked, Base, TypeOK
    <2>3. current'.id = 0
      BY <1>1 DEF NoLaunch
    <2> QED
      BY <2>1, <2>2, <2>3 DEF IdInv, TrackInv, StreamOf
  <1>6. StreamInv'
    <2>1. ASSUME NEW i \in SlotIds, slots'[i].active
          PROVE  \E u \in Threads : slots'[i].stream = StreamOf(u, slots'[i].handle)
      BY <1>2, <1>3, <2>1 DEF TrackInv, StreamInv
    <2> QED
      BY <1>4, <2>1 DEF StreamInv, StreamOf
  <1>7. ASSUME NEW q \in inflight, q.windowed
        PROVE  \/ \E i \in SlotIds : Covers(i, q)'
               \/ q.id \in forgotten' /\ MayBeForgotten(q)'
    <2>1. CASE q.id = current.id
      <3>1. q.stream = StreamOf(t, current.handle) /\ q.id \in Nat
        BY <1>1, <2>1 DEF TrackInv, IdInv, Base, TypeOK, InflightType
      <3>2. PICK i \in SlotIds : i = tail
        BY <1>1
      <3>3. Covers(i, q)'
        BY <1>2, <2>1, <3>1, <3>2 DEF Covers, CompletionEvent
      <3> QED
        BY <3>3
    <2>2. CASE q.id \in forgotten /\ MayBeForgotten(q)
      BY <2>2 DEF AfterTracked, Track, MayBeForgotten
    <2>3. ASSUME NEW i \in SlotIds, Covers(i, q)
          PROVE  Covers(i, q)'
      <3>1. slots'[i] = slots[i]
        BY <1>1, <1>3, <2>3 DEF Covers
      <3> QED
        BY <2>3, <3>1 DEF Covers, CompletionEvent
    <2> QED
      BY <1>7, <2>1, <2>2, <2>3 DEF TrackInv, HeldInv
  <1>8. inflight' = inflight
    BY DEF AfterTracked
  <1> QED
    BY <1>4, <1>5, <1>6, <1>7, <1>8 DEF TrackInv, HeldInv

\* Every step keeps TrackInv: one case per action.
LEMMA NextTrack ==
  ASSUME Base, RingInv, RoomInv, TrackInv, [Next]_vars
  PROVE  TrackInv'
  <1> USE DEF Goto, vars
  <1>1. SlotIds' = SlotIds
    BY DEF SlotIds, Window, Partition
  \* Steps that leave the ring and the device alone.
  <1>2. ASSUME slots' = slots, forgotten' = forgotten, inflight' = inflight,
               current'.id = current.id
        PROVE  StreamInv' /\ HeldInv'
    BY <1>1, <1>2 DEF TrackInv, StreamInv, StreamOf, HeldInv, Covers, MayBeForgotten,
                      CompletionEvent
  <1>3. ASSUME NEW t \in Threads, pc[t] # "after", NEW label, label # "after",
               pc' = [pc EXCEPT ![t] = label], ledger' = ledger,
               current'.id = current.id, current'.handle = current.handle,
               current'.windowed = current.windowed, UNCHANGED <<inflight, launches>>
        PROVE  TrackInv'
    BY <1>2, <1>3, MoveTrack DEF TrackInv, ring
  <1>4. ASSUME NEW t \in Threads, RetireOldest(t), pc[t] # "after", NEW label,
               label # "after", pc' = [pc EXCEPT ![t] = label] \/ pc' = pc,
               current' = current, UNCHANGED <<inflight, launches>>
        PROVE  TrackInv'
    <2>1. IdInv'
      <3>1. CASE pc' = pc
        BY <1>4, <3>1 DEF TrackInv, IdInv, StreamOf
      <3>2. CASE pc' = [pc EXCEPT ![t] = label]
        BY <1>4, <3>2, MoveTrack DEF TrackInv
      <3> QED
        BY <1>4, <3>1, <3>2
    <2> QED
      BY <1>4, <2>1, RetireTrack DEF TrackInv
  <1>5. ASSUME NEW t \in Threads, NEW k \in Kernels, NEW h \in Handles, Begin(t, k, h)
        PROVE  TrackInv'
    <2>1. \A u \in Threads : pc[u] # "after"
      BY <1>5 DEF Begin, Base, LockInv
    <2>2. current.id = 0 /\ \A q \in inflight : q.id # current.id
      BY <2>1, NoneBetween DEF TrackInv
    <2>3. current'.id = 0
      BY <1>5 DEF Begin, NoLaunch
    <2>4. StreamInv' /\ HeldInv'
      BY <1>2, <1>5, <2>2, <2>3 DEF Begin, ring
    <2>5. IdInv'
      BY <1>5, <2>1, <2>2, <2>3 DEF Begin, TrackInv, IdInv, Base, TypeOK, StreamOf
    <2> QED
      BY <2>4, <2>5 DEF TrackInv
  <1>6. ASSUME NEW t \in Threads,
               ReadOwner(t) \/ Bypass(t) \/ WaitUntilIdle(t) \/ RecheckIdle(t)
        PROVE  TrackInv'
    BY <1>3, <1>6 DEF ReadOwner, Bypass, WaitUntilIdle, RecheckIdle
  <1>7. ASSUME NEW t \in Threads,
               \/ Drain(t) \/ SurvivalRejection(t) \/ RetireForRoom(t)
               \/ DrainBoundary(t)
        PROVE  TrackInv'
    <2>1. CASE Drain(t) \/ DrainBoundary(t) \/ RetireForRoom(t)
      BY <1>4, <2>1 DEF Drain, DrainBoundary, RetireForRoom
    <2>2. CASE SurvivalRejection(t)
      BY <1>3, <1>4, <2>2 DEF SurvivalRejection
    <2> QED
      BY <1>7, <2>1, <2>2
  <1>8. ASSUME NEW t \in Threads, Predict(t) \/ ChooseLimit(t) \/ SurvivalAdmission(t)
        PROVE  TrackInv'
    <2>1. /\ current'.id = current.id /\ current'.handle = current.handle
          /\ current'.windowed = current.windowed
      BY ZenonT(30), <1>8 DEF Predict, ChooseLimit, SurvivalAdmission, Base, TypeOK, LaunchType
    <2>2. ledger' = ledger /\ UNCHANGED <<inflight, launches>> /\ pc[t] # "after"
      BY <1>8 DEF Predict, ChooseLimit, SurvivalAdmission
    <2>3. PICK label \in Labels \ {"after"} : pc' = [pc EXCEPT ![t] = label]
      BY <1>8 DEF Predict, ChooseLimit, SurvivalAdmission, Labels
    <2> QED
      BY <1>3, <2>1, <2>2, <2>3
  <1>9. ASSUME NEW t \in Threads, Admit(t)
        PROVE  TrackInv'
    <2>1. \A u \in Threads : pc[u] # "after"
      BY <1>9, OnlyHolder DEF Admit
    <2>2. current.id = 0 /\ \A q \in inflight : q.id # current.id
      BY <2>1, NoneBetween DEF TrackInv
    <2>3. current'.id = 0 /\ current'.handle = current.handle
      BY <1>9, <2>2 DEF Admit, Base, TypeOK, LaunchType
    <2>4. StreamInv' /\ HeldInv'
      BY <1>2, <1>9, <2>2, <2>3 DEF Admit, ring
    <2>5. IdInv'
      BY <1>9, <2>1, <2>2, <2>3 DEF Admit, TrackInv, IdInv, Base, TypeOK, StreamOf
    <2> QED
      BY <2>4, <2>5 DEF TrackInv
  <1>10. ASSUME NEW t \in Threads, Issue(t)
         PROVE  TrackInv'
    <2>1. \A u \in Threads : u # t => pc[u] = "idle"
      BY <1>10, OnlyHolder DEF Issue
    <2>2. current.id = 0 /\ \A q \in inflight : q.id # current.id
      BY <1>10, <2>1, NoneBetween DEF Issue, TrackInv
    <2>3. /\ current'.id = launches + 1 /\ current'.handle = current.handle
          /\ current'.windowed = current.windowed
          /\ launches' = launches + 1 /\ launches \in Nat /\ slots' = slots
          /\ forgotten' = forgotten
      BY <1>10 DEF Issue, Base, TypeOK, LaunchType, ring
    <2>4. \A q \in inflight : q.id \in 1 .. launches
      BY DEF TrackInv, IdInv
    <2>5. PICK new \in inflight' :
            /\ inflight' = inflight \cup {new}
            /\ new.id = launches + 1 /\ new.stream = StreamOf(t, current.handle)
            /\ new.windowed = current.windowed
      <3> DEFINE r == [id |-> launches + 1, stream |-> StreamOf(t, current.handle),
                       windowed |-> current.windowed,
                       predicted |-> current.predicted,
                       blocks |-> BlocksOf[current.kernel]]
      <3>1. inflight' = inflight \cup {r}
        BY <1>10 DEF Issue
      <3>2. /\ r.id = launches + 1 /\ r.stream = StreamOf(t, current.handle)
            /\ r.windowed = current.windowed
        OBVIOUS
      <3> HIDE DEF r
      <3> QED
        BY <3>1, <3>2
    <2>6. IdInv'
      BY <1>10, <2>1, <2>3, <2>4, <2>5 DEF Issue, IdInv, Base, TypeOK, StreamOf
    <2>7. StreamInv'
      BY <1>1, <2>3 DEF TrackInv, StreamInv, StreamOf
    <2>8. HeldInv'
      BY <1>1, <2>2, <2>3, <2>5
      DEF TrackInv, HeldInv, Covers, MayBeForgotten, CompletionEvent
    <2> QED
      BY <2>6, <2>7, <2>8 DEF TrackInv
  \* The launch's globals are reset without a slot: no admitted launch is lost,
  \* unless the wait for it failed.
  <1>11. ASSUME NEW t \in Threads, IssueFails(t) \/ AfterUntracked(t) \/ AfterBypass(t)
         PROVE  TrackInv'
    <2>1. /\ current' = NoLaunch /\ slots' = slots
          /\ UNCHANGED <<inflight, launches>> /\ pc' = [pc EXCEPT ![t] = "idle"]
          /\ pc[t] # "idle"
      BY <1>11 DEF IssueFails, AfterUntracked, AfterBypass, Finish, ring
    <2>2. current'.id = 0
      BY <2>1 DEF NoLaunch
    <2>3. ASSUME NEW q \in inflight, q.windowed, q.id = current.id
          PROVE  q.id \in forgotten' /\ MayBeForgotten(q)
      <3>1. CASE IssueFails(t)
        <4>1. \A u \in Threads : pc[u] # "after"
          BY <3>1, OnlyHolder DEF IssueFails
        <4> QED
          BY <2>3, <4>1, NoneBetween DEF TrackInv
      <3>2. CASE AfterUntracked(t)
        BY <2>3, <3>2 DEF AfterUntracked, Synchronized, GiveUp, MayBeForgotten, TrackInv,
                          IdInv, StreamDrained
      <3>3. CASE AfterBypass(t)
        BY <2>3, <3>3 DEF AfterBypass, TrackInv, IdInv
      <3> QED
        BY <1>11, <3>1, <3>2, <3>3
    <2>4. \A u \in Threads : pc'[u] # "after"
      BY <2>1, OnlyHolder DEF Base, TypeOK
    <2>5. IdInv'
      BY <2>1, <2>2, <2>4 DEF TrackInv, IdInv, Base, TypeOK, StreamOf
    <2>6. StreamInv'
      BY <1>1, <2>1 DEF TrackInv, StreamInv, StreamOf
    <2>7. HeldInv'
      <3>1. forgotten \subseteq forgotten'
        BY <1>11 DEF IssueFails, AfterUntracked, AfterBypass, GiveUp, ring
      <3> QED
        BY <1>1, <2>1, <2>3, <3>1
        DEF TrackInv, HeldInv, Covers, MayBeForgotten, CompletionEvent
    <2> QED
      BY <2>5, <2>6, <2>7 DEF TrackInv
  <1>12. ASSUME NEW t \in Threads, AfterTracked(t)
         PROVE  TrackInv'
    BY <1>12, AfterTrack
  <1>13. ASSUME NEW t \in Threads, BeginBoundary(t) \/ EndBoundary(t)
         PROVE  TrackInv'
    BY <1>3, <1>13 DEF BeginBoundary, EndBoundary
  <1>14. ASSUME NEW q \in inflight, Complete(q)
         PROVE  TrackInv'
    <2>1. IdInv'
      BY <1>14 DEF Complete, TrackInv, IdInv, StreamOf
    <2>2. StreamInv'
      BY <1>1, <1>14 DEF Complete, ring, TrackInv, StreamInv, StreamOf
    <2>3. HeldInv'
      <3>1. /\ inflight' \subseteq inflight /\ slots' = slots /\ current' = current
            /\ forgotten' = forgotten \cap {r.id : r \in inflight'}
        BY <1>14 DEF Complete, ring
      <3>2. \A i, r : Covers(i, r) => Covers(i, r)'
        BY <3>1 DEF Covers, CompletionEvent
      <3>3. \A r \in inflight' : r.id \in forgotten => r.id \in forgotten'
        BY <3>1
      <3> QED
        BY <1>1, <3>1, <3>2, <3>3 DEF TrackInv, HeldInv, MayBeForgotten
    <2> QED
      BY <2>1, <2>2, <2>3 DEF TrackInv
  <1>15. CASE HpStep \/ UNCHANGED vars
    <2>1. UNCHANGED <<pc, current, ledger, inflight, launches>>
      BY <1>15 DEF HpStep, vars, ring
    <2>2. IdInv'
      BY <2>1 DEF TrackInv, IdInv, StreamOf
    <2>3. StreamInv' /\ HeldInv'
      BY <1>2, <2>1 DEF ring
    <2> QED
      BY <2>2, <2>3 DEF TrackInv
  <1> QED
    BY <1>5, <1>6, <1>7, <1>8, <1>9, <1>10, <1>11, <1>12, <1>13, <1>14, <1>15
    DEF Next, Work

LEMMA TrackCorrect == Spec => []TrackInv
  <1>1. Init => TrackInv
    BY DEF Init, TrackInv, IdInv, StreamInv, HeldInv, NoLaunch, EmptySlot
  <1> QED
    BY <1>1, BaseCorrect, RingCorrect, NextTrack, PTL DEF Spec

\* Whatever the policy, the streams, the failures and the order in which the
\* device completes: an admitted launch on the device is waited for by a slot
\* of the window, so retiring the window (at a boundary, or when the HP is gone)
\* waits for it, unless the waits for it failed.  A failed wait for the event
\* alone loses a launch on a per-thread default stream only.
THEOREM NothingForgotten == Spec => []WorkIsTracked
  <1>1. ASSUME Base, TrackInv
        PROVE  WorkIsTracked
    <2>1. ASSUME NEW q \in inflight, NEW i \in SlotIds, Covers(i, q)
          PROVE  q.id <= CompletionEvent(slots[i])
      BY <1>1, <2>1 DEF Covers, Base, TypeOK, InflightType
    <2> QED
      BY <1>1, <2>1 DEF TrackInv, HeldInv, Covers, WorkIsTracked
  <1> QED
    BY <1>1, BaseCorrect, TrackCorrect, PTL
---------------------------------------------------------------------------
(* The ring's totals and the profiler's pending samples. *)

\* An index less than twice around the ring wraps at most once.
LEMMA WrapOnce ==
  ASSUME NEW a \in 0 .. 2 * Window - 1
  PROVE  a % Window = IF a < Window THEN a ELSE a - Window
  <1>1. Window \in Nat \ {0}
    BY WindowType
  <1>2. ASSUME NEW W \in Nat \ {0}, NEW b \in 0 .. 2 * W - 1
        PROVE  b % W = IF b < W THEN b ELSE b - W
    <2>1. CASE b < W
      BY <2>1
    <2>2. CASE b >= W
      BY <2>2
    <2> QED
      BY <2>1, <2>2
  <1> QED
    BY <1>1, <1>2

\* The slots of the ring are finitely many, and so are the active ones.
LEMMA SlotsFinite ==
  IsFiniteSet(SlotIds) /\ IsFiniteSet(ActiveSlots) /\ ActiveSlots \subseteq SlotIds
  <1>1. IsFiniteSet(SlotIds)
    BY WindowType, FS_Interval DEF SlotIds
  <1> QED
    BY <1>1, FS_Subset DEF ActiveSlots

\* The totals are what the active slots committed, and their number is the
\* number of outstanding launches.
SumInv ==
  /\ Cardinality(ActiveSlots) = outstanding
  /\ outBlocks = SumFunctionOnSet(BlocksIn, ActiveSlots)
  /\ outPredicted = SumFunctionOnSet(PredictedIn, ActiveSlots)

\* What is committed is a number of blocks, and a time, for every slot.
LEMMA CommittedType ==
  ASSUME TypeOK
  PROVE  \A i \in SlotIds : /\ BlocksIn[i] = slots[i].blocks /\ BlocksIn[i] \in Nat
                            /\ PredictedIn[i] = slots[i].predicted
                            /\ PredictedIn[i] \in Nat
  BY DEF TypeOK, SlotType, BlocksIn, PredictedIn

\* Steps that leave the slots alone leave what they committed alone.
LEMMA SameSlots ==
  ASSUME slots' = slots
  PROVE  /\ SlotIds' = SlotIds /\ ActiveSlots' = ActiveSlots
         /\ BlocksIn' = BlocksIn /\ PredictedIn' = PredictedIn
  BY DEF SlotIds, Window, Partition, ActiveSlots, BlocksIn, PredictedIn

\* A retirement takes the head's commitment out of the totals.
LEMMA RetireSum ==
  ASSUME Base, RingInv, SumInv, NEW t \in Threads, RetireOldest(t)
  PROVE  SumInv' /\ ActiveSlots' = ActiveSlots \ {head} /\ head \in ActiveSlots
  <1>1. SlotIds' = SlotIds
    BY DEF SlotIds, Window, Partition
  <1>2. /\ head \in ActiveSlots /\ outstanding' = outstanding - 1
        /\ slots' = [slots EXCEPT ![head] = EmptySlot]
        /\ outBlocks' = outBlocks - slots[head].blocks
        /\ outPredicted' = outPredicted - slots[head].predicted
    BY RetireRing DEF Base, TypeOK, RetireOldest, ActiveSlots
  <1>3. \A i \in SlotIds : i # head => slots'[i] = slots[i]
    BY <1>2 DEF Base, TypeOK
  <1>4. ~slots'[head].active
    BY <1>2 DEF EmptySlot, Base, TypeOK
  <1>5. ActiveSlots' = ActiveSlots \ {head}
    BY <1>1, <1>3, <1>4 DEF ActiveSlots
  <1>6. \A i \in ActiveSlots \ {head} :
          BlocksIn'[i] = BlocksIn[i] /\ PredictedIn'[i] = PredictedIn[i]
    BY <1>1, <1>3 DEF ActiveSlots, BlocksIn, PredictedIn
  <1>7. IsFiniteSet(ActiveSlots) /\ IsFiniteSet(ActiveSlots \ {head})
    BY SlotsFinite, FS_Subset
  <1>8. \A i \in ActiveSlots : BlocksIn[i] \in Int /\ PredictedIn[i] \in Int
    BY CommittedType DEF Base, ActiveSlots
  <1>9. /\ SumFunctionOnSet(BlocksIn', ActiveSlots \ {head})
             = SumFunctionOnSet(BlocksIn, ActiveSlots \ {head})
        /\ SumFunctionOnSet(PredictedIn', ActiveSlots \ {head})
             = SumFunctionOnSet(PredictedIn, ActiveSlots \ {head})
    BY <1>6, <1>7, <1>8, SumSame
  <1>10. /\ SumFunctionOnSet(BlocksIn, ActiveSlots)
              = BlocksIn[head] + SumFunctionOnSet(BlocksIn, ActiveSlots \ {head})
         /\ SumFunctionOnSet(PredictedIn, ActiveSlots)
              = PredictedIn[head] + SumFunctionOnSet(PredictedIn, ActiveSlots \ {head})
    BY <1>2, <1>7, <1>8, SumRemove
  <1>11. /\ SumFunctionOnSet(BlocksIn, ActiveSlots \ {head}) \in Int
         /\ SumFunctionOnSet(PredictedIn, ActiveSlots \ {head}) \in Int
         /\ BlocksIn[head] = slots[head].blocks
         /\ PredictedIn[head] = slots[head].predicted
         /\ BlocksIn[head] \in Int /\ PredictedIn[head] \in Int
    <2>1. SumFunctionOnSet(BlocksIn, ActiveSlots \ {head}) \in Int
      BY <1>7, <1>8, SumType
    <2>2. SumFunctionOnSet(PredictedIn, ActiveSlots \ {head}) \in Int
      BY <1>7, <1>8, SumType
    <2> QED
      BY <1>2, <2>1, <2>2, CommittedType DEF Base, ActiveSlots
  <1>12. Cardinality(ActiveSlots \ {head}) = Cardinality(ActiveSlots) - 1
    BY <1>2, <1>7, FS_RemoveElement
  <1> QED
    BY <1>2, <1>5, <1>9, <1>10, <1>11, <1>12 DEF SumInv

\* A tracked launch adds its commitment.
LEMMA TrackSum ==
  ASSUME Base, RingInv, SumInv, outstanding < Window, NEW t \in Threads, Track(t),
         current.kernel \in Kernels
  PROVE  SumInv' /\ ActiveSlots' = ActiveSlots \cup {tail} /\ tail \notin ActiveSlots
  <1>1. SlotIds' = SlotIds
    BY DEF SlotIds, Window, Partition
  <1>2. /\ tail \in SlotIds /\ tail \notin ActiveSlots /\ outstanding' = outstanding + 1
        /\ outBlocks' = outBlocks + BlocksOf[current.kernel]
        /\ outPredicted' = outPredicted + current.predicted
    BY TrackRing DEF Base, TypeOK, Track, ActiveSlots
  <1>3. /\ slots'[tail].active /\ slots'[tail].blocks = BlocksOf[current.kernel]
        /\ slots'[tail].predicted = current.predicted
        /\ \A i \in SlotIds : i # tail => slots'[i] = slots[i]
    BY <1>2 DEF Base, TypeOK, Track
  <1>4. ActiveSlots' = ActiveSlots \cup {tail}
    BY <1>1, <1>2, <1>3 DEF ActiveSlots
  <1>5. \A i \in ActiveSlots :
          BlocksIn'[i] = BlocksIn[i] /\ PredictedIn'[i] = PredictedIn[i]
    BY <1>1, <1>2, <1>3 DEF ActiveSlots, BlocksIn, PredictedIn
  <1>6. IsFiniteSet(ActiveSlots)
    BY SlotsFinite
  <1>7. \A i \in ActiveSlots : BlocksIn[i] \in Int /\ PredictedIn[i] \in Int
    BY CommittedType DEF Base, ActiveSlots
  <1>8. /\ BlocksIn'[tail] = BlocksOf[current.kernel]
        /\ PredictedIn'[tail] = current.predicted
        /\ BlocksIn'[tail] \in Int /\ PredictedIn'[tail] \in Int
    BY <1>1, <1>2, <1>3 DEF Base, TypeOK, LaunchType, BlocksIn, PredictedIn
  <1>9. /\ SumFunctionOnSet(BlocksIn', ActiveSlots) = SumFunctionOnSet(BlocksIn, ActiveSlots)
        /\ SumFunctionOnSet(PredictedIn', ActiveSlots)
             = SumFunctionOnSet(PredictedIn, ActiveSlots)
    BY <1>5, <1>6, <1>7, SumSame
  <1>10. SumFunctionOnSet(BlocksIn', ActiveSlots \cup {tail})
           = BlocksIn'[tail] + SumFunctionOnSet(BlocksIn', ActiveSlots)
    <2>1. \A i \in ActiveSlots \cup {tail} : BlocksIn'[i] \in Int
      BY <1>5, <1>7, <1>8
    <2> QED
      BY <1>2, <1>6, <2>1, SumAdd
  <1>11. SumFunctionOnSet(PredictedIn', ActiveSlots \cup {tail})
           = PredictedIn'[tail] + SumFunctionOnSet(PredictedIn', ActiveSlots)
    <2>1. \A i \in ActiveSlots \cup {tail} : PredictedIn'[i] \in Int
      BY <1>5, <1>7, <1>8
    <2> QED
      BY <1>2, <1>6, <2>1, SumAdd
  <1>12. Cardinality(ActiveSlots \cup {tail}) = Cardinality(ActiveSlots) + 1
    BY <1>2, <1>6, FS_AddElement
  <1>13. outBlocks \in Int /\ outPredicted \in Int
    BY DEF Base, TypeOK
  <1> QED
    BY <1>2, <1>4, <1>8, <1>9, <1>10, <1>11, <1>12, <1>13 DEF SumInv

\* Every step keeps the totals: only a retirement and a tracked launch touch
\* them.
LEMMA NextSum ==
  ASSUME Base, RingInv, RoomInv, SumInv, [Next]_vars
  PROVE  SumInv'
  <1> USE DEF vars
  <1>1. ASSUME UNCHANGED ring
        PROVE  SumInv'
    BY <1>1, SameSlots DEF ring, SumInv
  <1>2. ASSUME NEW t \in Threads, RetireOldest(t)
        PROVE  SumInv'
    BY <1>2, RetireSum
  <1>3. ASSUME NEW t \in Threads, Work(t)
        PROVE  SumInv'
    <2>1. CASE AfterTracked(t)
      <3>1. outstanding < Window /\ current.kernel \in Kernels /\ Track(t)
        BY <2>1 DEF AfterTracked, RoomInv, Base, CallInv
      <3> QED
        BY <3>1, TrackSum
    <2>2. CASE ~AfterTracked(t)
      <3>1. UNCHANGED ring \/ RetireOldest(t)
        BY <1>3, <2>2 DEF Work, ReadOwner, Drain, Bypass, WaitUntilIdle, Predict,
          ChooseLimit, RecheckIdle, SurvivalAdmission, SurvivalRejection,
          RetireForRoom, Admit, Issue, IssueFails, AfterUntracked, AfterBypass,
          DrainBoundary, EndBoundary
      <3> QED
        BY <1>1, <1>2, <3>1
    <2> QED
      BY <2>1, <2>2
  <1>4. CASE \E t \in Threads : \/ \E k \in Kernels, h \in Handles : Begin(t, k, h)
                                \/ BeginBoundary(t)
    BY <1>1, <1>4 DEF Begin, BeginBoundary
  <1>5. CASE HpStep \/ \E q \in inflight : Complete(q)
    BY <1>1, <1>5 DEF HpStep, Complete
  <1>6. CASE UNCHANGED vars
    BY <1>1, <1>6 DEF ring
  <1> QED
    BY <1>3, <1>4, <1>5, <1>6 DEF Next

\* The empty ring has committed nothing.
LEMMA InitSum == Init => SumInv
  <1> SUFFICES ASSUME Init PROVE SumInv
    OBVIOUS
  <1>1. ActiveSlots = {} /\ outstanding = 0 /\ outBlocks = 0 /\ outPredicted = 0
    BY DEF Init, ActiveSlots, EmptySlot
  <1> QED
    BY <1>1, SumEmpty, FS_EmptySet DEF SumInv

LEMMA SumCorrect == Spec => []SumInv
  BY BaseCorrect, RingCorrect, InitSum, NextSum, PTL DEF Spec

\* With that the ring and its totals agree.
LEMMA Accounting ==
  ASSUME Base, RingInv, SumInv
  PROVE  RingAccounting
  <1>1. /\ Window \in Nat \ {0} /\ head \in 0 .. Window - 1
        /\ outstanding \in 0 .. Window
    BY WindowType DEF Base, TypeOK, SlotIds, RingInv
  <1>2. \A n \in 0 .. outstanding :
          (head + n) % Window = IF head + n < Window THEN head + n ELSE head + n - Window
    BY <1>1, WrapOnce
  <1>3. tail = (head + outstanding) % Window
    BY <1>1, <1>2 DEF RingInv
  <1>4. ASSUME NEW i \in ActiveSlots
        PROVE  i \in {(head + n) % Window : n \in 0 .. outstanding - 1}
    <2>1. i \in 0 .. Window - 1 /\ Distance(i) < outstanding
      BY DEF ActiveSlots, RingInv, SlotIds
    <2>2. Distance(i) \in 0 .. outstanding - 1
      BY <1>1, <2>1 DEF Distance
    <2>3. (head + Distance(i)) % Window = i
      BY <1>1, <1>2, <2>1, <2>2 DEF Distance
    <2> QED
      BY <2>2, <2>3
  <1>5. ASSUME NEW n \in 0 .. outstanding - 1
        PROVE  (head + n) % Window \in ActiveSlots
    <2> DEFINE i == (head + n) % Window
    <2>1. i = IF head + n < Window THEN head + n ELSE head + n - Window
      BY <1>1, <1>2
    <2>2. i \in SlotIds /\ Distance(i) = n
      BY <1>1, <2>1 DEF SlotIds, Distance
    <2> QED
      BY <1>1, <2>2 DEF ActiveSlots, RingInv
  <1> QED
    BY <1>3, <1>4, <1>5 DEF RingAccounting, SumInv

\* Whatever the configuration and however long the process runs, the ring of
\* launches in flight and its three counters agree: what the release build no
\* longer asserts (be_intercept.c, event_be_retire_oldest_locked).
THEOREM AccountingHolds == Spec => []RingAccounting
  BY Accounting, BaseCorrect, RingCorrect, SumCorrect, PTL
---------------------------------------------------------------------------
(* The profiler's samples. *)

\* A launch is admitted, and carries a timing pair, from its admission to the
\* end of event_be_after_launch only.
StageInv ==
  /\ current.windowed => \E t \in Threads : pc[t] \in {"issue", "after"}
  /\ current.timing => current.windowed

\* The active slots that hold a timing pair of a signature, and whether the
\* launch being made does.
TimingSlots(k) == {i \in ActiveSlots : slots[i].timing /\ slots[i].kernel = k}
TimingNow(k)   == IF current.timing /\ current.kernel = k THEN 1 ELSE 0

SampleInv ==
  /\ \A i \in ActiveSlots : slots[i].kernel \in Kernels
  /\ \A k \in Kernels :
       /\ profiles[k].samples + profiles[k].pending <= ProfileSamples
       /\ profiles[k].pending = Cardinality(TimingSlots(k)) + TimingNow(k)

\* Outside the two stages no launch is admitted or timed.
LEMMA NotStaged ==
  ASSUME Base, StageInv, NEW t \in Threads, pc[t] \notin {"idle", "issue", "after"}
  PROVE  ~current.windowed /\ ~current.timing
  BY OnlyHolder DEF StageInv

LEMMA NotStagedIdle ==
  ASSUME Base, StageInv, lock = NoThread
  PROVE  ~current.windowed /\ ~current.timing
  BY DEF StageInv, Base, LockInv

\* Every step keeps StageInv.
LEMMA NextStage ==
  ASSUME Base, StageInv, [Next]_vars
  PROVE  StageInv'
  <1> USE DEF Goto, vars
  <1>1. ASSUME current' = NoLaunch
        PROVE  StageInv'
    BY <1>1 DEF StageInv, NoLaunch
  <1>2. ASSUME ~current.windowed, ~current.timing,
               current'.windowed = current.windowed, current'.timing = current.timing
        PROVE  StageInv'
    BY <1>2 DEF StageInv
  <1>3. ASSUME NEW t \in Threads, Work(t)
        PROVE  StageInv'
    <2>1. CASE IssueFails(t) \/ AfterTracked(t) \/ AfterUntracked(t) \/ AfterBypass(t)
      BY <1>1, <2>1 DEF IssueFails, AfterTracked, AfterUntracked, AfterBypass, Finish
    <2>2. CASE Issue(t)
      <3>1. /\ current'.windowed = current.windowed /\ current'.timing = current.timing
            /\ pc'[t] = "after"
        BY <2>2 DEF Issue, Base, TypeOK, LaunchType
      <3> QED
        BY <3>1 DEF StageInv
    <2>3. CASE Admit(t)
      <3>1. ~current.timing
        BY <2>3, NotStaged DEF Admit
      <3>2. current'.windowed /\ pc'[t] = "issue"
        BY <2>3 DEF Admit, Base, TypeOK, LaunchType
      <3> QED
        BY <3>2 DEF StageInv
    <2>4. CASE \/ ReadOwner(t) \/ Drain(t) \/ Bypass(t) \/ WaitUntilIdle(t) \/ Predict(t)
               \/ ChooseLimit(t) \/ RecheckIdle(t) \/ SurvivalAdmission(t)
               \/ SurvivalRejection(t) \/ RetireForRoom(t) \/ DrainBoundary(t)
               \/ EndBoundary(t)
      <3>1. pc[t] \notin {"idle", "issue", "after"}
        BY <2>4 DEF ReadOwner, Drain, Bypass, WaitUntilIdle, Predict, ChooseLimit,
          RecheckIdle, SurvivalAdmission, SurvivalRejection, RetireForRoom,
          DrainBoundary, EndBoundary
      <3>2. current'.windowed = current.windowed /\ current'.timing = current.timing
        BY <2>4 DEF ReadOwner, Drain, Bypass, WaitUntilIdle, Predict, ChooseLimit,
          RecheckIdle, SurvivalAdmission, SurvivalRejection, RetireForRoom,
          DrainBoundary, EndBoundary, Base, TypeOK, LaunchType
      <3> QED
        BY <1>2, <3>1, <3>2, NotStaged
    <2> QED
      BY <1>3, <2>1, <2>2, <2>3, <2>4 DEF Work
  <1>4. ASSUME NEW t \in Threads, NEW k \in Kernels, NEW h \in Handles, Begin(t, k, h)
        PROVE  StageInv'
    BY <1>4 DEF Begin, StageInv, NoLaunch
  <1>5. ASSUME NEW t \in Threads, BeginBoundary(t)
        PROVE  StageInv'
    BY <1>2, <1>5, NotStagedIdle DEF BeginBoundary
  <1>6. CASE HpStep \/ (\E q \in inflight : Complete(q)) \/ UNCHANGED vars
    BY <1>6 DEF HpStep, Complete, StageInv
  <1> QED
    BY <1>3, <1>4, <1>5, <1>6 DEF Next

\* What a launch that is timed no longer has pending, and what one slot more
\* or less does to the slots of a signature.
LEMMA TimingFinite ==
  ASSUME NEW k
  PROVE  IsFiniteSet(TimingSlots(k)) /\ Cardinality(TimingSlots(k)) \in Nat
  <1>1. IsFiniteSet(TimingSlots(k))
    BY SlotsFinite, FS_Subset DEF TimingSlots
  <1> QED
    BY <1>1, FS_CardinalityType

\* Steps that keep the slots, the pending samples and the launch's timing.
LEMMA SameSamples ==
  ASSUME SampleInv, slots' = slots,
         \A k \in Kernels : /\ profiles'[k].samples = profiles[k].samples
                            /\ profiles'[k].pending = profiles[k].pending
                            /\ TimingNow(k)' = TimingNow(k)
  PROVE  SampleInv'
  <1>1. ActiveSlots' = ActiveSlots
    BY SameSlots
  <1>2. \A k \in Kernels : TimingSlots(k)' = TimingSlots(k)
    BY <1>1 DEF TimingSlots
  <1> QED
    BY <1>1, <1>2 DEF SampleInv

\* A retirement gives the pending sample of its slot back, whatever became of
\* the measurement.
LEMMA RetireSamples ==
  ASSUME Base, RingInv, SumInv, SampleInv, NEW t \in Threads, RetireOldest(t),
         \A k \in Kernels : TimingNow(k)' = TimingNow(k)
  PROVE  SampleInv'
  <1> DEFINE slot == slots[head]
  <1>1. /\ ActiveSlots' = ActiveSlots \ {head} /\ head \in ActiveSlots
        /\ slots' = [slots EXCEPT ![head] = EmptySlot]
    BY RetireSum DEF RetireOldest
  <1>2. slot.kernel \in Kernels
    BY <1>1 DEF SampleInv
  <1>3. \A i \in ActiveSlots \ {head} : slots'[i] = slots[i]
    BY <1>1 DEF Base, TypeOK, ActiveSlots
  <1>4. \A k \in Kernels : TimingSlots(k)' = TimingSlots(k) \ {head}
    BY <1>1, <1>3 DEF TimingSlots
  <1>5. \A k \in Kernels : head \in TimingSlots(k) <=> slot.timing /\ slot.kernel = k
    BY <1>1 DEF TimingSlots
  <1>6. \A k \in Kernels : profiles[k] \in ProfileType
    BY DEF Base, TypeOK
  <1>7. ASSUME NEW k \in Kernels, ~(slot.timing /\ slot.kernel = k)
        PROVE  profiles'[k] = profiles[k] /\ TimingSlots(k)' = TimingSlots(k)
    <2>1. profiles'[k] = profiles[k]
      BY <1>2, <1>7 DEF RetireOldest, Base, TypeOK
    <2> QED
      BY <1>4, <1>5, <1>7, <2>1
  <1>8. ASSUME NEW k \in Kernels, slot.timing, slot.kernel = k
        PROVE  /\ profiles'[k].pending = profiles[k].pending - 1
               /\ profiles'[k].samples \in {profiles[k].samples, profiles[k].samples + 1}
               /\ Cardinality(TimingSlots(k)') = Cardinality(TimingSlots(k)) - 1
    <2>1. /\ TimingSlots(k)' = TimingSlots(k) \ {head} /\ IsFiniteSet(TimingSlots(k))
          /\ Cardinality(TimingSlots(k) \ {head}) = Cardinality(TimingSlots(k)) - 1
      <3>1. head \in TimingSlots(k) /\ IsFiniteSet(TimingSlots(k))
        BY <1>5, <1>8, TimingFinite
      <3> QED
        BY <1>4, <3>1, FS_RemoveElement
    <2>2. Cardinality(TimingSlots(k)) >= 1
      <3>1. IsFiniteSet(TimingSlots(k) \ {head})
        BY <2>1, FS_Subset
      <3>2. Cardinality(TimingSlots(k) \ {head}) \in Nat /\ Cardinality(TimingSlots(k)) \in Nat
        BY <3>1, TimingFinite, FS_CardinalityType
      <3> QED
        BY <2>1, <3>2
    <2>3. profiles[k].pending > 0
      BY <2>2, TimingFinite DEF SampleInv, TimingNow
    <2>4. Released(profiles[k]).pending = profiles[k].pending - 1
          /\ Released(profiles[k]).samples = profiles[k].samples
      BY <1>6, <2>3 DEF Released, ProfileType
    <2>5. \A d \in Durations :
            /\ Updated(Released(profiles[k]), d).pending = Released(profiles[k]).pending
            /\ Updated(Released(profiles[k]), d).samples
                 = Released(profiles[k]).samples + 1
      <3>1. Released(profiles[k]) \in ProfileType
        BY <1>6, ProfileSteps
      <3> QED
        BY <3>1 DEF Updated, ProfileType
    <2>6. \/ profiles'[k] = Released(profiles[k])
          \/ \E d \in Durations : profiles'[k] = Updated(Released(profiles[k]), d)
      BY <1>8 DEF RetireOldest, Base, TypeOK
    <2> QED
      BY <2>1, <2>4, <2>5, <2>6
  <1>9. ASSUME NEW k \in Kernels
        PROVE  /\ profiles'[k].samples + profiles'[k].pending <= ProfileSamples
               /\ profiles'[k].pending = Cardinality(TimingSlots(k)') + TimingNow(k)'
    <2>1. /\ profiles[k].samples \in Nat /\ profiles[k].pending \in Nat
          /\ Cardinality(TimingSlots(k)) \in Nat /\ TimingNow(k) \in Nat
          /\ profiles[k].samples + profiles[k].pending <= ProfileSamples
          /\ profiles[k].pending = Cardinality(TimingSlots(k)) + TimingNow(k)
      BY <1>6, TimingFinite DEF ProfileType, TimingNow, SampleInv
    <2>2. CASE slot.timing /\ slot.kernel = k
      BY <1>8, <2>1, <2>2
    <2>3. CASE ~(slot.timing /\ slot.kernel = k)
      BY <1>7, <2>1, <2>3
    <2> QED
      BY <2>2, <2>3
  <1>10. \A i \in ActiveSlots' : slots'[i].kernel \in Kernels
    BY <1>1, <1>3 DEF SampleInv
  <1> QED
    BY <1>9, <1>10 DEF SampleInv

\* A launch that is timed is admitted, so its signature has a sample pending.
LEMMA OwnSample ==
  ASSUME Base, SampleInv, current.timing, current.kernel \in Kernels
  PROVE  profiles[current.kernel].pending > 0
  BY TimingFinite DEF SampleInv, TimingNow

\* A launch gives up the sample it had pending, if it had one.
LEMMA GiveUpSamples ==
  ASSUME Base, SampleInv, slots' = slots, current' = NoLaunch,
         current.kernel \in Kernels,
         profiles' = IF current.timing
                     THEN [profiles EXCEPT ![current.kernel] = Released(@)]
                     ELSE profiles
  PROVE  SampleInv'
  <1>1. ActiveSlots' = ActiveSlots /\ \A k \in Kernels : TimingSlots(k)' = TimingSlots(k)
    BY SameSlots DEF TimingSlots
  <1>2. \A k \in Kernels : TimingNow(k)' = 0
    BY DEF TimingNow, NoLaunch
  <1>3. \A k \in Kernels : profiles[k] \in ProfileType
    BY DEF Base, TypeOK
  <1>4. ASSUME NEW k \in Kernels
        PROVE  /\ profiles'[k].samples + profiles'[k].pending <= ProfileSamples
               /\ profiles'[k].pending = Cardinality(TimingSlots(k))
    <2>1. /\ profiles[k].samples \in Nat /\ profiles[k].pending \in Nat
          /\ Cardinality(TimingSlots(k)) \in Nat
          /\ profiles[k].samples + profiles[k].pending <= ProfileSamples
          /\ profiles[k].pending = Cardinality(TimingSlots(k)) + TimingNow(k)
      BY <1>3, TimingFinite DEF ProfileType, SampleInv
    <2>2. CASE current.timing /\ current.kernel = k
      <3>1. TimingNow(k) = 1
        BY <2>2 DEF TimingNow
      <3>2. Released(profiles[k]).pending = profiles[k].pending - 1
            /\ Released(profiles[k]).samples = profiles[k].samples
        BY <1>3, <2>1, <3>1 DEF Released, ProfileType
      <3>3. profiles'[k] = Released(profiles[k])
        BY <2>2 DEF Base, TypeOK
      <3> QED
        BY <2>1, <3>1, <3>2, <3>3
    <2>3. CASE ~(current.timing /\ current.kernel = k)
      <3>1. TimingNow(k) = 0 /\ profiles'[k] = profiles[k]
        BY <2>3 DEF TimingNow, Base, TypeOK
      <3> QED
        BY <2>1, <3>1
    <2> QED
      BY <2>2, <2>3
  <1> QED
    BY <1>1, <1>2, <1>4, TimingFinite DEF SampleInv

\* A launch that enters the ring hands its pending sample to its slot.
LEMMA TrackSamples ==
  ASSUME Base, RingInv, RoomInv, SumInv, SampleInv, NEW t \in Threads, AfterTracked(t)
  PROVE  SampleInv'
  <1>1. /\ outstanding < Window /\ current.kernel \in Kernels /\ Track(t)
        /\ current' = NoLaunch /\ profiles' = profiles
    BY DEF AfterTracked, Finish, RoomInv, Base, CallInv
  <1>2. ActiveSlots' = ActiveSlots \cup {tail} /\ tail \notin ActiveSlots
    BY <1>1, TrackSum
  <1>3. /\ slots'[tail].timing = current.timing /\ slots'[tail].kernel = current.kernel
        /\ \A i \in ActiveSlots : slots'[i] = slots[i]
    BY <1>1, <1>2 DEF Track, Base, TypeOK, ActiveSlots
  <1>4. \A i \in ActiveSlots' : slots'[i].kernel \in Kernels
    BY <1>1, <1>2, <1>3 DEF SampleInv
  <1>5. \A k \in Kernels : TimingNow(k)' = 0
    BY <1>1 DEF TimingNow, NoLaunch
  <1>6. ASSUME NEW k \in Kernels
        PROVE  Cardinality(TimingSlots(k)') = Cardinality(TimingSlots(k)) + TimingNow(k)
    <2>1. tail \notin TimingSlots(k) /\ IsFiniteSet(TimingSlots(k))
      BY <1>2, TimingFinite DEF TimingSlots
    <2>2. CASE current.timing /\ current.kernel = k
      <3>1. TimingSlots(k)' = TimingSlots(k) \cup {tail}
        BY <1>2, <1>3, <2>2 DEF TimingSlots
      <3>2. Cardinality(TimingSlots(k) \cup {tail}) = Cardinality(TimingSlots(k)) + 1
        BY <2>1, FS_AddElement
      <3>3. TimingNow(k) = 1
        BY <2>2 DEF TimingNow
      <3> QED
        BY <3>1, <3>2, <3>3
    <2>3. CASE ~(current.timing /\ current.kernel = k)
      <3>1. TimingSlots(k)' = TimingSlots(k)
        BY <1>2, <1>3, <2>3 DEF TimingSlots
      <3>2. TimingNow(k) = 0
        BY <2>3 DEF TimingNow
      <3> QED
        BY <3>1, <3>2, TimingFinite
    <2> QED
      BY <2>2, <2>3
  <1>7. ASSUME NEW k \in Kernels
        PROVE  /\ profiles'[k].samples + profiles'[k].pending <= ProfileSamples
               /\ profiles'[k].pending = Cardinality(TimingSlots(k)') + TimingNow(k)'
    <2>1. profiles[k].pending = Cardinality(TimingSlots(k)')
      BY <1>6 DEF SampleInv
    <2>2. profiles[k].pending \in Nat
      BY DEF Base, TypeOK, ProfileType
    <2> QED
      BY <1>1, <1>5, <2>1, <2>2 DEF SampleInv
  <1> QED
    BY <1>4, <1>7 DEF SampleInv

\* A launch is timed only while its signature has samples left to take.
LEMMA AdmitSamples ==
  ASSUME Base, StageInv, SampleInv, NEW t \in Threads, Admit(t)
  PROVE  SampleInv'
  <1>1. ~current.timing /\ current.kernel \in Kernels /\ slots' = slots
    BY NotStaged DEF Admit, Base, CallInv, ring
  <1>2. \A k \in Kernels : TimingNow(k) = 0
    BY <1>1 DEF TimingNow
  <1>3. ActiveSlots' = ActiveSlots /\ \A k \in Kernels : TimingSlots(k)' = TimingSlots(k)
    BY <1>1, SameSlots DEF TimingSlots
  <1>4. \A k \in Kernels : profiles[k] \in ProfileType
    BY DEF Base, TypeOK
  <1>5. CASE /\ WantsSample
             /\ profiles' = [profiles EXCEPT ![current.kernel].pending = @ + 1]
             /\ current' = [current EXCEPT !.windowed = TRUE, !.timing = TRUE]
    <2>1. current'.timing /\ current'.kernel = current.kernel
      BY <1>5 DEF Base, TypeOK, LaunchType
    <2>2. ASSUME NEW k \in Kernels
          PROVE  /\ profiles'[k].samples + profiles'[k].pending <= ProfileSamples
                 /\ profiles'[k].pending = Cardinality(TimingSlots(k)) + TimingNow(k)'
      <3>1. /\ profiles[k].samples \in Nat /\ profiles[k].pending \in Nat
            /\ profiles[k].samples + profiles[k].pending <= ProfileSamples
            /\ profiles[k].pending = Cardinality(TimingSlots(k))
        BY <1>2, <1>4, TimingFinite DEF ProfileType, SampleInv
      <3>2. CASE k = current.kernel
        <4>1. /\ profiles'[k].samples = profiles[k].samples
              /\ profiles'[k].pending = profiles[k].pending + 1
          BY <1>4, <1>5, <3>2 DEF Base, TypeOK, ProfileType
        <4>2. profiles[k].samples + profiles[k].pending < ProfileSamples
          BY <1>5, <3>2 DEF WantsSample
        <4>3. TimingNow(k)' = 1
          BY <2>1, <3>2 DEF TimingNow
        <4> QED
          BY <3>1, <4>1, <4>2, <4>3
      <3>3. CASE k # current.kernel
        <4>1. profiles'[k] = profiles[k]
          BY <1>4, <1>5, <3>3 DEF Base, TypeOK
        <4>2. TimingNow(k)' = 0
          BY <2>1, <3>3 DEF TimingNow
        <4> QED
          BY <3>1, <4>1, <4>2
      <3> QED
        BY <3>2, <3>3
    <2> QED
      BY <1>1, <1>3, <2>2 DEF SampleInv
  <1>6. CASE profiles' = profiles /\ current' = [current EXCEPT !.windowed = TRUE]
    <2>1. current'.timing = current.timing /\ current'.kernel = current.kernel
      BY <1>6 DEF Base, TypeOK, LaunchType
    <2> QED
      BY <1>1, <1>6, <2>1, SameSamples DEF TimingNow
  <1> QED
    BY <1>5, <1>6 DEF Admit

\* Every step keeps SampleInv.
LEMMA NextSamples ==
  ASSUME Base, RingInv, RoomInv, SumInv, StageInv, SampleInv, [Next]_vars
  PROVE  SampleInv'
  <1> USE DEF vars
  <1>1. ASSUME slots' = slots, profiles' = profiles,
               \/ current' = current
               \/ ~current.timing /\ ~current'.timing
               \/ current'.timing = current.timing /\ current'.kernel = current.kernel
        PROVE  SampleInv'
    BY <1>1, SameSamples DEF TimingNow
  <1>2. ASSUME NEW t \in Threads, Work(t)
        PROVE  SampleInv'
    <2>1. CASE AfterTracked(t)
      BY <2>1, TrackSamples
    <2>2. CASE AfterUntracked(t) \/ IssueFails(t)
      BY <2>2, GiveUpSamples DEF AfterUntracked, IssueFails, Finish, ring, Base, CallInv
    <2>3. CASE AfterBypass(t)
      <3>1. ~current.timing /\ ~current'.timing
        BY <2>3 DEF AfterBypass, Finish, NoLaunch, StageInv
      <3> QED
        BY <1>1, <2>3, <3>1 DEF AfterBypass, ring
    <2>4. CASE Admit(t)
      BY <2>4, AdmitSamples
    <2>5. CASE Issue(t)
      <3>1. current'.timing = current.timing /\ current'.kernel = current.kernel
        BY <2>5 DEF Issue, Base, TypeOK, LaunchType
      <3> QED
        BY <1>1, <2>5, <3>1 DEF Issue, ring
    <2>6. CASE ReadOwner(t) \/ Bypass(t) \/ WaitUntilIdle(t) \/ RecheckIdle(t) \/ EndBoundary(t)
      BY <1>1, <2>6 DEF ReadOwner, Bypass, WaitUntilIdle, RecheckIdle, EndBoundary, ring
    <2>7. CASE Drain(t) \/ SurvivalRejection(t) \/ RetireForRoom(t) \/ DrainBoundary(t)
      <3>1. current' = current /\ \A k \in Kernels : TimingNow(k)' = TimingNow(k)
        BY <2>7 DEF Drain, SurvivalRejection, RetireForRoom, DrainBoundary, TimingNow
      <3> QED
        BY <1>1, <2>7, <3>1, RetireSamples
        DEF Drain, SurvivalRejection, RetireForRoom, DrainBoundary, ring
    <2>8. CASE Predict(t)
      <3>1. ~current.timing /\ current.kernel \in Kernels
        BY <2>8, NotStaged DEF Predict, Base, CallInv
      <3>2. ~current'.timing
        BY <2>8, <3>1 DEF Predict, Base, TypeOK, LaunchType
      <3>3. ASSUME NEW k \in Kernels
            PROVE  /\ profiles'[k].samples = profiles[k].samples
                   /\ profiles'[k].pending = profiles[k].pending
                   /\ TimingNow(k)' = TimingNow(k)
        <4>1. profiles[k] \in ProfileType
          BY DEF Base, TypeOK
        <4>2. \/ profiles' = profiles
              \/ profiles' = [profiles EXCEPT ![current.kernel].occupied = TRUE]
          BY <2>8 DEF Predict
        <4>3. /\ profiles'[k].samples = profiles[k].samples
              /\ profiles'[k].pending = profiles[k].pending
          BY <4>1, <4>2 DEF Base, TypeOK, ProfileType
        <4> QED
          BY <3>1, <3>2, <4>3 DEF TimingNow
      <3> QED
        BY <2>8, <3>3, SameSamples DEF Predict, ring
    <2>9. CASE ChooseLimit(t) \/ SurvivalAdmission(t)
      <3>1. current'.timing = current.timing /\ current'.kernel = current.kernel
        BY <2>9 DEF ChooseLimit, SurvivalAdmission, Base, TypeOK, LaunchType
      <3> QED
        BY <1>1, <2>9, <3>1 DEF ChooseLimit, SurvivalAdmission, ring
    <2> QED
      BY <1>2, <2>1, <2>2, <2>3, <2>4, <2>5, <2>6, <2>7, <2>8, <2>9 DEF Work
  <1>3. ASSUME NEW t \in Threads, NEW k \in Kernels, NEW h \in Handles, Begin(t, k, h)
        PROVE  SampleInv'
    <2>1. ~current.timing /\ ~current'.timing
      BY <1>3, NotStagedIdle DEF Begin, NoLaunch
    <2> QED
      BY <1>1, <1>3, <2>1 DEF Begin, ring
  <1>4. ASSUME NEW t \in Threads, BeginBoundary(t)
        PROVE  SampleInv'
    BY <1>1, <1>4 DEF BeginBoundary, ring
  <1>5. CASE HpStep \/ (\E q \in inflight : Complete(q)) \/ UNCHANGED vars
    BY <1>1, <1>5 DEF HpStep, Complete, ring
  <1> QED
    BY <1>2, <1>3, <1>4, <1>5 DEF Next

LEMMA InitSamples == Init => StageInv /\ SampleInv
  <1> SUFFICES ASSUME Init PROVE StageInv /\ SampleInv
    OBVIOUS
  <1>1. StageInv
    BY DEF Init, StageInv, NoLaunch
  <1>2. ActiveSlots = {} /\ \A k \in Kernels : TimingSlots(k) = {}
    BY DEF Init, ActiveSlots, TimingSlots, EmptySlot
  <1>3. \A k \in Kernels : /\ profiles[k].samples = 0 /\ profiles[k].pending = 0
                           /\ TimingNow(k) = 0
    BY DEF Init, NewProfile, TimingNow, NoLaunch
  <1>4. \A k \in Kernels : Cardinality(TimingSlots(k)) = 0
    BY <1>2, FS_EmptySet
  <1>5. ASSUME NEW k \in Kernels
        PROVE  /\ profiles[k].samples + profiles[k].pending <= ProfileSamples
               /\ profiles[k].pending = Cardinality(TimingSlots(k)) + TimingNow(k)
    BY <1>3, <1>4
  <1> QED
    BY <1>1, <1>2, <1>5 DEF SampleInv

LEMMA SampleCorrect == Spec => [](StageInv /\ SampleInv)
  BY BaseCorrect, RingCorrect, SumCorrect, InitSamples, NextStage, NextSamples, PTL
  DEF Spec

\* However launches fail, events fail and slots are retired: no signature is
\* measured more than ProfileSamples times, and the count of measurements under
\* way is neither lost nor counted twice (event_be_prepare_timing_sample_locked,
\* event_be_release_pending_sample_locked).
THEOREM SamplesHold == Spec => []SamplesAreExact
  <1>1. SampleInv => SamplesAreExact
    BY DEF SampleInv, SamplesAreExact, TimingSlots, TimingNow
  <1> QED
    BY <1>1, SampleCorrect, PTL
---------------------------------------------------------------------------
(* Unseen signatures. *)

\* When the window is empty and no launch is between the driver and its slot,
\* nothing that was admitted is on the device.
LEMMA EmptyWindow ==
  ASSUME Base, RingInv, TrackInv, outstanding = 0, \A t \in Threads : pc[t] # "after"
  PROVE  Windowed = {}
  <1>1. \A i \in SlotIds : ~slots[i].active
    BY WindowType DEF RingInv, Base, TypeOK, Distance, SlotIds
  <1>2. \A q \in inflight : q.id # current.id
    BY NoneBetween DEF TrackInv
  <1> QED
    BY <1>1, <1>2 DEF TrackInv, HeldInv, Covers, Windowed

\* Only the time policies look a signature up; the survival policy admits an
\* unseen one to a window of one only; once admitted it is alone.
UnseenInv ==
  /\ current.unknown => Policy \in TimePolicies
  /\ \A t \in Threads :
       pc[t] = "admit" /\ Policy = "survival" /\ current.unknown =>
         current.limit.window <= 1
  /\ current.windowed /\ current.unknown => outstanding = 0

\* Steps that keep the launch's lookup and its limit, and no thread comes to
\* its admission.
LEMMA SameUnseen ==
  ASSUME Base, UnseenInv, current'.unknown = current.unknown,
         current'.windowed = current.windowed, current'.limit = current.limit,
         current.windowed => outstanding' = outstanding,
         \A t \in Threads : pc'[t] = "admit" => pc[t] = "admit"
  PROVE  UnseenInv'
  BY DEF UnseenInv

\* Every step keeps UnseenInv.
LEMMA NextUnseen ==
  ASSUME Base, RingInv, StageInv, UnseenInv, [Next]_vars
  PROVE  UnseenInv'
  <1> USE DEF vars
  <1>1. ASSUME current' = NoLaunch
        PROVE  UnseenInv'
    BY <1>1 DEF UnseenInv, NoLaunch
  <1>2. ASSUME NEW t \in Threads, Work(t)
        PROVE  UnseenInv'
    <2>1. CASE IssueFails(t) \/ AfterTracked(t) \/ AfterUntracked(t) \/ AfterBypass(t)
      BY <1>1, <2>1 DEF IssueFails, AfterTracked, AfterUntracked, AfterBypass, Finish
    <2>2. CASE Issue(t)
      <3>1. /\ current'.unknown = current.unknown /\ current'.windowed = current.windowed
            /\ current'.limit = current.limit
        BY <2>2 DEF Issue, Base, TypeOK, LaunchType
      <3>2. outstanding' = outstanding
        BY <2>2 DEF Issue, ring
      <3>3. \A u \in Threads : pc'[u] = "admit" => pc[u] = "admit"
        BY <2>2 DEF Issue, Goto, Base, TypeOK
      <3> QED
        BY <3>1, <3>2, <3>3, SameUnseen
    <2>3. CASE Admit(t)
      <3>1. current'.unknown = current.unknown /\ current'.windowed
        BY <2>3 DEF Admit, Base, TypeOK, LaunchType
      <3>2. current.limit.window \in Nat /\ outstanding \in Nat
        BY WindowType DEF Base, TypeOK, LaunchType, LimitType, RingInv
      <3>3. current.unknown => outstanding = 0
        BY <2>3, <3>2 DEF Admit, MustWait, UnseenInv, TimePolicies
      <3>4. \A u \in Threads : pc'[u] # "admit"
        BY <2>3, OnlyHolder DEF Admit, Goto, Base, TypeOK
      <3>5. outstanding' = outstanding
        BY <2>3 DEF Admit, ring
      <3> QED
        BY <3>1, <3>3, <3>4, <3>5 DEF UnseenInv
    <2>4. CASE SurvivalAdmission(t)
      <3>1. PICK l \in {InternalLimit, PromotedLimit} :
              current' = [current EXCEPT
                            !.limit = IF current.unknown THEN [l EXCEPT !.window = 1]
                                                         ELSE l]
        BY <2>4 DEF SurvivalAdmission
      <3>2. /\ current'.unknown = current.unknown /\ current'.windowed = current.windowed
            /\ current'.limit = IF current.unknown THEN [l EXCEPT !.window = 1] ELSE l
        BY <3>1 DEF Base, TypeOK, LaunchType
      <3>3. l \in LimitType
        BY LimitTypes
      <3>4. current.unknown => current'.limit.window <= 1
        BY <3>2, <3>3 DEF LimitType
      <3>5. ~current.windowed
        BY <2>4, NotStaged DEF SurvivalAdmission
      <3> QED
        BY <3>2, <3>4, <3>5 DEF UnseenInv
    <2>5. CASE ChooseLimit(t)
      <3>1. current'.unknown = current.unknown /\ current'.windowed = current.windowed
        BY <2>5 DEF ChooseLimit, Base, TypeOK, LaunchType
      <3>2. ~current.windowed /\ Policy # "survival"
        BY <2>5, NotStaged DEF ChooseLimit
      <3> QED
        BY <3>1, <3>2 DEF UnseenInv
    <2>6. CASE Predict(t)
      <3>1. ~current.windowed
        BY <2>6, NotStaged DEF Predict
      <3>2. current'.windowed = current.windowed
        BY <2>6 DEF Predict, Base, TypeOK, LaunchType
      <3>3. current'.unknown => Policy \in TimePolicies
        BY <2>6 DEF Predict, UnseenInv
      <3>4. \A u \in Threads : pc'[u] # "admit"
        BY <2>6, OnlyHolder DEF Predict, Goto, Base, TypeOK
      <3> QED
        BY <3>1, <3>2, <3>3, <3>4 DEF UnseenInv
    <2>7. CASE \/ ReadOwner(t) \/ Drain(t) \/ Bypass(t) \/ WaitUntilIdle(t)
               \/ RecheckIdle(t) \/ SurvivalRejection(t) \/ RetireForRoom(t)
               \/ DrainBoundary(t) \/ EndBoundary(t)
      <3>1. ~current.windowed /\ current' = current
        BY <2>7, NotStaged DEF ReadOwner, Drain, Bypass, WaitUntilIdle, RecheckIdle,
          SurvivalRejection, RetireForRoom, DrainBoundary, EndBoundary
      <3>2. \A u \in Threads : pc'[u] = "admit" => pc[u] = "admit"
        BY <2>7 DEF ReadOwner, Drain, Bypass, WaitUntilIdle, RecheckIdle,
          SurvivalRejection, RetireForRoom, DrainBoundary, EndBoundary, Goto, Base, TypeOK
      <3> QED
        BY <3>1, <3>2, SameUnseen
    <2> QED
      BY <1>2, <2>1, <2>2, <2>3, <2>4, <2>5, <2>6, <2>7 DEF Work
  <1>3. ASSUME NEW t \in Threads, NEW k \in Kernels, NEW h \in Handles, Begin(t, k, h)
        PROVE  UnseenInv'
    BY <1>3 DEF Begin, UnseenInv, NoLaunch
  <1>4. ASSUME NEW t \in Threads, BeginBoundary(t)
        PROVE  UnseenInv'
    <2>1. \A u \in Threads : pc'[u] = "admit" => pc[u] = "admit"
      BY <1>4 DEF BeginBoundary, Goto, Base, TypeOK
    <2> QED
      BY <1>4, <2>1, SameUnseen DEF BeginBoundary, ring
  <1>5. CASE HpStep \/ (\E q \in inflight : Complete(q)) \/ UNCHANGED vars
    BY <1>5, SameUnseen DEF HpStep, Complete, ring
  <1> QED
    BY <1>2, <1>3, <1>4, <1>5 DEF Next

LEMMA UnseenCorrect == Spec => []UnseenInv
  <1>1. Init => UnseenInv
    BY DEF Init, UnseenInv, NoLaunch
  <1> QED
    BY <1>1, BaseCorrect, RingCorrect, SampleCorrect, NextUnseen, PTL DEF Spec

\* In every policy that predicts: a launch whose duration nobody has measured
\* reaches the device when no admitted launch is there (be_intercept.c, the
\* conditions of the time loop, the window of one of the survival policy).
THEOREM UnseenAlone == Spec => []UnseenEntersEmptyWindow
  <1>1. ASSUME Base, RingInv, TrackInv, UnseenInv
        PROVE  UnseenEntersEmptyWindow
    <2> SUFFICES ASSUME NEW t \in Threads, pc[t] = "issue", current.windowed,
                        current.unknown
                 PROVE  Windowed = {}
      BY DEF UnseenEntersEmptyWindow
    <2>1. outstanding = 0
      BY <1>1 DEF UnseenInv
    <2>2. \A u \in Threads : pc[u] # "after"
      BY <1>1, OnlyHolder
    <2> QED
      BY <1>1, <2>1, <2>2, EmptyWindow
  <1> QED
    BY <1>1, BaseCorrect, RingCorrect, TrackCorrect, UnseenCorrect, PTL
---------------------------------------------------------------------------
(* What is on the device. *)

\* A slot owns the launch it was filled with: its completion event is the
\* launch's own, and it committed what the launch costs.
Owns(i, q) == /\ slots[i].active /\ slots[i].stream = q.stream
              /\ CompletionEvent(slots[i]) = q.id
              /\ slots[i].predicted = q.predicted /\ slots[i].blocks = q.blocks

\* Every admitted launch on the device has a slot of its own, or is the launch
\* its thread has not finished.
OwnInv ==
  /\ IsFiniteSet(inflight)
  /\ \A q, r \in inflight : q.id = r.id => q = r
  /\ \A q \in inflight : q.id = current.id =>
       q.predicted = current.predicted /\ q.blocks = BlocksOf[current.kernel]
  /\ \A q \in Windowed : q.id = current.id \/ \E i \in SlotIds : Owns(i, q)

\* A retirement takes no slot from a launch it does not give up.
LEMMA RetireOwn ==
  ASSUME Base, RingInv, StreamInv, OwnInv, NEW t \in Threads, RetireOldest(t),
         current' = current, inflight' = inflight
  PROVE  OwnInv'
  <1>1. SlotIds' = SlotIds
    BY DEF SlotIds, Window, Partition
  <1>2. \A i \in SlotIds : i # head => slots'[i] = slots[i]
    BY DEF RetireOldest, Base, TypeOK
  <1>3. Windowed' \subseteq Windowed
    BY DEF Windowed, RetireOldest, GiveUp
  <1>4. ASSUME NEW q \in Windowed', NEW i \in SlotIds, Owns(i, q)
        PROVE  Owns(i, q)'
    <2>1. i # head
      BY <1>4, RetiredIsDone DEF Owns, Covers, Windowed
    <2> QED
      BY <1>2, <1>4, <2>1 DEF Owns, CompletionEvent
  <1> QED
    BY <1>1, <1>3, <1>4 DEF OwnInv

\* Steps that leave the slots and the device alone, and the launch between the
\* driver and its slot, if there is one.
LEMMA SameOwn ==
  ASSUME OwnInv, slots' = slots, inflight' = inflight, forgotten \subseteq forgotten',
         \/ /\ current'.id = current.id /\ current'.predicted = current.predicted
            /\ current'.kernel = current.kernel
         \/ /\ \A q \in inflight : q.id # current'.id
            /\ \A q \in Windowed' : q.id # current.id
  PROVE  OwnInv'
  <1>1. /\ SlotIds' = SlotIds /\ Windowed' \subseteq Windowed
        /\ \A i, q : Owns(i, q) => Owns(i, q)'
    BY DEF SlotIds, Window, Partition, Windowed, Owns, CompletionEvent
  <1> QED
    BY <1>1 DEF OwnInv, Windowed

\* A new launch is the one of its thread; the others keep their slots.
LEMMA IssueOwn ==
  ASSUME Base, TrackInv, OwnInv, NEW t \in Threads, Issue(t)
  PROVE  OwnInv'
  <1> DEFINE new == [id |-> launches + 1, stream |-> StreamOf(t, current.handle),
                     windowed |-> current.windowed, predicted |-> current.predicted,
                     blocks |-> BlocksOf[current.kernel]]
  <1>1. \A u \in Threads : pc[u] # "after"
    BY OnlyHolder DEF Issue
  <1>2. \A q \in inflight : q.id # current.id /\ q.id # launches + 1
    BY <1>1, NoneBetween DEF TrackInv, IdInv, Base, TypeOK
  <1>3. /\ inflight' = inflight \cup {new} /\ slots' = slots /\ forgotten' = forgotten
        /\ current'.id = launches + 1 /\ current'.predicted = current.predicted
        /\ current'.kernel = current.kernel
    BY DEF Issue, ring, Base, TypeOK, LaunchType
  <1>4. /\ new.id = launches + 1 /\ new.predicted = current.predicted
        /\ new.blocks = BlocksOf[current.kernel]
    OBVIOUS
  <1> HIDE DEF new
  <1>5. IsFiniteSet(inflight')
    BY <1>3, FS_AddElement DEF OwnInv
  <1>6. \A q, r \in inflight' : q.id = r.id => q = r
    BY <1>2, <1>3, <1>4 DEF OwnInv
  <1>7. \A q \in inflight' : q.id = current'.id =>
          q.predicted = current'.predicted /\ q.blocks = BlocksOf[current'.kernel]
    BY <1>2, <1>3, <1>4
  <1>8. ASSUME NEW q \in Windowed'
        PROVE  q.id = current'.id \/ \E i \in SlotIds' : Owns(i, q)'
    <2>1. SlotIds' = SlotIds
      BY DEF SlotIds, Window, Partition
    <2>2. CASE q = new
      BY <1>3, <1>4, <2>2
    <2>3. CASE q \in Windowed
      <3>1. PICK i \in SlotIds : Owns(i, q)
        BY <1>2, <2>3 DEF OwnInv, Windowed
      <3>2. Owns(i, q)'
        BY <1>3, <3>1 DEF Owns, CompletionEvent
      <3> QED
        BY <2>1, <3>2
    <2> QED
      BY <1>3, <2>2, <2>3 DEF Windowed
  <1> QED
    BY <1>5, <1>6, <1>7, <1>8 DEF OwnInv

\* The launch that enters the ring takes the slot at the tail.
LEMMA TrackOwn ==
  ASSUME Base, RingInv, RoomInv, TrackInv, OwnInv, NEW t \in Threads, AfterTracked(t)
  PROVE  OwnInv'
  <1>1. /\ tail \in SlotIds /\ ~slots[tail].active
        /\ current \in LaunchType /\ slots[tail] \in SlotType
        /\ pc[t] = "after" /\ current' = NoLaunch /\ inflight' = inflight
    BY TrackRing DEF Base, TypeOK, AfterTracked, RoomInv, Finish
  <1>2. /\ slots'[tail].active
        /\ slots'[tail].stream = StreamOf(t, current.handle)
        /\ slots'[tail].predicted = current.predicted
        /\ slots'[tail].blocks = BlocksOf[current.kernel]
        /\ CompletionEvent(slots'[tail]) = current.id
    BY <1>1 DEF AfterTracked, Track, CompletionEvent, Base, TypeOK, SlotType, LaunchType
  <1>3. \A i \in SlotIds : i # tail => slots'[i] = slots[i]
    BY <1>1 DEF AfterTracked, Track, Base, TypeOK
  <1>4. SlotIds' = SlotIds /\ Windowed' = Windowed
    BY <1>1 DEF SlotIds, Window, Partition, Windowed, AfterTracked, Track
  <1>5. ASSUME NEW q \in Windowed
        PROVE  \E i \in SlotIds : Owns(i, q)'
    <2>1. CASE q.id = current.id
      <3>1. /\ q.stream = StreamOf(t, current.handle)
            /\ q.predicted = current.predicted /\ q.blocks = BlocksOf[current.kernel]
        BY <1>1, <2>1 DEF TrackInv, IdInv, OwnInv, Windowed
      <3>2. PICK i \in SlotIds : i = tail
        BY <1>1
      <3>3. Owns(i, q)'
        BY <1>2, <2>1, <3>1, <3>2 DEF Owns, CompletionEvent
      <3> QED
        BY <3>3
    <2>2. CASE q.id # current.id
      <3>1. PICK i \in SlotIds : Owns(i, q)
        BY <2>2 DEF OwnInv
      <3>2. slots'[i] = slots[i]
        BY <1>1, <1>3, <3>1 DEF Owns
      <3>3. Owns(i, q)'
        BY <3>1, <3>2 DEF Owns, CompletionEvent
      <3> QED
        BY <3>3
    <2> QED
      BY <2>1, <2>2
  <1>6. \A q \in inflight : q.id # current'.id
    BY <1>1 DEF TrackInv, IdInv, NoLaunch, Base, TypeOK
  <1> QED
    BY <1>1, <1>4, <1>5, <1>6 DEF OwnInv

\* Every step keeps OwnInv.
LEMMA NextOwn ==
  ASSUME Base, RingInv, RoomInv, TrackInv, OwnInv, [Next]_vars
  PROVE  OwnInv'
  <1> USE DEF vars
  <1>1. ASSUME NEW t \in Threads, pc[t] \notin {"idle", "after"}, slots' = slots,
               inflight' = inflight, forgotten' = forgotten,
               current'.id = current.id \/ current'.id = 0
        PROVE  OwnInv'
    <2>1. \A u \in Threads : pc[u] # "after"
      BY <1>1, OnlyHolder
    <2>2. current.id = 0 /\ \A q \in inflight : q.id # current.id
      BY <2>1, NoneBetween DEF TrackInv
    <2> QED
      BY <1>1, <2>2, SameOwn DEF Windowed
  <1>2. ASSUME NEW t \in Threads, Work(t)
        PROVE  OwnInv'
    <2>1. CASE AfterTracked(t)
      BY <2>1, TrackOwn
    <2>2. CASE Issue(t)
      BY <2>2, IssueOwn
    <2>3. CASE AfterUntracked(t) \/ AfterBypass(t)
      <3>1. /\ pc[t] = "after" /\ current'.id = 0 /\ slots' = slots
            /\ inflight' = inflight /\ forgotten \subseteq forgotten'
        BY <2>3 DEF AfterUntracked, AfterBypass, Finish, NoLaunch, ring, GiveUp
      <3>2. \A q \in inflight : q.id # current'.id
        BY <3>1 DEF TrackInv, IdInv, Base, TypeOK
      <3>3. \A q \in Windowed' : q.id # current.id
        BY <2>3, <3>1 DEF AfterUntracked, AfterBypass, TrackInv, IdInv, Windowed, GiveUp
      <3> QED
        BY <3>1, <3>2, <3>3, SameOwn
    <2>4. CASE IssueFails(t)
      BY <1>1, <2>4 DEF IssueFails, Finish, NoLaunch, ring
    <2>5. CASE Drain(t) \/ SurvivalRejection(t) \/ RetireForRoom(t) \/ DrainBoundary(t)
      <3>1. current' = current /\ inflight' = inflight
        BY <2>5 DEF Drain, SurvivalRejection, RetireForRoom, DrainBoundary
      <3>2. CASE RetireOldest(t)
        BY <3>1, <3>2, RetireOwn DEF TrackInv
      <3>3. CASE slots' = slots /\ forgotten' = forgotten
        BY <3>1, <3>3, SameOwn
      <3> QED
        BY <2>5, <3>2, <3>3
        DEF Drain, SurvivalRejection, RetireForRoom, DrainBoundary, ring
    <2>6. CASE \/ ReadOwner(t) \/ Bypass(t) \/ WaitUntilIdle(t) \/ Predict(t)
               \/ ChooseLimit(t) \/ RecheckIdle(t) \/ SurvivalAdmission(t) \/ Admit(t)
               \/ EndBoundary(t)
      <3>1. /\ pc[t] \notin {"idle", "after"}
            /\ slots' = slots /\ inflight' = inflight /\ forgotten' = forgotten
        BY <2>6 DEF ReadOwner, Bypass, WaitUntilIdle, Predict, ChooseLimit, RecheckIdle,
          SurvivalAdmission, Admit, EndBoundary, ring
      <3>2. current'.id = current.id
        BY <2>6 DEF ReadOwner, Bypass, WaitUntilIdle, Predict, ChooseLimit, RecheckIdle,
          SurvivalAdmission, Admit, EndBoundary, Base, TypeOK, LaunchType
      <3> QED
        BY <1>1, <3>1, <3>2
    <2> QED
      BY <1>2, <2>1, <2>2, <2>3, <2>4, <2>5, <2>6 DEF Work
  <1>3. ASSUME NEW t \in Threads, NEW k \in Kernels, NEW h \in Handles, Begin(t, k, h)
        PROVE  OwnInv'
    <2>1. \A u \in Threads : pc[u] # "after"
      BY <1>3 DEF Begin, Base, LockInv
    <2>2. current.id = 0 /\ \A q \in inflight : q.id # current.id
      BY <2>1, NoneBetween DEF TrackInv
    <2>3. current'.id = 0
      BY <1>3 DEF Begin, NoLaunch
    <2> QED
      BY <1>3, <2>2, <2>3, SameOwn DEF Begin, ring, Windowed
  <1>4. ASSUME NEW t \in Threads, BeginBoundary(t)
        PROVE  OwnInv'
    BY <1>4, SameOwn DEF BeginBoundary, ring
  <1>5. ASSUME NEW p \in inflight, Complete(p)
        PROVE  OwnInv'
    <2>1. /\ inflight' \subseteq inflight /\ SlotIds' = SlotIds
          /\ slots' = slots /\ current' = current
      BY <1>5 DEF Complete, ring, SlotIds, Window, Partition
    <2>2. IsFiniteSet(inflight')
      BY <2>1, FS_Subset DEF OwnInv
    <2>3. Windowed' \subseteq Windowed
      BY <1>5, <2>1 DEF Windowed, Complete
    <2>4. \A i, q : Owns(i, q) => Owns(i, q)'
      BY <2>1 DEF Owns, CompletionEvent
    <2> QED
      BY <2>1, <2>2, <2>3, <2>4 DEF OwnInv
  <1>6. CASE HpStep \/ UNCHANGED vars
    BY <1>6, SameOwn DEF HpStep, ring
  <1> QED
    BY <1>2, <1>3, <1>4, <1>5, <1>6 DEF Next

LEMMA OwnCorrect == Spec => []OwnInv
  <1>1. Init => OwnInv
    BY FS_EmptySet DEF Init, OwnInv, Windowed
  <1> QED
    BY <1>1, BaseCorrect, RingCorrect, TrackCorrect, NextOwn, PTL DEF Spec
---------------------------------------------------------------------------
(* The budget. *)

\* The budget the policy's launches share, what the active slots and the launch
\* being made count against it.
Budget    == IF Policy \in TimePolicies THEN LongestBudget ELSE BlockBudget
Committed == CASE Policy \in TimePolicies      -> outPredicted
               [] Policy \in {"blocks", "gap"} -> outBlocks
               [] OTHER                        -> 0
Incoming  == CASE Policy \in TimePolicies      -> current.predicted
               [] Policy \in {"blocks", "gap"} -> BlocksOf[current.kernel]
               [] OTHER                        -> 0

\* Every limit a launch is admitted under is within the configured budget; two
\* or more launches that are tracked are within it, and so are the launch that
\* was admitted and those it joined.
BudgetInv ==
  /\ current.limit.budget <= Budget
  /\ outstanding >= 2 => Committed <= Budget
  /\ current.windowed /\ outstanding >= 1 => Incoming + Committed <= Budget

\* The budget is a number, at least one, and no limit exceeds it.
LEMMA BudgetType ==
  /\ Budget \in Nat \ {0}
  /\ Policy = "survival" =>
       InternalLimit.budget <= Budget /\ PromotedLimit.budget <= Budget
  /\ \A l \in EffectiveLimits : Policy # "survival" => l.budget <= Budget
  <1>1. /\ TimeBudget \in Nat \ {0} /\ BlockBudget \in Nat \ {0}
        /\ InternalLimit.budget \in Nat \ {0} /\ PromotedLimit.budget \in Nat \ {0}
    BY PartitionType DEF TimeBudget, BlockBudget, InternalLimit, PromotedLimit
  <1>2. Budget \in Nat \ {0}
    BY <1>1 DEF Budget, LongestBudget
  <1>3. Policy = "survival" =>
          InternalLimit.budget <= Budget /\ PromotedLimit.budget <= Budget
    BY <1>1 DEF Budget, LongestBudget, TimePolicies
  <1>4. ASSUME NEW l \in EffectiveLimits, Policy # "survival"
        PROVE  l.budget <= Budget
    <2>1. CASE Policy = "time_sum" \/ Policy = "time"
      BY <1>1, <1>4, <2>1 DEF EffectiveLimits, Budget, LongestBudget, TimePolicies
    <2>2. CASE Policy \in BlockPolicies
      BY <1>1, <1>4, <2>2 DEF EffectiveLimits, Budget, TimePolicies, BlockPolicies
    <2> QED
      BY <1>4, <2>1, <2>2 DEF TimePolicies
  <1> QED
    BY <1>2, <1>3, <1>4

\* What is committed and what comes in are numbers.
LEMMA CommittedIsNat ==
  ASSUME Base, SumInv
  PROVE  outBlocks \in Nat /\ outPredicted \in Nat /\ Committed \in Nat
  <1>1. \A i \in ActiveSlots : /\ BlocksIn[i] \in Int /\ BlocksIn[i] >= 0
                               /\ PredictedIn[i] \in Int /\ PredictedIn[i] >= 0
    BY CommittedType DEF Base, ActiveSlots
  <1>2. IsFiniteSet(ActiveSlots)
    BY SlotsFinite
  <1>3. SumFunctionOnSet(BlocksIn, ActiveSlots) >= 0
    BY <1>1, <1>2, SumMonotonic
  <1>4. SumFunctionOnSet(PredictedIn, ActiveSlots) >= 0
    BY <1>1, <1>2, SumMonotonic
  <1>5. outBlocks \in Int /\ outPredicted \in Int
    BY DEF Base, TypeOK
  <1> QED
    BY <1>3, <1>4, <1>5 DEF SumInv, Committed

\* Steps that leave the commitments and the launch's part of them alone.
LEMMA SameBudget ==
  ASSUME Base, BudgetInv,
         UNCHANGED ring,
         \/ current'.limit = current.limit
         \/ current'.limit \in LimitType /\ current'.limit.budget <= Budget,
         ~current'.windowed \/ UNCHANGED <<current.windowed, current.predicted,
                                           current.kernel>>
  PROVE  BudgetInv'
  <1>1. Budget' = Budget /\ Committed' = Committed /\ outstanding' = outstanding
    BY DEF ring, Budget, LongestBudget, InternalLimit, PromotedLimit, TimeBudget,
           BlockBudget, Window, Partition, Lower, Committed
  <1>2. current'.windowed => Incoming' = Incoming /\ current.windowed
    BY DEF Incoming
  <1> QED
    BY <1>1, <1>2 DEF BudgetInv

\* A retirement takes from what is committed.
LEMMA RetireBudget ==
  ASSUME Base, RingInv, SumInv, BudgetInv, ~current.windowed, NEW t \in Threads,
         RetireOldest(t), current' = current
  PROVE  BudgetInv'
  <1>1. Budget' = Budget
    BY DEF Budget, LongestBudget, InternalLimit, PromotedLimit, TimeBudget,
           BlockBudget, Window, Partition, Lower
  <1>2. outstanding' = outstanding - 1 /\ outstanding \in Int
    BY DEF RetireOldest, Base, TypeOK
  <1>3. Committed' <= Committed /\ Committed \in Int /\ Committed' \in Int
    <2>1. slots[head] \in SlotType
      BY DEF Base, TypeOK
    <2>2. slots[head].blocks \in Nat /\ slots[head].predicted \in Nat
      BY <2>1 DEF SlotType
    <2>3. /\ outBlocks' = outBlocks - slots[head].blocks /\ outBlocks \in Int
          /\ outPredicted' = outPredicted - slots[head].predicted
          /\ outPredicted \in Int
      BY DEF RetireOldest, Base, TypeOK
    <2> QED
      BY <2>2, <2>3 DEF Committed
  <1>4. Budget \in Nat
    BY BudgetType
  <1> QED
    BY <1>1, <1>2, <1>3, <1>4 DEF BudgetInv

\* A launch is admitted into a window that is not empty only if it fits.
LEMMA AdmitBudget ==
  ASSUME Base, RingInv, SumInv, BudgetInv, NEW t \in Threads, Admit(t)
  PROVE  BudgetInv'
  <1>1. /\ current'.limit = current.limit /\ current'.predicted = current.predicted
        /\ current'.kernel = current.kernel
    BY DEF Admit, Base, TypeOK, LaunchType
  <1>2. Budget' = Budget /\ Committed' = Committed /\ outstanding' = outstanding
    BY DEF Admit, ring, Budget, LongestBudget, InternalLimit, PromotedLimit, TimeBudget,
           BlockBudget, Window, Partition, Lower, Committed
  <1>3. Incoming' = Incoming
    BY <1>1 DEF Incoming
  <1>4. /\ Budget \in Nat \ {0} /\ outstanding \in Int /\ Committed \in Nat
        /\ current.limit.budget \in Nat /\ Incoming \in Nat
    <2>1. Incoming \in Nat
      BY DEF Incoming, Admit, Base, CallInv, TypeOK, LaunchType
    <2> QED
      BY <2>1, BudgetType, CommittedIsNat DEF Base, TypeOK, LaunchType, LimitType
  <1>5. ASSUME outstanding >= 1
        PROVE  Incoming + Committed <= Budget
    <2>1. CASE Policy \in TimePolicies
      <3>1. current.predicted + outPredicted <= current.limit.budget
        <4>1. current.predicted \in Nat /\ outPredicted \in Int
          BY DEF Base, TypeOK, LaunchType
        <4> QED
          BY <1>4, <1>5, <2>1, <4>1 DEF Admit, MustWait, Exceeds
      <3>2. Incoming = current.predicted /\ Committed = outPredicted
        BY <2>1 DEF Incoming, Committed, TimePolicies
      <3> QED
        BY <1>4, <3>1, <3>2 DEF BudgetInv
    <2>2. CASE Policy \in {"blocks", "gap"}
      <3>1. BlocksOf[current.kernel] + outBlocks <= current.limit.budget
        <4>1. BlocksOf[current.kernel] \in Nat /\ outBlocks \in Int
          BY DEF Admit, Base, CallInv, TypeOK
        <4> QED
          BY <1>4, <1>5, <2>2, <4>1 DEF Admit, MustWait, Exceeds
      <3>2. Incoming = BlocksOf[current.kernel] /\ Committed = outBlocks
        BY <2>2 DEF Incoming, Committed, TimePolicies
      <3> QED
        BY <1>4, <3>1, <3>2 DEF BudgetInv
    <2>3. CASE Policy \notin TimePolicies \cup {"blocks", "gap"}
      BY <1>4, <2>3 DEF Incoming, Committed
    <2> QED
      BY <2>1, <2>2, <2>3
  <1> QED
    BY <1>1, <1>2, <1>3, <1>4, <1>5 DEF BudgetInv

\* The launch that enters the ring was admitted with what it joins.
LEMMA TrackBudget ==
  ASSUME Base, RingInv, BudgetInv, NEW t \in Threads, AfterTracked(t)
  PROVE  BudgetInv'
  <1>1. /\ current.windowed /\ Track(t) /\ current' = NoLaunch
        /\ outstanding' = outstanding + 1 /\ outstanding \in 0 .. Window
    BY DEF AfterTracked, Finish, Track, RingInv
  <1>2. Budget' = Budget
    BY DEF Budget, LongestBudget, InternalLimit, PromotedLimit, TimeBudget,
           BlockBudget, Window, Partition, Lower
  <1>3. Committed' = Incoming + Committed
    <2>1. /\ outBlocks' = BlocksOf[current.kernel] + outBlocks
          /\ outPredicted' = current.predicted + outPredicted
      <3>1. /\ BlocksOf[current.kernel] \in Int /\ outBlocks \in Int
            /\ current.predicted \in Int /\ outPredicted \in Int
        BY DEF AfterTracked, Base, CallInv, TypeOK, LaunchType
      <3> QED
        BY <1>1, <3>1 DEF Track
    <2> QED
      BY <2>1 DEF Committed, Incoming
  <1>4. outstanding' >= 2 => outstanding >= 1
    BY <1>1, WindowType
  <1>5. /\ current'.limit.budget = 1 /\ ~current'.windowed
        /\ Budget \in Nat \ {0}
    BY <1>1, BudgetType DEF NoLaunch, NoLimit
  <1> QED
    BY <1>1, <1>2, <1>3, <1>4, <1>5 DEF BudgetInv

\* Every step keeps BudgetInv.
LEMMA NextBudget ==
  ASSUME Base, RingInv, RoomInv, SumInv, StageInv, BudgetInv, [Next]_vars
  PROVE  BudgetInv'
  <1> USE DEF vars
  <1>1. /\ ~NoLaunch.windowed /\ NoLaunch.limit \in LimitType
        /\ NoLaunch.limit.budget <= Budget
    BY BudgetType DEF NoLaunch, NoLimit, LimitType
  <1>2. ASSUME NEW t \in Threads, Work(t)
        PROVE  BudgetInv'
    <2>1. CASE AfterTracked(t)
      BY <2>1, TrackBudget
    <2>2. CASE AfterUntracked(t) \/ AfterBypass(t) \/ IssueFails(t)
      BY <1>1, <2>2, SameBudget DEF AfterUntracked, AfterBypass, IssueFails, Finish
    <2>3. CASE Issue(t)
      <3>1. /\ current'.limit = current.limit
            /\ UNCHANGED <<current.windowed, current.predicted, current.kernel>>
        BY <2>3 DEF Issue, Base, TypeOK, LaunchType
      <3> QED
        BY <2>3, <3>1, SameBudget DEF Issue
    <2>4. CASE Admit(t)
      BY <2>4, AdmitBudget
    <2>5. CASE ChooseLimit(t) \/ SurvivalAdmission(t)
      <3>1. ~current.windowed
        BY <2>5, NotStaged DEF ChooseLimit, SurvivalAdmission
      <3>2. PICK l \in LimitType : l.budget <= Budget /\ current' = [current EXCEPT !.limit = l]
        <4>1. ASSUME NEW m \in LimitType
              PROVE  /\ [m EXCEPT !.window = 1] \in LimitType
                     /\ [m EXCEPT !.window = 1].budget = m.budget
          BY DEF LimitType
        <4>2. CASE ChooseLimit(t)
          BY <4>2, BudgetType, EffectiveLimitsType DEF ChooseLimit
        <4>3. CASE SurvivalAdmission(t)
          BY <4>1, <4>3, BudgetType, LimitTypes DEF SurvivalAdmission
        <4> QED
          BY <2>5, <4>2, <4>3
      <3>3. current'.limit = l /\ ~current'.windowed
        BY <3>1, <3>2 DEF Base, TypeOK, LaunchType
      <3> QED
        BY <2>5, <3>2, <3>3, SameBudget DEF ChooseLimit, SurvivalAdmission
    <2>6. CASE Predict(t)
      <3>1. ~current.windowed
        BY <2>6, NotStaged DEF Predict
      <3>2. ~current'.windowed /\ current'.limit = current.limit
        BY <2>6, <3>1 DEF Predict, Base, TypeOK, LaunchType
      <3> QED
        BY <2>6, <3>2, SameBudget DEF Predict
    <2>7. CASE \/ ReadOwner(t) \/ Bypass(t) \/ WaitUntilIdle(t) \/ RecheckIdle(t)
               \/ EndBoundary(t)
      BY <2>7, SameBudget DEF ReadOwner, Bypass, WaitUntilIdle, RecheckIdle, EndBoundary
    <2>8. CASE Drain(t) \/ SurvivalRejection(t) \/ RetireForRoom(t) \/ DrainBoundary(t)
      <3>1. ~current.windowed /\ current' = current
        BY <2>8, NotStaged DEF Drain, SurvivalRejection, RetireForRoom, DrainBoundary
      <3>2. RetireOldest(t) \/ UNCHANGED ring
        BY <2>8 DEF Drain, SurvivalRejection, RetireForRoom, DrainBoundary
      <3> QED
        BY <3>1, <3>2, RetireBudget, SameBudget
    <2> QED
      BY <1>2, <2>1, <2>2, <2>3, <2>4, <2>5, <2>6, <2>7, <2>8 DEF Work
  <1>3. ASSUME NEW t \in Threads, NEW k \in Kernels, NEW h \in Handles, Begin(t, k, h)
        PROVE  BudgetInv'
    <2>1. ~current'.windowed /\ current'.limit = NoLaunch.limit
      BY <1>3 DEF Begin, NoLaunch
    <2> QED
      BY <1>1, <1>3, <2>1, SameBudget DEF Begin
  <1>4. ASSUME NEW t \in Threads, BeginBoundary(t)
        PROVE  BudgetInv'
    BY <1>4, SameBudget DEF BeginBoundary
  <1>5. CASE HpStep \/ (\E q \in inflight : Complete(q)) \/ UNCHANGED vars
    BY <1>5, SameBudget DEF HpStep, Complete, ring
  <1> QED
    BY <1>2, <1>3, <1>4, <1>5 DEF Next

LEMMA BudgetCorrect == Spec => []BudgetInv
  <1>1. Init => BudgetInv
    BY BudgetType DEF Init, BudgetInv, NoLaunch, NoLimit
  <1> QED
    BY <1>1, BaseCorrect, RingCorrect, SumCorrect, SampleCorrect, NextBudget, PTL
    DEF Spec
---------------------------------------------------------------------------
(* The device stays within the limits. *)

\* The admitted launches on the device that have a slot of their own.
Tracked == {q \in Windowed : q.id # current.id}

\* Everything the argument needs of a state.
DeviceInv ==
  Base /\ RingInv /\ RoomInv /\ TrackInv /\ SumInv /\ StageInv /\ OwnInv /\ BudgetInv

SlotFor == [q \in Tracked |-> CHOOSE i \in SlotIds : Owns(i, q)]

\* No two launches share a slot.
LEMMA OwnSlots ==
  ASSUME DeviceInv
  PROVE  /\ IsFiniteSet(Windowed) /\ IsFiniteSet(Tracked) /\ IsFiniteSet(ActiveSlots)
         /\ SlotFor \in Injection(Tracked, ActiveSlots)
         /\ \A q \in Tracked : SlotFor[q] \in SlotIds /\ Owns(SlotFor[q], q)
         /\ Cardinality(Tracked) \in Nat /\ Cardinality(Tracked) <= outstanding
  <1>1. IsFiniteSet(Windowed) /\ IsFiniteSet(Tracked) /\ IsFiniteSet(ActiveSlots)
    <2>1. IsFiniteSet(Windowed)
      BY FS_Subset DEF DeviceInv, OwnInv, Windowed
    <2> QED
      BY <2>1, SlotsFinite, FS_Subset DEF Tracked
  <1>2. \A q \in Tracked : SlotFor[q] \in SlotIds /\ Owns(SlotFor[q], q)
    BY DEF DeviceInv, OwnInv, Tracked, SlotFor
  <1>3. SlotFor \in [Tracked -> ActiveSlots]
    BY <1>2 DEF SlotFor, ActiveSlots, Owns
  <1>4. ASSUME NEW q \in Tracked, NEW r \in Tracked, SlotFor[q] = SlotFor[r]
        PROVE  q = r
    <2>1. q.id = r.id
      BY <1>2, <1>4 DEF Owns
    <2> QED
      BY <2>1 DEF DeviceInv, OwnInv, Tracked, Windowed
  <1>5. SlotFor \in Injection(Tracked, ActiveSlots)
    BY <1>3, <1>4 DEF Injection, IsInjective
  <1>6. Cardinality(Tracked) \in Nat /\ Cardinality(Tracked) <= Cardinality(ActiveSlots)
    BY <1>1, <1>5, FS_Injection, FS_CardinalityType
  <1> QED
    BY <1>1, <1>2, <1>5, <1>6 DEF DeviceInv, SumInv

\* At most one admitted launch on the device has no slot: the one its thread
\* has not finished, which was admitted with room for it.
LEMMA OneMore ==
  ASSUME DeviceInv
  PROVE  \/ Windowed = Tracked
         \/ \E c \in Windowed : /\ c \notin Tracked /\ Windowed = Tracked \cup {c}
                                /\ c.id = current.id /\ current.windowed
  <1>1. CASE \A q \in Windowed : q.id # current.id
    BY <1>1 DEF Tracked
  <1>2. CASE \E q \in Windowed : q.id = current.id
    <2>1. PICK c \in Windowed : c.id = current.id
      BY <1>2
    <2>2. c \in inflight /\ c.windowed
      BY <2>1 DEF Windowed
    <2>3. c.id # 0
      BY <2>2 DEF DeviceInv, TrackInv, IdInv
    <2>4. PICK t \in Threads : pc[t] = "after"
      BY <2>1, <2>3 DEF DeviceInv, TrackInv, IdInv
    <2>5. current.windowed
      BY <2>1, <2>2, <2>4 DEF DeviceInv, TrackInv, IdInv
    <2>6. \A q \in Windowed : q.id = current.id => q = c
      BY <2>1, <2>2 DEF DeviceInv, OwnInv, Windowed
    <2> QED
      BY <2>1, <2>5, <2>6 DEF Tracked
  <1> QED
    BY <1>1, <1>2

\* Never more admitted launches than the window.
LEMMA DeviceWindow ==
  ASSUME DeviceInv
  PROVE  /\ Cardinality(Windowed) \in Nat /\ Cardinality(Windowed) <= Window
         /\ Cardinality(Windowed) >= 2 => outstanding >= 1
  <1>1. outstanding \in 0 .. Window /\ Window \in Nat
    BY WindowType DEF DeviceInv, RingInv
  <1>2. CASE Windowed = Tracked
    BY <1>1, <1>2, OwnSlots
  <1>3. ASSUME NEW c \in Windowed, c \notin Tracked, Windowed = Tracked \cup {c},
               current.windowed
        PROVE  /\ Cardinality(Windowed) \in Nat /\ Cardinality(Windowed) <= Window
               /\ Cardinality(Windowed) >= 2 => outstanding >= 1
    <2>1. Cardinality(Windowed) = Cardinality(Tracked) + 1
      BY <1>3, OwnSlots, FS_AddElement
    <2>2. outstanding < Window
      BY <1>3 DEF DeviceInv, RoomInv
    <2> QED
      BY <1>1, <2>1, <2>2, OwnSlots
  <1> QED
    BY <1>2, <1>3, OneMore

\* A cost f of launches that slots account for (g), of which the launch being
\* made has its own, and which is within the budget for the tracked launches and
\* for the one that joins them.
Accounted(f, g, own, total) ==
  /\ own \in Nat /\ total \in Nat
  /\ \A q \in Windowed : f[q] \in Nat
  /\ \A i \in ActiveSlots : g[i] \in Nat
  /\ total = SumFunctionOnSet(g, ActiveSlots)
  /\ \A q \in Windowed : q.id = current.id => f[q] = own
  /\ \A q \in Windowed, i \in ActiveSlots : Owns(i, q) => f[q] = g[i]
  /\ outstanding >= 2 => total <= Budget
  /\ current.windowed /\ outstanding >= 1 => own + total <= Budget

\* It is within the budget on the device.
LEMMA DeviceCost ==
  ASSUME DeviceInv, NEW f, NEW g, NEW own, NEW total, Accounted(f, g, own, total),
         Cardinality(Windowed) >= 2
  PROVE  SumFunctionOnSet(f, Windowed) <= Budget
  <1> USE BudgetType DEF Accounted
  <1>1. /\ SumFunctionOnSet(f, Tracked) <= total
        /\ SumFunctionOnSet(f, Tracked) \in Int
    <2>1. \A q \in Tracked : f[q] \in Int /\ f[q] <= g[SlotFor[q]]
      <3>1. \A q \in Tracked : SlotFor[q] \in ActiveSlots
        BY OwnSlots DEF Injection
      <3> QED
        BY <3>1, OwnSlots DEF Tracked
    <2>2. \A i \in ActiveSlots : g[i] \in Int /\ g[i] >= 0
      OBVIOUS
    <2> QED
      BY <2>1, <2>2, OwnSlots, SumInjection, SumType
  <1>2. CASE Windowed = Tracked
    <2>1. outstanding >= 2
      <3>1. outstanding \in Int
        BY DEF DeviceInv, Base, TypeOK
      <3> QED
        BY <1>2, <3>1, OwnSlots
    <2> QED
      BY <1>1, <1>2, <2>1
  <1>3. ASSUME NEW c \in Windowed, c \notin Tracked, Windowed = Tracked \cup {c},
               c.id = current.id, current.windowed
        PROVE  SumFunctionOnSet(f, Windowed) <= Budget
    <2>1. SumFunctionOnSet(f, Tracked \cup {c}) = f[c] + SumFunctionOnSet(f, Tracked)
      <3>1. \A q \in Tracked \cup {c} : f[q] \in Int
        BY <1>3
      <3> QED
        BY <1>3, <3>1, OwnSlots, SumAdd
    <2>2. f[c] = own /\ outstanding >= 1
      BY <1>3, DeviceWindow
    <2> QED
      BY <1>1, <1>3, <2>1, <2>2
  <1> QED
    BY <1>2, <1>3, OneMore

\* So the predicted times, or the blocks, are within the budget.
LEMMA DeviceBudget ==
  ASSUME DeviceInv, Cardinality(Windowed) >= 2
  PROVE  /\ Policy \in TimePolicies =>
              SumFunctionOnSet([q \in Windowed |-> q.predicted], Windowed) <= Budget
         /\ Policy \in {"blocks", "gap"} =>
              SumFunctionOnSet([q \in Windowed |-> q.blocks], Windowed) <= Budget
  <1>1. /\ Budget \in Nat /\ outPredicted \in Nat /\ outBlocks \in Nat
        /\ outPredicted = SumFunctionOnSet(PredictedIn, ActiveSlots)
        /\ outBlocks = SumFunctionOnSet(BlocksIn, ActiveSlots)
    BY BudgetType, CommittedIsNat DEF DeviceInv, SumInv
  <1>2. \A i \in ActiveSlots : /\ BlocksIn[i] = slots[i].blocks /\ BlocksIn[i] \in Nat
                               /\ PredictedIn[i] = slots[i].predicted
                               /\ PredictedIn[i] \in Nat
    BY CommittedType DEF DeviceInv, Base, ActiveSlots
  <1>3. \A q \in Windowed : q.predicted \in Nat /\ q.blocks \in Nat
    BY DEF DeviceInv, Base, TypeOK, InflightType, Windowed
  <1>4. ASSUME Policy \in TimePolicies
        PROVE  SumFunctionOnSet([q \in Windowed |-> q.predicted], Windowed) <= Budget
    <2> DEFINE f == [q \in Windowed |-> q.predicted]
    <2> SUFFICES SumFunctionOnSet(f, Windowed) <= Budget
      OBVIOUS
    <2>1. Committed = outPredicted /\ Incoming = current.predicted
      BY <1>4 DEF Committed, Incoming, TimePolicies
    <2>2. /\ outstanding >= 2 => outPredicted <= Budget
          /\ current.windowed /\ outstanding >= 1 =>
               current.predicted + outPredicted <= Budget
      BY <2>1 DEF DeviceInv, BudgetInv
    <2>3. \A q \in Windowed : q.id = current.id => f[q] = current.predicted
      BY DEF DeviceInv, OwnInv, Windowed
    <2>4. \A q \in Windowed, i \in ActiveSlots : Owns(i, q) => f[q] = PredictedIn[i]
      BY <1>2 DEF Owns
    <2>5. current.predicted \in Nat
      BY DEF DeviceInv, Base, TypeOK, LaunchType
    <2>6. \A q \in Windowed : f[q] \in Nat
      BY <1>3
    <2> HIDE DEF f
    <2>7. Accounted(f, PredictedIn, current.predicted, outPredicted)
      BY <1>1, <1>2, <2>2, <2>3, <2>4, <2>5, <2>6 DEF Accounted
    <2> QED
      BY <2>7, DeviceCost
  <1>5. ASSUME Policy \in {"blocks", "gap"}
        PROVE  SumFunctionOnSet([q \in Windowed |-> q.blocks], Windowed) <= Budget
    <2> DEFINE f == [q \in Windowed |-> q.blocks]
    <2> SUFFICES SumFunctionOnSet(f, Windowed) <= Budget
      OBVIOUS
    <2>1. Committed = outBlocks /\ Incoming = BlocksOf[current.kernel]
      BY <1>5 DEF Committed, Incoming, TimePolicies
    <2>2. /\ outstanding >= 2 => outBlocks <= Budget
          /\ current.windowed /\ outstanding >= 1 =>
               BlocksOf[current.kernel] + outBlocks <= Budget
      BY <2>1 DEF DeviceInv, BudgetInv
    <2>3. \A q \in Windowed : q.id = current.id => f[q] = BlocksOf[current.kernel]
      BY DEF DeviceInv, OwnInv, Windowed
    <2>4. \A q \in Windowed, i \in ActiveSlots : Owns(i, q) => f[q] = BlocksIn[i]
      BY <1>2 DEF Owns
    <2>5. \A q \in Windowed : f[q] \in Nat
      BY <1>3
    <2> HIDE DEF f
    <2>6. CASE current.windowed
      <3>1. BlocksOf[current.kernel] \in Nat
        BY <2>6 DEF DeviceInv, StageInv, Base, CallInv
      <3>2. Accounted(f, BlocksIn, BlocksOf[current.kernel], outBlocks)
        BY <1>1, <1>2, <2>2, <2>3, <2>4, <2>5, <3>1 DEF Accounted
      <3> QED
        BY <3>2, DeviceCost
    <2>7. CASE ~current.windowed
      <3>1. \A q \in Windowed : q.id = current.id => f[q] = 0
        BY <2>7, OneMore DEF Tracked
      <3>2. Accounted(f, BlocksIn, 0, outBlocks)
        BY <1>1, <1>2, <2>2, <2>4, <2>5, <2>7, <3>1 DEF Accounted
      <3> QED
        BY <3>2, DeviceCost
    <2> QED
      BY <2>6, <2>7
  <1> QED
    BY <1>4, <1>5

LEMMA DeviceInvCorrect == Spec => []DeviceInv
  BY BaseCorrect, RingCorrect, TrackCorrect, SumCorrect, SampleCorrect, OwnCorrect,
     BudgetCorrect, PTL DEF DeviceInv

\* Whatever the policy, the failures and the order of completions: the device
\* never holds more admitted launches than the window, and two or more of them
\* are predicted to stay within the budget (the three admission loops of
\* event_be_before_launch).
THEOREM LimitsHold == Spec => []DeviceWithinLimits
  <1>1. ASSUME DeviceInv PROVE DeviceWithinLimits
    <2>1. Policy \in TimePolicies => Budget = LongestBudget
      BY DEF Budget
    <2>2. Policy \in {"blocks", "gap"} => Budget = BlockBudget
      BY DEF Budget, TimePolicies
    <2> QED
      BY <1>1, <2>1, <2>2, DeviceWindow, DeviceBudget DEF DeviceWithinLimits, SumFunction
  <1> QED
    BY <1>1, DeviceInvCorrect, PTL
---------------------------------------------------------------------------
(* The refinement of BePromise. *)

\* What BePromise sees of the device.
Shown(q) == [id |-> q.id, cost |-> Cost(q)]
Device   == {Shown(q) : q \in Windowed}

\* The launch behind what is shown.
Behind == [d \in Device |-> CHOOSE q \in Windowed : d = Shown(q)]

\* BePromise counts and adds as this module does.
LEMMA SameCount ==
  /\ \A S : HpView!Cardinality(S) = Cardinality(S)
  /\ \A f : HpView!SumFunction(f) = SumFunction(f)
  BY DEF HpView!Cardinality, Cardinality, HpView!SumFunction, SumFunction,
         HpView!SumFunctionOnSet, SumFunctionOnSet, HpView!FoldFunctionOnSet,
         FoldFunctionOnSet, HpView!MapThenFoldSet, MapThenFoldSet

\* What is shown of the device fits into the promised limits.
LEMMA DeviceFits ==
  ASSUME DeviceInv
  PROVE  HpView!Fits(Device)
  <1> DEFINE cost == [q \in Windowed |-> Cost(q)]
             shown == [d \in Device |-> d.cost]
  <1>1. /\ Behind \in [Device -> Windowed]
        /\ \A d \in Device : d = Shown(Behind[d])
    BY DEF Device, Behind
  <1>2. Behind \in Injection(Device, Windowed)
    BY <1>1 DEF Injection, IsInjective
  <1>3. IsFiniteSet(Device) /\ Cardinality(Device) <= Cardinality(Windowed)
    BY <1>2, OwnSlots, FS_Injection
  <1>4. Cardinality(Device) \in Nat /\ Cardinality(Windowed) \in Nat /\ Window \in Nat
    BY <1>3, OwnSlots, FS_CardinalityType, WindowType
  <1>5. Cardinality(Device) <= Window
    BY <1>3, <1>4, DeviceWindow
  <1>6. \A q \in Windowed : q.predicted \in Nat /\ q.blocks \in Nat
    BY DEF DeviceInv, Base, TypeOK, InflightType, Windowed
  <1>7. \A q \in Windowed : cost[q] \in Int /\ cost[q] >= 0
    BY <1>6 DEF Cost
  <1>8. SumFunctionOnSet(shown, Device) <= SumFunctionOnSet(cost, Windowed)
    <2>1. \A d \in Device : shown[d] = cost[Behind[d]]
      BY <1>1 DEF Shown
    <2>2. \A d \in Device : shown[d] \in Int /\ shown[d] <= cost[Behind[d]]
      BY <1>1, <1>7, <2>1
    <2> HIDE DEF shown, cost
    <2> QED
      BY <1>2, <1>3, <1>7, <2>2, OwnSlots, SumInjection
  <1>9. Cardinality(Device) >= 2 => SumFunctionOnSet(cost, Windowed) <= Budget
    <2> SUFFICES ASSUME Cardinality(Device) >= 2
                 PROVE  SumFunctionOnSet(cost, Windowed) <= Budget
      OBVIOUS
    <2>1. Cardinality(Windowed) >= 2
      BY <1>3, <1>4
    <2>2. CASE Policy \in TimePolicies
      <3>1. cost = [q \in Windowed |-> q.predicted]
        BY <2>2 DEF Cost, TimePolicies
      <3> HIDE DEF cost
      <3> QED
        BY <2>1, <2>2, <3>1, DeviceBudget
    <2>3. CASE Policy \in {"blocks", "gap"}
      <3>1. cost = [q \in Windowed |-> q.blocks]
        BY <2>3 DEF Cost, TimePolicies
      <3> HIDE DEF cost
      <3> QED
        BY <2>1, <2>3, <3>1, DeviceBudget
    <2>4. CASE Policy \notin TimePolicies \cup {"blocks", "gap"}
      <3>1. \A q \in Windowed : cost[q] = 0
        BY <2>4 DEF Cost
      <3> HIDE DEF cost
      <3>2. SumFunctionOnSet(cost, Windowed) = 0
        BY <3>1, OwnSlots, SumZero
      <3> QED
        BY <3>2, BudgetType
    <2> QED
      BY <2>2, <2>3, <2>4
  <1>10. Cardinality(Device) >= 2 => SumFunction(shown) <= Budget
    <2>1. DOMAIN shown = Device
      OBVIOUS
    <2>2. SumFunctionOnSet(shown, Device) \in Int /\ SumFunctionOnSet(cost, Windowed) \in Int
      <3>1. \A d \in Device : shown[d] \in Int
        BY <1>1, <1>7 DEF Shown
      <3> HIDE DEF shown, cost
      <3> QED
        BY <1>3, <1>7, <3>1, OwnSlots, SumType
    <2> HIDE DEF shown, cost
    <2> QED
      BY <1>8, <1>9, <2>1, <2>2, BudgetType DEF SumFunction
  <1> QED
    BY <1>5, <1>10, SameCount DEF HpView!Fits, Budget

\* Where a thread holds the permit.
Holds(label) == \/ label \in {"drain", "choose", "admit", "issue"}
                \/ label = "predict" /\ Policy # "survival"

\* The permit follows the program counter of the lock's holder.
LEMMA PermitMoves ==
  ASSUME Base, NEW t \in Threads, pc[t] # "idle", NEW label, pc' = [pc EXCEPT ![t] = label]
  PROVE  (Permitted <=> Holds(pc[t])) /\ (Permitted' <=> Holds(label))
  <1>1. \A u \in Threads : u # t => pc[u] = "idle"
    BY OnlyHolder
  <1>2. pc'[t] = label /\ \A u \in Threads : u # t => pc'[u] = "idle"
    BY <1>1 DEF Base, TypeOK
  <1> QED
    BY <1>1, <1>2 DEF Permitted, Holds

\* Steps that change the permit only: it is taken while the HP is not active,
\* or given back.
LEMMA PermitStep ==
  ASSUME hp' = hp, inflight' = inflight, forgotten' = forgotten,
         Permitted' /\ ~Permitted => hp # "active"
  PROVE  [HpView!PromiseNext]_(HpView!promiseVars)
  <1>1. Device' = Device
    BY DEF Device, Shown, Cost, Windowed
  <1>2. Permitted \in BOOLEAN /\ Permitted' \in BOOLEAN
    BY DEF Permitted
  <1>3. CASE Permitted' = Permitted
    BY <1>1, <1>3 DEF HpView!promiseVars, Device, Shown
  <1>4. CASE Permitted' /\ ~Permitted
    BY <1>1, <1>2, <1>4 DEF HpView!PromiseNext, HpView!Permit, Device, Shown
  <1>5. CASE ~Permitted' /\ Permitted
    BY <1>1, <1>2, <1>5 DEF HpView!PromiseNext, HpView!Withdraw, Device, Shown
  <1> QED
    BY <1>2, <1>3, <1>4, <1>5

\* Steps by which at most one admitted launch is no longer counted on the
\* device, and which take no permit.
LEMMA LossStep ==
  ASSUME DeviceInv, hp' = hp, Permitted' => Permitted,
         Windowed' \subseteq Windowed, \A q, r \in Windowed \ Windowed' : q = r
  PROVE  [HpView!PromiseNext]_(HpView!promiseVars)
  <1>1. Permitted \in BOOLEAN /\ Permitted' \in BOOLEAN
    BY DEF Permitted
  <1>2. Device' = {Shown(r) : r \in Windowed'}
    BY DEF Device, Shown, Cost
  <1>3. Device' = Device \/ \E d \in Device : Device' = Device \ {d}
    <2>1. ASSUME NEW q \in Windowed \ Windowed'
          PROVE  \E d \in Device : Device' = Device \ {d}
      <3>1. Windowed' = Windowed \ {q}
        BY <2>1
      <3>2. \A r \in Windowed : Shown(r) = Shown(q) => r = q
        BY <2>1 DEF Shown, DeviceInv, OwnInv, Windowed
      <3>3. Device' = Device \ {Shown(q)} /\ Shown(q) \in Device
        BY <1>2, <2>1, <3>1, <3>2 DEF Device
      <3> QED
        BY <3>3
    <2>2. CASE Windowed' = Windowed
      BY <1>2, <2>2 DEF Device
    <2> QED
      BY <2>1, <2>2
  <1>4. CASE Permitted' = Permitted
    BY <1>3, <1>4 DEF HpView!PromiseNext, HpView!CompleteOne, HpView!OneLess,
       HpView!promiseVars, Device, Shown
  <1>5. CASE Permitted /\ ~Permitted'
    BY <1>1, <1>3, <1>5 DEF HpView!PromiseNext, HpView!Withdraw, HpView!OneLess,
       Device, Shown
  <1> QED
    BY <1>1, <1>4, <1>5

\* A launch that is given up is one.
LEMMA GiveUpOne ==
  ASSUME DeviceInv, inflight' = inflight,
         \/ forgotten' = forgotten
         \/ \E id : GiveUp(id)
  PROVE  Windowed' \subseteq Windowed /\ \A q, r \in Windowed \ Windowed' : q = r
  BY DEF GiveUp, Windowed, DeviceInv, OwnInv

\* Steps of the launch path, other than the launch itself.
LEMMA WorkKeepsPromise ==
  ASSUME DeviceInv, NEW t \in Threads, Work(t), ~Issue(t)
  PROVE  [HpView!PromiseNext]_(HpView!promiseVars)
  <1> USE DEF Goto
  <1>0. Base
    BY DEF DeviceInv
  <1>1. CASE ReadOwner(t)
    <2>1. CASE hp = "none"
      BY <1>1, <2>1, PermitStep DEF ReadOwner
    <2>2. CASE hp # "none"
      <3>1. pc[t] # "idle" /\ pc' = [pc EXCEPT ![t] = "wait"]
        BY <1>1, <2>2 DEF ReadOwner
      <3>2. Permitted' <=> Holds("wait")
        BY <3>1, <1>0, PermitMoves
      <3>3. ~Permitted'
        BY <3>2 DEF Holds
      <3> QED
        BY <1>1, <3>3, PermitStep DEF ReadOwner
    <2> QED
      BY <2>1, <2>2
  <1>2. CASE WaitUntilIdle(t)
    BY <1>2, <1>0, PermitMoves, PermitStep DEF WaitUntilIdle, Holds
  <1>3. CASE RecheckIdle(t)
    BY <1>3, <1>0, PermitMoves, PermitStep DEF RecheckIdle, Holds
  <1>4. CASE \/ Bypass(t) \/ Predict(t) \/ ChooseLimit(t) \/ SurvivalAdmission(t)
             \/ Admit(t)
    BY <1>4, <1>0, PermitMoves, PermitStep DEF Bypass, Predict, ChooseLimit,
       SurvivalAdmission, Admit, Holds
  <1>5. CASE Drain(t) \/ DrainBoundary(t) \/ SurvivalRejection(t) \/ RetireForRoom(t)
    <2>1. hp' = hp /\ inflight' = inflight
      BY <1>5 DEF Drain, DrainBoundary, SurvivalRejection, RetireForRoom
    <2>2. Permitted' => Permitted
      <3>1. CASE Drain(t) \/ DrainBoundary(t)
        BY <3>1 DEF Drain, DrainBoundary, Permitted
      <3>2. CASE SurvivalRejection(t) \/ RetireForRoom(t)
        BY <1>0, <3>2, PermitMoves DEF SurvivalRejection, RetireForRoom, Holds
      <3> QED
        BY <1>5, <3>1, <3>2
    <2>3. forgotten' = forgotten \/ \E id : GiveUp(id)
      BY <1>5 DEF Drain, DrainBoundary, SurvivalRejection, RetireForRoom, RetireOldest
    <2> QED
      BY <2>1, <2>2, <2>3, GiveUpOne, LossStep
  <1>6. CASE IssueFails(t) \/ AfterTracked(t) \/ AfterBypass(t) \/ EndBoundary(t)
    BY <1>6, <1>0, PermitMoves, PermitStep DEF IssueFails, AfterTracked, Track,
       AfterBypass, EndBoundary, Finish, Holds
  <1>7. CASE AfterUntracked(t)
    <2>1. hp' = hp /\ inflight' = inflight /\ GiveUp(current.id)
      BY <1>7 DEF AfterUntracked
    <2>2. ~Permitted'
      <3>1. pc[t] # "idle" /\ pc' = [pc EXCEPT ![t] = "idle"]
        BY <1>7 DEF AfterUntracked, Finish
      <3>2. Permitted' <=> Holds("idle")
        BY <1>0, <3>1, PermitMoves
      <3> QED
        BY <3>2 DEF Holds
    <2> QED
      BY <2>1, <2>2, GiveUpOne, LossStep
  <1> QED
    BY <1>1, <1>2, <1>3, <1>4, <1>5, <1>6, <1>7 DEF Work

\* The launch uses the permit up, and joins the device with what fits.
LEMMA IssueKeepsPromise ==
  ASSUME DeviceInv, DeviceInv', NEW t \in Threads, Issue(t)
  PROVE  [HpView!PromiseNext]_(HpView!promiseVars)
  <1> DEFINE new == [id |-> launches + 1, stream |-> StreamOf(t, current.handle),
                     windowed |-> current.windowed, predicted |-> current.predicted,
                     blocks |-> BlocksOf[current.kernel]]
  <1>1. Permitted = TRUE /\ Permitted' = FALSE
    <2>1. Permitted /\ ~Permitted'
      <3>1. pc[t] = "issue" /\ pc' = [pc EXCEPT ![t] = "after"] /\ Base
        BY DEF Issue, Goto, DeviceInv
      <3>2. (Permitted <=> Holds("issue")) /\ (Permitted' <=> Holds("after"))
        BY <3>1, PermitMoves
      <3> QED
        BY <3>2 DEF Holds
    <2> QED
      BY <2>1 DEF Permitted
  <1>2. inflight' = inflight \cup {new} /\ hp' = hp
    BY DEF Issue
  <1>3. new.windowed = current.windowed /\ new.id = launches + 1
    OBVIOUS
  <1> HIDE DEF new
  <1>4. CASE ~current.windowed
    <2>1. Windowed' = Windowed
      BY <1>2, <1>3, <1>4 DEF Windowed, Issue
    <2>2. Device' = Device
      BY <2>1 DEF Device, Shown, Cost
    <2> QED
      BY <1>1, <1>2, <2>2 DEF HpView!PromiseNext, HpView!LaunchOne, Device, Shown
  <1>5. CASE current.windowed
    <2>1. Windowed' = Windowed \cup {new}
      <3>1. current.windowed = TRUE
        BY <1>5 DEF DeviceInv, Base, TypeOK, LaunchType
      <3>2. launches + 1 \notin forgotten /\ forgotten' = forgotten
        BY DEF Issue, DeviceInv, TrackInv, IdInv, Base, TypeOK
      <3> QED
        BY <1>2, <1>3, <1>5, <3>1, <3>2 DEF Windowed
    <2>2. Device' = Device \cup {Shown(new)}
      BY <2>1 DEF Device, Shown, Cost
    <2>3. Shown(new) \notin Device
      <3>1. \A q \in Windowed : q.id # launches + 1
        BY DEF DeviceInv, TrackInv, IdInv, Base, TypeOK, Windowed
      <3> QED
        BY <1>3, <3>1 DEF Device, Shown
    <2>4. HpView!Fits(Device)'
      BY DeviceFits, PTL
    <2>5. \E d \in Device' : Device = Device' \ {d} /\ d \notin Device
      BY <2>2, <2>3
    <2> QED
      BY <1>1, <1>2, <2>4, <2>5 DEF HpView!PromiseNext, HpView!LaunchOne, Device, Shown
  <1> QED
    BY <1>4, <1>5

\* A launch completes.
LEMMA CompleteKeepsPromise ==
  ASSUME DeviceInv, NEW q \in inflight, Complete(q)
  PROVE  [HpView!PromiseNext]_(HpView!promiseVars)
  <1>1. /\ hp' = hp /\ inflight' = inflight \ {q} /\ pc' = pc
        /\ forgotten' = forgotten \cap {r.id : r \in inflight'}
    BY DEF Complete
  <1>2. Permitted' => Permitted
    BY <1>1 DEF Permitted
  <1>3. Windowed' \subseteq Windowed /\ Windowed \ Windowed' \subseteq {q}
    BY <1>1 DEF Windowed
  <1> QED
    BY <1>1, <1>2, <1>3, LossStep

\* Every step of the controller is one of BePromise, or leaves what it sees
\* alone.
LEMMA StepKeepsPromise ==
  ASSUME DeviceInv, DeviceInv', [Next]_vars
  PROVE  [HpView!PromiseNext]_(HpView!promiseVars)
  <1>1. ASSUME NEW t \in Threads, Work(t)
        PROVE  [HpView!PromiseNext]_(HpView!promiseVars)
    BY <1>1, WorkKeepsPromise, IssueKeepsPromise DEF DeviceInv
  <1>2. ASSUME NEW t \in Threads,
               BeginBoundary(t) \/ \E k \in Kernels, h \in Handles : Begin(t, k, h)
        PROVE  [HpView!PromiseNext]_(HpView!promiseVars)
    <2>1. PICK label \in {"boundary", "owner"} : pc' = [pc EXCEPT ![t] = label]
      BY <1>2 DEF Begin, BeginBoundary, Goto
    <2>2. \A u \in Threads : pc'[u] = "idle" \/ pc'[u] = label
      BY <1>2, <2>1 DEF Begin, BeginBoundary, DeviceInv, Base, LockInv, TypeOK
    <2>3. ~Permitted'
      BY <2>1, <2>2 DEF Permitted
    <2> QED
      BY <1>2, <2>3, PermitStep DEF Begin, BeginBoundary
  <1>3. ASSUME NEW q \in inflight, Complete(q)
        PROVE  [HpView!PromiseNext]_(HpView!promiseVars)
    BY <1>3, CompleteKeepsPromise
  <1>4. CASE HpStep
    <2>1. hp' # hp /\ pc' = pc /\ inflight' = inflight /\ forgotten' = forgotten
      BY <1>4 DEF HpStep, HpRegister, HpActivate, HpIdle, HpExit
    <2>2. Permitted' = Permitted /\ Device' = Device
      BY <2>1 DEF Permitted, Device, Shown, Cost, Windowed
    <2> QED
      BY <2>1, <2>2 DEF HpView!PromiseNext, HpView!HpChanges, Device, Shown
  <1>5. CASE UNCHANGED vars
    BY <1>5, PermitStep DEF vars, Permitted
  <1> QED
    BY <1>1, <1>2, <1>3, <1>4, <1>5 DEF Next

\* The controller implements BePromise: it launches on a permit it took while
\* the HP was not active, and what it admits fits into the launcher's limits,
\* in every policy.
THEOREM PromiseKept == Spec => KeepsPromise
  <1>1. Init => HpView!PromiseInit
    <2> SUFFICES ASSUME Init PROVE HpView!PromiseInit
      OBVIOUS
    <2>1. hp = "none" /\ ~Permitted /\ Windowed = {}
      BY DEF Init, Permitted, Windowed
    <2> QED
      BY <2>1 DEF HpView!PromiseInit
  <1> QED
    BY <1>1, DeviceInvCorrect, StepKeepsPromise, PTL
    DEF Spec, KeepsPromise, HpView!Promise
---------------------------------------------------------------------------
(* GraphScheduler: the controller with recorded graphs. *)

HIDE KernelAssumption
HIDE ConfigAssumption
HIDE ProfilerAssumption
HIDE FaultAssumption
HIDE BoundAssumption
USE ExecAssumption, GraphBoundAssumption

---------------------------------------------------------------------------
(* The calls of the program. *)

Changing  == {"record", "invalidate", "forget", "destroy"}
Splitting == {"graphlet", "graphlet_out", "graphlet_boundary"}
Launching == Splitting \cup {"enter", "whole", "whole_out", "whole_boundary"}

CallType == [exec : Execs \cup {NoExec}, index : Nat, handle : Handles \cup {NoStream}]
MetaType == [known : BOOLEAN, splittable : BOOLEAN, version : Nat]

\* A call has a graph, and a launch a stream; a launch in parts is at one of the
\* graphlets of its graph, and holds g_graph_lock.
CallsOK ==
  /\ graphLock \in Threads \cup {NoThread}
  /\ gpc \in [Threads -> {"none"} \cup Changing \cup Launching]
  /\ gcall \in [Threads -> CallType]
  /\ metas \in [Execs -> MetaType]
  /\ driver \in [Execs -> Nat]
  /\ outcome \in [Threads -> {"ok", "failed"}]
  /\ calls \in Nat
  /\ \A e \in Execs : metas[e].splittable => GraphletsOf[e] # << >>
  /\ \A t \in Threads :
       /\ gpc[t] = "none" => gcall[t].exec = NoExec
       /\ gpc[t] # "none" => gcall[t].exec \in Execs
       /\ gpc[t] \in Launching => gcall[t].handle \in Handles
       /\ gpc[t] = "enter" => gcall[t].index = 1
       /\ gpc[t] \in Splitting =>
            /\ gcall[t].index \in DOMAIN GraphletsOf[gcall[t].exec]
            /\ graphLock = t

LEMMA Unsplit ==
  ASSUME NEW m \in MetaType
  PROVE  /\ [m EXCEPT !.splittable = FALSE] \in MetaType
         /\ ~[m EXCEPT !.splittable = FALSE].splittable
  BY DEF MetaType

LEMMA NextIndex ==
  ASSUME NEW c \in CallType
  PROVE  /\ [c EXCEPT !.index = c.index + 1] \in CallType
         /\ [c EXCEPT !.index = c.index + 1].exec = c.exec
         /\ [c EXCEPT !.index = c.index + 1].handle = c.handle
         /\ [c EXCEPT !.index = c.index + 1].index = c.index + 1
  <1>1. c.exec \in Execs \cup {NoExec} /\ c.index + 1 \in Nat /\ c.handle \in Handles \cup {NoStream}
    BY DEF CallType
  <1>2. [c EXCEPT !.index = c.index + 1]
          = [exec |-> c.exec, index |-> c.index + 1, handle |-> c.handle]
    BY DEF CallType
  <1> QED
    BY <1>1, <1>2 DEF CallType

LEMMA InitCalls == GInit => CallsOK
  BY DEF GInit, CallsOK, NoCall, NoMeta, CallType, MetaType, Launching, Splitting,
         Changing

\* Every step of the scheduler keeps CallsOK: one case per action.
LEMMA NextCalls == CallsOK /\ [GNext]_gvars => CallsOK'
  <1> SUFFICES ASSUME CallsOK, [GNext]_gvars PROVE CallsOK'
    OBVIOUS
  <1> USE DEF CallsOK, CallType, MetaType, Launching, Splitting, Changing, GGoto, Return,
              NoCall, NoMeta
  <1>1. ASSUME NEW t \in Threads, NEW e \in Execs, Instantiate(t, e) PROVE CallsOK'
    BY <1>1 DEF Instantiate, Call
  <1>2. ASSUME NEW t \in Threads, NEW e \in Execs, Update(t, e) PROVE CallsOK'
    BY <1>2 DEF Update, Call
  <1>3. ASSUME NEW t \in Threads, NEW e \in Execs, Destroy(t, e) PROVE CallsOK'
    BY <1>3 DEF Destroy, Call
  <1>4. ASSUME NEW t \in Threads, NEW e \in Execs, NEW h \in Handles, GraphLaunch(t, e, h)
        PROVE  CallsOK'
    BY <1>4 DEF GraphLaunch, Call
  <1>5. ASSUME NEW t \in Threads, NEW k, NEW h, KernelLaunch(t, k, h) PROVE CallsOK'
    BY <1>5 DEF KernelLaunch
  <1>6. ASSUME NEW t \in Threads, Record(t) PROVE CallsOK'
    BY <1>6 DEF Record
  <1>7. ASSUME NEW t \in Threads, Invalidate(t) PROVE CallsOK'
    <2>1. gcall[t].exec \in Execs
      BY <1>7 DEF Invalidate
    <2>2. /\ metas' \in [Execs -> MetaType]
          /\ \A e \in Execs : metas'[e].splittable => metas[e].splittable
      <3> DEFINE m == metas[gcall[t].exec]
      <3>1. m \in MetaType /\ [m EXCEPT !.splittable = FALSE] \in MetaType
            /\ ~[m EXCEPT !.splittable = FALSE].splittable
        BY <2>1, Unsplit
      <3>2. metas' = [metas EXCEPT ![gcall[t].exec] = [m EXCEPT !.splittable = FALSE]]
        BY <1>7 DEF Invalidate
      <3> QED
        BY <2>1, <3>1, <3>2
    <2> QED
      BY SMTT(30), <1>7, <2>2 DEF Invalidate
  <1>8. ASSUME NEW t \in Threads, Forget(t) PROVE CallsOK'
    BY <1>8 DEF Forget
  <1>9. ASSUME NEW t \in Threads, DriverDestroy(t) PROVE CallsOK'
    BY <1>9 DEF DriverDestroy
  <1>10. ASSUME NEW t \in Threads, EnterSplit(t) PROVE CallsOK'
    <2>1. gcall[t].exec \in Execs /\ gcall[t].index = 1
      BY <1>10 DEF EnterSplit
    <2>2. 1 \in DOMAIN GraphletsOf[gcall[t].exec]
      BY <1>10, <2>1 DEF EnterSplit
    <2> QED
      BY <1>10, <2>1, <2>2 DEF EnterSplit
  <1>11. ASSUME NEW t \in Threads, EnterWhole(t) PROVE CallsOK'
    BY <1>11 DEF EnterWhole
  <1>12. ASSUME NEW t \in Threads, StartUnit(t) PROVE CallsOK'
    <2>1. CASE gpc[t] = "graphlet" /\ gpc' = [gpc EXCEPT ![t] = "graphlet_out"]
      BY <1>12, <2>1 DEF StartUnit
    <2>2. CASE gpc[t] = "whole" /\ gpc' = [gpc EXCEPT ![t] = "whole_out"]
      BY <1>12, <2>2 DEF StartUnit
    <2> QED
      BY <1>12, <2>1, <2>2 DEF StartUnit
  <1>13. ASSUME NEW t \in Threads, StartBoundary(t) PROVE CallsOK'
    BY ZenonT(30), <1>13 DEF StartBoundary
  <1>14. ASSUME NEW t \in Threads, GraphletRefused(t) PROVE CallsOK'
    BY <1>14 DEF GraphletRefused
  <1>15. ASSUME NEW t \in Threads, NextGraphlet(t) PROVE CallsOK'
    <2>1. gcall[t].exec \in Execs /\ gcall[t].index \in Nat
          /\ gcall[t].index + 1 \in DOMAIN GraphletsOf[gcall[t].exec]
      BY <1>15 DEF NextGraphlet
    <2>2. /\ gcall' \in [Threads -> CallType]
          /\ gcall'[t].exec = gcall[t].exec /\ gcall'[t].handle = gcall[t].handle
          /\ gcall'[t].index = gcall[t].index + 1
          /\ \A u \in Threads \ {t} : gcall'[u] = gcall[u]
      <3> DEFINE c == [gcall[t] EXCEPT !.index = gcall[t].index + 1]
      <3>1. gcall' = [gcall EXCEPT ![t] = c]
        BY <1>15 DEF NextGraphlet
      <3>2. c \in CallType /\ c.exec = gcall[t].exec /\ c.handle = gcall[t].handle
            /\ c.index = gcall[t].index + 1
        BY NextIndex
      <3> QED
        BY <3>1, <3>2
    <2> QED
      BY SMTT(30), <1>15, <2>1, <2>2 DEF NextGraphlet
  <1>16. ASSUME NEW t \in Threads, LastGraphlet(t) PROVE CallsOK'
    BY <1>16 DEF LastGraphlet
  <1>17. ASSUME NEW t \in Threads, WholeReturns(t) PROVE CallsOK'
    BY <1>17 DEF WholeReturns
  <1>18. ASSUME NEW t \in Threads, Controller(t) PROVE CallsOK'
    BY <1>18 DEF Controller
  <1>19. ASSUME NEW q \in inflight, DeviceCompletes(q) PROVE CallsOK'
    BY <1>19 DEF DeviceCompletes
  <1>20. CASE HpStep /\ UNCHANGED graphVars
    BY <1>20 DEF graphVars
  <1>21. CASE UNCHANGED gvars
    BY <1>21 DEF gvars, graphVars
  <1> QED
    BY <1>1, <1>2, <1>3, <1>4, <1>5, <1>6, <1>7, <1>8, <1>9, <1>10, <1>11, <1>12, <1>13,
       <1>14, <1>15, <1>16, <1>17, <1>18, <1>19, <1>20, <1>21 DEF GNext, GraphWork

LEMMA CallsCorrect == GSpec => []CallsOK
  BY InitCalls, NextCalls, PTL DEF GSpec

---------------------------------------------------------------------------
(* The refinement. *)

\* Each step of the scheduler is a step of the controller, or none of it.
LEMMA NextRefines == CallsOK /\ [GNext]_gvars => [Next]_vars
  <1> SUFFICES ASSUME CallsOK, [GNext]_gvars PROVE Next \/ UNCHANGED vars
    OBVIOUS
  <1>1. ASSUME NEW t \in Threads, NEW e \in Execs,
               Instantiate(t, e) \/ Update(t, e) \/ Destroy(t, e)
        PROVE  UNCHANGED vars
    BY <1>1 DEF Instantiate, Update, Destroy, vars
  <1>2. ASSUME NEW t \in Threads, NEW e \in Execs, NEW h \in Handles, GraphLaunch(t, e, h)
        PROVE  UNCHANGED vars
    BY <1>2 DEF GraphLaunch, vars
  <1>3. ASSUME NEW t \in Threads, NEW k \in PlainKernels, NEW h \in Handles,
               KernelLaunch(t, k, h)
        PROVE  Next
    BY <1>3 DEF KernelLaunch, PlainKernels, Next
  <1>4. ASSUME NEW t \in Threads,
               \/ Record(t) \/ Invalidate(t) \/ Forget(t) \/ DriverDestroy(t)
               \/ EnterSplit(t) \/ EnterWhole(t)
               \/ GraphletRefused(t) \/ NextGraphlet(t) \/ LastGraphlet(t) \/ WholeReturns(t)
        PROVE  UNCHANGED vars
    BY <1>4 DEF Record, Invalidate, Forget, DriverDestroy, EnterSplit, EnterWhole,
                GraphletRefused, NextGraphlet, LastGraphlet, WholeReturns, vars
  <1>5. ASSUME NEW t \in Threads, StartUnit(t) PROVE Next
    <2>1. /\ gcall[t].exec \in Execs /\ gcall[t].handle \in Handles
          /\ gcall[t].exec \in Kernels
          /\ gpc[t] = "graphlet" => Graphlet(gcall[t].exec, gcall[t].index) \in Kernels
      BY <1>5 DEF StartUnit, CallsOK, Launching, Splitting
    <2> QED
      BY <1>5, <2>1 DEF StartUnit, Next
  <1>6. ASSUME NEW t \in Threads, StartBoundary(t) PROVE Next
    BY <1>6 DEF StartBoundary, Next
  <1>7. ASSUME NEW t \in Threads, Controller(t) PROVE Next
    BY <1>7 DEF Controller, Next
  <1>8. ASSUME NEW q \in inflight, DeviceCompletes(q) PROVE Next
    BY <1>8 DEF DeviceCompletes, Next
  <1>9. CASE HpStep /\ UNCHANGED graphVars
    BY <1>9 DEF Next
  <1>10. CASE UNCHANGED gvars
    BY <1>10 DEF gvars
  <1> QED
    BY <1>1, <1>2, <1>3, <1>4, <1>5, <1>6, <1>7, <1>8, <1>9, <1>10 DEF GNext, GraphWork

\* The composition only adds to the controller, so that what is proved of
\* BeAdmission can be used here.
LEMMA GraphsRefine == GSpec => Spec
  <1>1. GInit => Init
    BY DEF GInit
  <1> QED
    BY <1>1, NextRefines, CallsCorrect, PTL DEF GSpec, Spec

LEMMA ControllerCorrect == GSpec => [](Base /\ RingInv /\ TrackInv)
  BY GraphsRefine, BaseCorrect, RingCorrect, TrackCorrect, PTL

---------------------------------------------------------------------------
(* Graphlets are up to date. *)

\* A call that changes a graph has it for itself; a graph that is splittable and
\* not being changed has the graphlets of its present version.
CurrentInv ==
  /\ \A t, u \in Threads :
       gpc[t] \in Changing /\ t # u => gcall[u].exec # gcall[t].exec
  /\ \A t \in Threads :
       /\ gpc[t] = "record" => driver[gcall[t].exec] > 0
       /\ gpc[t] = "destroy" => ~metas[gcall[t].exec].splittable
       /\ gpc[t] \in Splitting => metas[gcall[t].exec].splittable
  /\ \A e \in Execs :
       metas[e].splittable /\ (\A t \in Threads : gpc[t] \in Changing => gcall[t].exec # e) =>
         driver[e] > 0 /\ metas[e].version = driver[e]

LEMMA InitCurrent == GInit => CurrentInv
  BY DEF GInit, CurrentInv, NoCall, NoMeta, Changing, Splitting

\* Steps that touch neither graphs nor calls keep CurrentInv.
LEMMA SameCalls ==
  ASSUME CurrentInv, UNCHANGED <<gpc, gcall, metas, driver>>
  PROVE  CurrentInv'
  BY DEF CurrentInv

\* A step along a launch keeps it.
LEMMA AlongCurrent ==
  ASSUME CallsOK, CurrentInv, NEW t \in Threads, NEW label \in {"none"} \cup Launching,
         gpc[t] \notin Changing, gpc' = [gpc EXCEPT ![t] = label],
         gcall'[t].exec \in {gcall[t].exec, NoExec},
         \A u \in Threads \ {t} : gcall'[u] = gcall[u],
         label \in Splitting => metas[gcall'[t].exec].splittable,
         UNCHANGED <<metas, driver>>
  PROVE  CurrentInv'
  <1>1. /\ gpc'[t] = label /\ gpc'[t] \notin Changing
        /\ \A u \in Threads \ {t} : gpc'[u] = gpc[u] /\ gcall'[u] = gcall[u]
    BY DEF CallsOK, Changing, Launching, Splitting
  <1>2. \A u \in Threads : gpc[u] \in Changing => gcall[u].exec \in Execs
    BY DEF CallsOK, Changing
  <1>3. \A u, v \in Threads :
          gpc'[u] \in Changing /\ u # v => gcall'[v].exec # gcall'[u].exec
    BY <1>1, <1>2 DEF CurrentInv
  <1>4. \A u \in Threads :
          /\ gpc'[u] = "record" => driver'[gcall'[u].exec] > 0
          /\ gpc'[u] = "destroy" => ~metas'[gcall'[u].exec].splittable
          /\ gpc'[u] \in Splitting => metas'[gcall'[u].exec].splittable
    BY <1>1 DEF CurrentInv, Changing
  <1>5. \A e \in Execs :
          metas'[e].splittable /\ (\A u \in Threads : gpc'[u] \in Changing => gcall'[u].exec # e) =>
            driver'[e] > 0 /\ metas'[e].version = driver'[e]
    BY SMTT(30), <1>1 DEF CurrentInv
  <1> QED
    BY <1>3, <1>4, <1>5 DEF CurrentInv

\* A step that begins or ends a change of graph x, by the thread that alone has
\* it, keeps it: what other threads are at is as it was.
LEMMA ChangeCurrent ==
  ASSUME CallsOK, CurrentInv, NEW t \in Threads, NEW x \in Execs,
         gcall[t].exec \in {x, NoExec}, \A u \in Threads \ {t} : gcall[u].exec # x,
         \A u \in Threads \ {t} : gpc'[u] = gpc[u] /\ gcall'[u] = gcall[u],
         \/ gpc'[t] \in Changing /\ gcall'[t].exec = x
         \/ gpc'[t] = "none",
         gcall'[t].exec \in {x, NoExec},
         \A e \in Execs \ {x} : metas'[e] = metas[e] /\ driver'[e] = driver[e],
         gpc'[t] = "record" => driver'[x] > 0,
         gpc'[t] = "destroy" => ~metas'[x].splittable,
         gpc'[t] = "none" /\ metas'[x].splittable =>
           driver'[x] > 0 /\ metas'[x].version = driver'[x]
  PROVE  CurrentInv'
  <1>1. \A u \in Threads :
          /\ gpc[u] \in Changing \cup Splitting => gcall[u].exec \in Execs
          /\ gpc'[t] \notin Splitting
    BY DEF CallsOK, Changing, Splitting
  <1>2. \A u, v \in Threads :
          gpc'[u] \in Changing /\ u # v => gcall'[v].exec # gcall'[u].exec
    <2> SUFFICES ASSUME NEW u \in Threads, NEW v \in Threads, gpc'[u] \in Changing, u # v
                 PROVE  gcall'[v].exec # gcall'[u].exec
      OBVIOUS
    <2>1. CASE u = t
      BY <2>1 DEF Changing
    <2>2. CASE u # t /\ v = t
      BY <1>1, <2>2
    <2>3. CASE u # t /\ v # t
      BY <2>3 DEF CurrentInv
    <2> QED
      BY <2>1, <2>2, <2>3
  <1>3. \A u \in Threads :
          /\ gpc'[u] = "record" => driver'[gcall'[u].exec] > 0
          /\ gpc'[u] = "destroy" => ~metas'[gcall'[u].exec].splittable
          /\ gpc'[u] \in Splitting => metas'[gcall'[u].exec].splittable
    <2> TAKE u \in Threads
    <2>1. CASE u = t
      BY <1>1, <2>1
    <2>2. CASE u # t
      BY <1>1, <2>2 DEF CurrentInv, Changing
    <2> QED
      BY <2>1, <2>2
  <1>4. \A e \in Execs :
          metas'[e].splittable /\ (\A u \in Threads : gpc'[u] \in Changing => gcall'[u].exec # e) =>
            driver'[e] > 0 /\ metas'[e].version = driver'[e]
    <2> SUFFICES ASSUME NEW e \in Execs, metas'[e].splittable,
                        \A u \in Threads : gpc'[u] \in Changing => gcall'[u].exec # e
                 PROVE  driver'[e] > 0 /\ metas'[e].version = driver'[e]
      OBVIOUS
    <2>1. CASE e = x
      BY <2>1
    <2>2. CASE e # x
      <3>1. \A u \in Threads : gpc[u] \in Changing => gcall[u].exec # e \/ u = t
        OBVIOUS
      <3>2. gpc[t] \in Changing => gcall[t].exec # e
        BY <2>2
      <3> QED
        BY SMTT(30), <2>2, <3>1, <3>2 DEF CurrentInv
    <2> QED
      BY <2>1, <2>2
  <1> QED
    BY <1>2, <1>3, <1>4 DEF CurrentInv

LEMMA NextCurrent == CallsOK /\ CurrentInv /\ [GNext]_gvars => CurrentInv'
  <1> SUFFICES ASSUME CallsOK, CurrentInv, [GNext]_gvars PROVE CurrentInv'
    OBVIOUS
  <1> USE DEF GGoto, Return, NoCall
  <1>1. ASSUME NEW t \in Threads, NEW e \in Execs, Instantiate(t, e) PROVE CurrentInv'
    <2>1. /\ gpc[t] = "none" /\ gpc' = [gpc EXCEPT ![t] = "record"]
          /\ gcall' = [gcall EXCEPT ![t] = [exec |-> e, index |-> 1, handle |-> NoStream]]
          /\ \A u \in Threads : gcall[u].exec # e
          /\ UNCHANGED metas
          /\ driver' = [driver EXCEPT ![e] = calls + 1]
      BY <1>1 DEF Instantiate, Call, NotInUse
    <2>2. /\ gpc'[t] = "record" /\ gcall'[t].exec = e /\ gcall[t].exec = NoExec
          /\ \A u \in Threads \ {t} : gpc'[u] = gpc[u] /\ gcall'[u] = gcall[u]
      BY <2>1 DEF CallsOK
    <2>3. /\ \A x \in Execs \ {e} : metas'[x] = metas[x] /\ driver'[x] = driver[x]
          /\ gpc'[t] = "record" => driver'[e] > 0
      BY <2>1, <2>2 DEF CallsOK
    <2> QED
      BY SMTT(30), <2>1, <2>2, <2>3, ChangeCurrent DEF Changing
  <1>2. ASSUME NEW t \in Threads, NEW e \in Execs, Update(t, e) PROVE CurrentInv'
    <2>1. /\ gpc[t] = "none" /\ gpc' = [gpc EXCEPT ![t] = "invalidate"]
          /\ gcall' = [gcall EXCEPT ![t] = [exec |-> e, index |-> 1, handle |-> NoStream]]
          /\ \A u \in Threads : gcall[u].exec # e
          /\ UNCHANGED metas
          /\ driver' = [driver EXCEPT ![e] = calls + 1]
      BY <1>2 DEF Update, Call, NotInUse
    <2>2. /\ gpc'[t] = "invalidate" /\ gcall'[t].exec = e /\ gcall[t].exec = NoExec
          /\ \A u \in Threads \ {t} : gpc'[u] = gpc[u] /\ gcall'[u] = gcall[u]
      BY <2>1 DEF CallsOK
    <2>3. /\ \A x \in Execs \ {e} : metas'[x] = metas[x] /\ driver'[x] = driver[x]
          /\ gpc'[t] = "record" => driver'[e] > 0
      BY <2>1, <2>2 DEF CallsOK
    <2>4. gpc'[t] \in Changing /\ gpc'[t] \notin {"none", "record", "destroy"}
      BY <2>2 DEF Changing
    <2> QED
      BY <2>1, <2>2, <2>3, <2>4, ChangeCurrent
  <1>3. ASSUME NEW t \in Threads, NEW e \in Execs, Destroy(t, e) PROVE CurrentInv'
    <2>1. /\ gpc[t] = "none" /\ gpc' = [gpc EXCEPT ![t] = "forget"]
          /\ gcall' = [gcall EXCEPT ![t] = [exec |-> e, index |-> 1, handle |-> NoStream]]
          /\ \A u \in Threads : gcall[u].exec # e
          /\ UNCHANGED metas
          /\ UNCHANGED driver
      BY <1>3 DEF Destroy, Call, NotInUse
    <2>2. /\ gpc'[t] = "forget" /\ gcall'[t].exec = e /\ gcall[t].exec = NoExec
          /\ \A u \in Threads \ {t} : gpc'[u] = gpc[u] /\ gcall'[u] = gcall[u]
      BY <2>1 DEF CallsOK
    <2>3. /\ \A x \in Execs \ {e} : metas'[x] = metas[x] /\ driver'[x] = driver[x]
          /\ gpc'[t] = "record" => driver'[e] > 0
      BY <2>1, <2>2 DEF CallsOK
    <2> QED
      BY <2>1, <2>2, <2>3, ChangeCurrent DEF Changing
  <1>4. ASSUME NEW t \in Threads, NEW e \in Execs, NEW h \in Handles, GraphLaunch(t, e, h)
        PROVE  CurrentInv'
    BY ZenonT(30), <1>4 DEF GraphLaunch, Call, NotInChange, CurrentInv, CallsOK, Changing, Launching, Splitting
  <1>5. ASSUME NEW t \in Threads, NEW k, NEW h, KernelLaunch(t, k, h) PROVE CurrentInv'
    BY <1>5, SameCalls DEF KernelLaunch
  <1>6. ASSUME NEW t \in Threads, Record(t) PROVE CurrentInv'
    <2> DEFINE x == gcall[t].exec
    <2>1. /\ gpc[t] = "record" /\ x \in Execs /\ \A u \in Threads \ {t} : gcall[u].exec # x
      BY <1>6 DEF Record, CallsOK, CurrentInv, Changing
    <2>2. /\ gpc'[t] = "none" /\ gcall'[t].exec = NoExec
          /\ \A u \in Threads \ {t} : gpc'[u] = gpc[u] /\ gcall'[u] = gcall[u]
      BY <1>6 DEF Record, CallsOK
    <2>3. \A e \in Execs \ {x} : metas'[e] = metas[e] /\ driver'[e] = driver[e]
      BY <1>6, <2>1 DEF Record, CallsOK
    <2>4. metas'[x].splittable => driver'[x] > 0 /\ metas'[x].version = driver'[x]
      BY <1>6, <2>1 DEF Record, CallsOK, CurrentInv
    <2> QED
      BY <2>1, <2>2, <2>3, <2>4, ChangeCurrent DEF Changing
  <1>7. ASSUME NEW t \in Threads, Invalidate(t) PROVE CurrentInv'
    <2> DEFINE x == gcall[t].exec
    <2>1. /\ gpc[t] = "invalidate" /\ x \in Execs /\ \A u \in Threads \ {t} : gcall[u].exec # x
      BY <1>7 DEF Invalidate, CallsOK, CurrentInv, Changing
    <2>2. /\ gpc'[t] = "none" /\ gcall'[t].exec = NoExec
          /\ \A u \in Threads \ {t} : gpc'[u] = gpc[u] /\ gcall'[u] = gcall[u]
      BY <1>7 DEF Invalidate, CallsOK
    <2>3. \A e \in Execs \ {x} : metas'[e] = metas[e] /\ driver'[e] = driver[e]
      BY <1>7, <2>1 DEF Invalidate, CallsOK
    <2>4. ~metas'[x].splittable
      BY <1>7, <2>1, Unsplit DEF Invalidate, CallsOK
    <2> QED
      BY <2>1, <2>2, <2>3, <2>4, ChangeCurrent DEF Changing
  <1>8. ASSUME NEW t \in Threads, Forget(t) PROVE CurrentInv'
    <2> DEFINE x == gcall[t].exec
    <2>1. /\ gpc[t] = "forget" /\ x \in Execs /\ \A u \in Threads \ {t} : gcall[u].exec # x
      BY <1>8 DEF Forget, CallsOK, CurrentInv, Changing
    <2>2. /\ gpc'[t] = "destroy" /\ gcall'[t].exec = x
          /\ \A u \in Threads \ {t} : gpc'[u] = gpc[u] /\ gcall'[u] = gcall[u]
      BY <1>8 DEF Forget, CallsOK
    <2>3. \A e \in Execs \ {x} : metas'[e] = metas[e] /\ driver'[e] = driver[e]
      BY <1>8, <2>1 DEF Forget, CallsOK
    <2>4. ~metas'[x].splittable
      BY <1>8, <2>1 DEF Forget, NoMeta, CallsOK
    <2> QED
      BY <2>1, <2>2, <2>3, <2>4, ChangeCurrent DEF Changing
  <1>9. ASSUME NEW t \in Threads, DriverDestroy(t) PROVE CurrentInv'
    <2> DEFINE x == gcall[t].exec
    <2>1. /\ gpc[t] = "destroy" /\ x \in Execs /\ \A u \in Threads \ {t} : gcall[u].exec # x
      BY <1>9 DEF DriverDestroy, CallsOK, CurrentInv, Changing
    <2>2. /\ gpc'[t] = "none" /\ gcall'[t].exec = NoExec
          /\ \A u \in Threads \ {t} : gpc'[u] = gpc[u] /\ gcall'[u] = gcall[u]
      BY <1>9 DEF DriverDestroy, CallsOK
    <2>3. \A e \in Execs \ {x} : metas'[e] = metas[e] /\ driver'[e] = driver[e]
      BY <1>9, <2>1 DEF DriverDestroy, CallsOK
    <2>4. ~metas'[x].splittable
      BY <1>9, <2>1 DEF DriverDestroy, CallsOK, CurrentInv
    <2> QED
      BY <2>1, <2>2, <2>3, <2>4, ChangeCurrent DEF Changing
  <1>10. ASSUME NEW t \in Threads, EnterSplit(t) PROVE CurrentInv'
    BY <1>10, AlongCurrent DEF EnterSplit, Changing, Launching, Splitting
  <1>11. ASSUME NEW t \in Threads, EnterWhole(t) PROVE CurrentInv'
    BY <1>11, AlongCurrent DEF EnterWhole, Changing, Launching, Splitting
  <1>12. ASSUME NEW t \in Threads, StartUnit(t) PROVE CurrentInv'
    <2>1. CASE gpc[t] = "graphlet" /\ gpc' = [gpc EXCEPT ![t] = "graphlet_out"]
      BY <1>12, <2>1, AlongCurrent DEF StartUnit, Changing, Launching, Splitting, CurrentInv
    <2>2. CASE gpc[t] = "whole" /\ gpc' = [gpc EXCEPT ![t] = "whole_out"]
      BY <1>12, <2>2, AlongCurrent DEF StartUnit, Changing, Launching, Splitting
    <2> QED
      BY <1>12, <2>1, <2>2 DEF StartUnit
  <1>13. ASSUME NEW t \in Threads, StartBoundary(t) PROVE CurrentInv'
    <2>1. CASE gpc[t] = "graphlet_out" /\ gpc' = [gpc EXCEPT ![t] = "graphlet_boundary"]
      BY <1>13, <2>1, AlongCurrent DEF StartBoundary, Changing, Launching, Splitting, CurrentInv
    <2>2. CASE gpc[t] = "whole_out" /\ gpc' = [gpc EXCEPT ![t] = "whole_boundary"]
      BY <1>13, <2>2, AlongCurrent DEF StartBoundary, Changing, Launching, Splitting
    <2> QED
      BY <1>13, <2>1, <2>2 DEF StartBoundary
  <1>14. ASSUME NEW t \in Threads, GraphletRefused(t) \/ LastGraphlet(t) \/ WholeReturns(t)
         PROVE  CurrentInv'
    <2>1. /\ gpc[t] \notin Changing /\ gpc' = [gpc EXCEPT ![t] = "none"]
          /\ gcall' = [gcall EXCEPT ![t] = NoCall]
          /\ UNCHANGED <<metas, driver>>
      BY <1>14 DEF GraphletRefused, LastGraphlet, WholeReturns, Changing
    <2>2. gcall'[t].exec = NoExec /\ \A u \in Threads \ {t} : gcall'[u] = gcall[u]
      BY <2>1 DEF CallsOK
    <2> QED
      BY <2>1, <2>2, AlongCurrent DEF Splitting
  <1>15. ASSUME NEW t \in Threads, NextGraphlet(t) PROVE CurrentInv'
    <2>1. /\ gcall'[t].exec = gcall[t].exec
          /\ \A u \in Threads \ {t} : gcall'[u] = gcall[u]
      <3>1. gcall[t] \in CallType
        BY DEF CallsOK
      <3>2. gcall' = [gcall EXCEPT ![t] = [gcall[t] EXCEPT !.index = gcall[t].index + 1]]
        BY <1>15 DEF NextGraphlet
      <3> QED
        BY <3>1, <3>2, NextIndex DEF CallsOK
    <2> QED
      BY <1>15, <2>1, AlongCurrent DEF NextGraphlet, Changing, Launching, Splitting, CurrentInv
  <1>16. ASSUME NEW t \in Threads, Controller(t) PROVE CurrentInv'
    BY <1>16, SameCalls DEF Controller
  <1>17. ASSUME NEW q \in inflight, DeviceCompletes(q) PROVE CurrentInv'
    BY <1>17, SameCalls DEF DeviceCompletes
  <1>18. CASE HpStep /\ UNCHANGED graphVars
    BY <1>18, SameCalls DEF graphVars
  <1>19. CASE UNCHANGED gvars
    BY <1>19, SameCalls DEF gvars, graphVars
  <1> QED
    BY <1>1, <1>2, <1>3, <1>4, <1>5, <1>6, <1>7, <1>8, <1>9, <1>10, <1>11, <1>12, <1>13,
       <1>14, <1>15, <1>16, <1>17, <1>18, <1>19 DEF GNext, GraphWork

LEMMA CurrentCorrect == GSpec => []CurrentInv
  BY InitCurrent, NextCurrent, CallsCorrect, PTL DEF GSpec

\* A graphlet that reaches the device belongs to the present version of its
\* graph, for all interleavings of recording, updating and launching
\* (lilt_graph_invalidate against the loop of lilt_graph_launch_impl).
THEOREM NoStaleGraphlets == GSpec => GraphletsAreCurrent
  <1> DEFINE Fresh ==
        \A t \in Threads :
          pc[t] = "issue" /\ pc'[t] = "after" /\ gpc[t] = "graphlet_out" =>
            LET e == gcall[t].exec IN
            /\ metas[e].splittable
            /\ driver[e] > 0 /\ metas[e].version = driver[e]
  <1>1. CallsOK /\ CurrentInv => Fresh
    <2> SUFFICES ASSUME CallsOK, CurrentInv, NEW t \in Threads, gpc[t] = "graphlet_out"
                 PROVE  LET e == gcall[t].exec IN
                        /\ metas[e].splittable
                        /\ driver[e] > 0 /\ metas[e].version = driver[e]
      OBVIOUS
    <2> DEFINE e == gcall[t].exec
    <2>1. e \in Execs /\ metas[e].splittable /\ gpc[t] \notin Changing
      BY DEF CallsOK, CurrentInv, Changing, Splitting
    <2>2. \A u \in Threads : gpc[u] \in Changing => gcall[u].exec # e
      BY <2>1 DEF CurrentInv
    <2> QED
      BY <2>1, <2>2 DEF CurrentInv
  <1>2. CallsOK /\ CurrentInv /\ [GNext]_gvars => [Fresh]_gvars
    BY <1>1
  <1> QED
    BY <1>2, CallsCorrect, CurrentCorrect, PTL DEF GSpec, GraphletsAreCurrent

---------------------------------------------------------------------------
(* What is on the device, and who waits for it. *)

InGraphlet == {"graphlet_out", "graphlet_boundary"}

\* The thread may have a unit on the device: it has launched one and has not
\* come back from the boundary after it.
Owes(t) ==
  \/ /\ gpc[t] \in {"graphlet_out", "whole_out"}
     /\ pc[t] = "after" \/ (pc[t] = "idle" /\ outcome[t] = "ok")
  \/ /\ gpc[t] \in {"graphlet_boundary", "whole_boundary"}
     /\ pc[t] = "boundary"

\* Every launch in flight has its entry in units ...
UnitIds ==
  /\ DOMAIN units = {q.id : q \in inflight}
  /\ \A q, r \in inflight : q.id = r.id => q = r

\* ... and an admitted unit of a graph belongs to a thread that owes its
\* completion, at most one to each.
UnitOwners ==
  \A q \in Windowed :
    /\ units[q.id].index > 0 => units[q.id].thread \in Threads
    /\ \A u \in Threads : units[q.id].thread = u =>
         /\ Owes(u)
         /\ units[q.id].index > 0 => gpc[u] \in InGraphlet
         /\ \A r \in Windowed : units[r.id].thread = u => r = q

Accepted == \A t \in Threads : pc[t] = "after" => outcome[t] = "ok"

UnitsInv == UnitIds /\ UnitOwners /\ Accepted

LEMMA InitUnits == GInit => UnitsInv
  <1> SUFFICES ASSUME GInit PROVE UnitsInv
    OBVIOUS
  <1>1. inflight = {} /\ units = << >> /\ \A t \in Threads : pc[t] = "idle"
    BY DEF GInit, Init
  <1> QED
    BY <1>1 DEF UnitsInv, UnitIds, UnitOwners, Accepted, Windowed

\* A step that leaves the device alone keeps the units if nobody who owes one
\* goes away.
LEMMA KeepUnits ==
  ASSUME UnitsInv, UNCHANGED <<units, inflight>>, forgotten \subseteq forgotten',
         \A t \in Threads :
           /\ Owes(t) => Owes(t)' /\ (gpc[t] \in InGraphlet => gpc'[t] \in InGraphlet)
           /\ pc'[t] = "after" => outcome'[t] = "ok"
  PROVE  UnitsInv'
  <1>1. UnitIds'
    BY DEF UnitsInv, UnitIds
  <1>2. Accepted'
    BY DEF Accepted
  <1>3. Windowed' \subseteq Windowed
    BY DEF Windowed
  <1>4. UnitOwners'
    BY <1>3 DEF UnitsInv, UnitOwners
  <1> QED
    BY <1>1, <1>2, <1>4 DEF UnitsInv

\* In particular a step of one thread that owes nothing.
LEMMA MoveUnits ==
  ASSUME UnitsInv, NEW t \in Threads, ~Owes(t),
         UNCHANGED <<units, inflight>>, forgotten \subseteq forgotten',
         \A u \in Threads \ {t} : gpc'[u] = gpc[u] /\ pc'[u] = pc[u] /\ outcome'[u] = outcome[u],
         pc'[t] = "after" => outcome'[t] = "ok"
  PROVE  UnitsInv'
  <1>1. \A u \in Threads :
          /\ Owes(u) => Owes(u)' /\ (gpc[u] \in InGraphlet => gpc'[u] \in InGraphlet)
          /\ pc'[u] = "after" => outcome'[u] = "ok"
    BY DEF Owes, UnitsInv, Accepted
  <1> QED
    BY <1>1, KeepUnits

\* The step of the controller that reaches the device: a new launch.
LEMMA IssueUnits ==
  ASSUME CallsOK, Base, TrackInv, UnitsInv, NEW t \in Threads, Controller(t), Issue(t)
  PROVE  UnitsInv'
  <1> DEFINE n == launches + 1
             new == [id |-> n, stream |-> StreamOf(t, current.handle),
                     windowed |-> current.windowed, predicted |-> current.predicted,
                     blocks |-> BlocksOf[current.kernel]]
  <1>1. /\ pc[t] = "issue" /\ pc'[t] = "after" /\ \A u \in Threads \ {t} : pc'[u] = pc[u]
        /\ launches' = n /\ inflight' = inflight \cup {new}
    BY DEF Issue, Goto, Base, TypeOK
  <1>2. /\ outcome' = [outcome EXCEPT ![t] = "ok"]
        /\ units' = [id \in DOMAIN units \cup {n} |->
                       IF id \in DOMAIN units THEN units[id] ELSE Unit(t)]
        /\ UNCHANGED <<gpc, gcall>>
    BY <1>1 DEF Controller
  <1>3. \A q \in inflight : q.id \in DOMAIN units /\ q.id # n
    BY DEF UnitsInv, UnitIds, TrackInv, IdInv, Base, TypeOK
  <1>4. UnitIds'
    <2>1. DOMAIN units' = DOMAIN units \cup {n}
      BY <1>2
    <2>2. {q.id : q \in inflight'} = {q.id : q \in inflight} \cup {n}
      <3>1. new.id = n
        OBVIOUS
      <3> HIDE DEF new
      <3> QED
        BY <1>1, <3>1
    <2>3. \A q, r \in inflight' : q.id = r.id => q = r
      BY <1>1, <1>3 DEF UnitsInv, UnitIds
    <2> QED
      BY <2>1, <2>2, <2>3 DEF UnitsInv, UnitIds
  <1>5. units'[n] = Unit(t) /\ \A q \in inflight : units'[q.id] = units[q.id]
    BY <1>2, <1>3 DEF UnitsInv, UnitIds
  <1>6. Windowed \subseteq Windowed' /\ Windowed' \subseteq Windowed \cup {new} /\ new.id = n
        /\ Windowed \subseteq inflight
    BY <1>1 DEF Windowed, Issue
  <1>7. \A q \in Windowed : units[q.id].thread # t
    BY <1>1 DEF UnitsInv, UnitOwners, Owes
  <1>8. /\ \A u \in Threads : Owes(u) => Owes(u)'
        /\ \A u \in Threads \ {t} : outcome'[u] = outcome[u]
        /\ outcome'[t] = "ok"
    BY <1>1, <1>2 DEF Owes, CallsOK
  <1>9. /\ Unit(t).thread \in Threads => Unit(t).thread = t /\ Owes(t)'
        /\ Unit(t).index > 0 => Unit(t).thread = t /\ gpc[t] = "graphlet_out"
    BY <1>1, <1>2 DEF Unit, Plain, Owes
  <1>10. UnitOwners'
    <2> SUFFICES ASSUME NEW q \in Windowed'
                 PROVE  /\ units'[q.id].index > 0 => units'[q.id].thread \in Threads
                        /\ \A u \in Threads : units'[q.id].thread = u =>
                             /\ Owes(u)'
                             /\ units'[q.id].index > 0 => gpc'[u] \in InGraphlet
                             /\ \A r \in Windowed' : units'[r.id].thread = u => r = q
      BY DEF UnitOwners
    <2>1. CASE q = new
      <3>1. units'[q.id] = Unit(t)
        BY <1>5, <1>6, <2>1
      <3>2. \A r \in Windowed' : units'[r.id].thread = t => r = new
        BY <1>5, <1>6, <1>7
      <3> QED
        BY ZenonT(30), <1>2, <1>9, <2>1, <3>1, <3>2 DEF InGraphlet
    <2>2. CASE q \in Windowed
      <3>1. units'[q.id] = units[q.id] /\ \A r \in Windowed : units'[r.id] = units[r.id]
        BY <1>5, <1>6, <2>2
      <3>2. /\ units[q.id].index > 0 => units[q.id].thread \in Threads
            /\ \A u \in Threads : units[q.id].thread = u =>
                 /\ Owes(u) /\ u # t
                 /\ units[q.id].index > 0 => gpc[u] \in InGraphlet
                 /\ \A r \in Windowed : units[r.id].thread = u => r = q
        BY <1>7, <2>2 DEF UnitsInv, UnitOwners
      <3>3. \A u \in Threads \ {t}, r \in Windowed' : units'[r.id].thread = u => r \in Windowed
        BY <1>5, <1>6, <1>9
      <3>4. \A u \in Threads : units'[q.id].thread = u =>
              /\ Owes(u)' /\ u # t
              /\ units'[q.id].index > 0 => gpc'[u] \in InGraphlet
        BY <1>2, <1>8, <3>1, <3>2
      <3>5. \A u \in Threads \ {t}, r \in Windowed' :
              units'[q.id].thread = u /\ units'[r.id].thread = u => r = q
        BY <3>1, <3>2, <3>3
      <3> QED
        BY <3>1, <3>2, <3>4, <3>5
    <2> QED
      BY <1>6, <2>1, <2>2
  <1>11. Accepted'
    BY <1>1, <1>8 DEF UnitsInv, Accepted
  <1> QED
    BY <1>4, <1>10, <1>11 DEF UnitsInv

\* The device finishes a launch: its entry goes with it.
LEMMA CompleteUnits ==
  ASSUME UnitsInv, NEW q \in inflight, DeviceCompletes(q)
  PROVE  UnitsInv'
  <1>1. /\ inflight' = inflight \ {q}
        /\ units' = [id \in DOMAIN units \ {q.id} |-> units[id]]
        /\ UNCHANGED <<pc, gpc, outcome>>
    BY DEF DeviceCompletes, Complete, Restrict
  <1>2. \A r \in inflight \ {q} : r.id \in DOMAIN units /\ r.id # q.id
    BY DEF UnitsInv, UnitIds
  <1>3. UnitIds'
    BY <1>1, <1>2 DEF UnitsInv, UnitIds
  <1>4. /\ Windowed' \subseteq Windowed
        /\ \A r \in Windowed' : units'[r.id] = units[r.id]
    <2>1. forgotten' = forgotten \cap {r.id : r \in inflight'}
      BY DEF DeviceCompletes, Complete
    <2>2. \A r \in inflight' : r.id \in forgotten => r.id \in forgotten'
      BY <2>1
    <2> QED
      BY <1>1, <1>2, <2>2 DEF Windowed
  <1>5. \A u \in Threads : Owes(u) => Owes(u)'
    BY <1>1 DEF Owes
  <1>6. UnitOwners'
    <2>1. \A r \in Windowed :
            /\ units[r.id].index > 0 => units[r.id].thread \in Threads
            /\ \A u \in Threads : units[r.id].thread = u =>
                 /\ Owes(u)'
                 /\ units[r.id].index > 0 => gpc'[u] \in InGraphlet
                 /\ \A p \in Windowed : units[p.id].thread = u => p = r
      BY <1>1, <1>5 DEF UnitsInv, UnitOwners
    <2> QED
      BY <1>4, <2>1 DEF UnitOwners
  <1> QED
    BY <1>1, <1>3, <1>6 DEF UnitsInv, Accepted

\* The steps of the controller, seen from the device and from the thread.
LEMMA WorkKinds ==
  ASSUME Base, NEW t \in Threads, Work(t)
  PROVE  /\ \A u \in Threads \ {t} : pc'[u] = pc[u]
         /\ forgotten \subseteq forgotten'
         /\ \/ Issue(t)
            \/ EndBoundary(t)
            \/ UNCHANGED inflight /\ pc[t] = "issue" /\ pc'[t] = "idle"
            \/ UNCHANGED inflight /\ pc[t] = "after" /\ pc'[t] = "idle"
            \/ UNCHANGED inflight /\ pc[t] = "boundary" /\ pc'[t] = "boundary"
            \/ UNCHANGED inflight
                 /\ pc[t] \notin {"idle", "issue", "after", "boundary"} /\ pc'[t] # "after"
  <1> USE DEF Base, TypeOK, Goto, Finish, RetireOldest, Track, GiveUp
  <1>1. CASE ReadOwner(t) \/ Drain(t) \/ Bypass(t) \/ WaitUntilIdle(t)
    BY <1>1 DEF ReadOwner, Drain, Bypass, WaitUntilIdle
  <1>2. CASE Predict(t) \/ ChooseLimit(t) \/ RecheckIdle(t)
    BY <1>2 DEF Predict, ChooseLimit, RecheckIdle
  <1>3. CASE SurvivalAdmission(t) \/ SurvivalRejection(t) \/ RetireForRoom(t)
    BY <1>3 DEF SurvivalAdmission, SurvivalRejection, RetireForRoom
  <1>4. CASE Admit(t) \/ Issue(t) \/ IssueFails(t)
    BY <1>4 DEF Admit, Issue, IssueFails
  <1>5. CASE AfterTracked(t) \/ AfterUntracked(t) \/ AfterBypass(t)
    BY <1>5 DEF AfterTracked, AfterUntracked, AfterBypass
  <1>6. CASE DrainBoundary(t) \/ EndBoundary(t)
    BY <1>6 DEF DrainBoundary, EndBoundary
  <1> QED
    BY <1>1, <1>2, <1>3, <1>4, <1>5, <1>6 DEF Work

\* A step of the controller on behalf of any launch.
LEMMA ControllerUnits ==
  ASSUME CallsOK, Base, RingInv, TrackInv, UnitsInv, NEW t \in Threads, Controller(t)
  PROVE  UnitsInv'
  <1>1. /\ Work(t) /\ UNCHANGED <<gpc, gcall>>
        /\ \A u \in Threads \ {t} : outcome'[u] = outcome[u]
        /\ pc[t] # "issue" => UNCHANGED <<outcome, units>>
        /\ pc[t] = "issue" /\ pc'[t] # "after" => UNCHANGED units
    BY DEF Controller, CallsOK
  <1>2. (\A u \in Threads \ {t} : pc'[u] = pc[u]) /\ forgotten \subseteq forgotten'
    BY <1>1, WorkKinds
  <1>3. CASE Issue(t)
    BY <1>3, IssueUnits
  <1>4. CASE EndBoundary(t)
    <2>1. /\ pc[t] = "boundary" /\ outstanding = 0 /\ pc'[t] = "idle"
          /\ UNCHANGED <<inflight, forgotten, units, outcome>>
      BY <1>1, <1>4 DEF EndBoundary, Goto, Base, TypeOK
    <2>2. \A u \in Threads : pc[u] # "after"
      BY <2>1 DEF Base, LockInv, TypeOK
    <2>3. Windowed' = {}
      BY <2>1, <2>2, EmptyWindow DEF Windowed
    <2>4. UnitIds' /\ Accepted'
      BY <1>2, <2>1, <2>2 DEF UnitsInv, UnitIds, Accepted
    <2> QED
      BY <2>3, <2>4 DEF UnitsInv, UnitOwners
  <1>5. CASE UNCHANGED inflight /\ pc[t] = "issue" /\ pc'[t] = "idle"
    <2>1. ~Owes(t) /\ UNCHANGED units
      BY <1>1, <1>5 DEF Owes
    <2> QED
      BY <1>1, <1>2, <1>5, <2>1, MoveUnits
  <1>6. CASE UNCHANGED inflight /\ pc[t] = "after" /\ pc'[t] = "idle"
    <2>1. outcome[t] = "ok" /\ UNCHANGED <<outcome, units, gpc>>
      BY <1>1, <1>6 DEF UnitsInv, Accepted
    <2>2. \A u \in Threads :
            /\ Owes(u) => Owes(u)'
            /\ pc'[u] = "after" => outcome'[u] = "ok"
      BY <1>2, <1>6, <2>1 DEF Owes, UnitsInv, Accepted
    <2> QED
      BY <1>2, <1>6, <2>1, <2>2, KeepUnits
  <1>7. CASE UNCHANGED inflight /\ pc[t] = "boundary" /\ pc'[t] = "boundary"
    <2>1. UNCHANGED <<outcome, units, gpc>>
      BY <1>1, <1>7
    <2>2. \A u \in Threads :
            /\ Owes(u) => Owes(u)'
            /\ pc'[u] = "after" => outcome'[u] = "ok"
      BY <1>2, <1>7, <2>1 DEF Owes, UnitsInv, Accepted
    <2> QED
      BY <1>2, <1>7, <2>1, <2>2, KeepUnits
  <1>8. CASE UNCHANGED inflight
               /\ pc[t] \notin {"idle", "issue", "after", "boundary"} /\ pc'[t] # "after"
    <2>1. ~Owes(t) /\ UNCHANGED units
      BY <1>1, <1>8 DEF Owes
    <2> QED
      BY <1>1, <1>2, <1>8, <2>1, MoveUnits
  <1> QED
    BY <1>1, <1>3, <1>4, <1>5, <1>6, <1>7, <1>8, WorkKinds

\* A step of the program or of the graph scheduler.
LEMMA CallUnits ==
  ASSUME UnitsInv, NEW t \in Threads, UNCHANGED <<units, inflight, forgotten, outcome>>,
         \A u \in Threads \ {t} : gpc'[u] = gpc[u] /\ pc'[u] = pc[u],
         \/ ~Owes(t) /\ pc'[t] # "after"
         \/ /\ pc'[t] = "boundary"
            /\ \/ gpc[t] = "graphlet_out" /\ gpc'[t] = "graphlet_boundary"
               \/ gpc[t] = "whole_out" /\ gpc'[t] = "whole_boundary"
  PROVE  UnitsInv'
  <1>1. CASE ~Owes(t) /\ pc'[t] # "after"
    BY <1>1, MoveUnits
  <1>2. CASE ~(~Owes(t) /\ pc'[t] # "after")
    <2>1. /\ pc'[t] = "boundary" /\ gpc'[t] \in {"graphlet_boundary", "whole_boundary"}
          /\ gpc[t] \in InGraphlet => gpc'[t] \in InGraphlet
      BY <1>2 DEF InGraphlet
    <2>2. \A u \in Threads :
            /\ Owes(u) => Owes(u)' /\ (gpc[u] \in InGraphlet => gpc'[u] \in InGraphlet)
            /\ pc'[u] = "after" => outcome'[u] = "ok"
      BY <2>1 DEF Owes, UnitsInv, Accepted
    <2> QED
      BY <2>2, KeepUnits
  <1> QED
    BY <1>1, <1>2

LEMMA NextUnits ==
  CallsOK /\ Base /\ RingInv /\ TrackInv /\ UnitsInv /\ [GNext]_gvars => UnitsInv'
  <1> SUFFICES ASSUME CallsOK, Base, RingInv, TrackInv, UnitsInv, [GNext]_gvars
               PROVE  UnitsInv'
    OBVIOUS
  <1> USE DEF GGoto, Return
  <1>1. ASSUME NEW t \in Threads, NEW e \in Execs,
               Instantiate(t, e) \/ Update(t, e) \/ Destroy(t, e)
        PROVE  UnitsInv'
    <2>1. /\ gpc[t] = "none" /\ pc' = pc /\ pc[t] = "idle"
          /\ UNCHANGED <<units, inflight, forgotten, outcome>>
          /\ \A u \in Threads \ {t} : gpc'[u] = gpc[u]
      BY <1>1 DEF Instantiate, Update, Destroy, Call, vars, CallsOK
    <2> QED
      BY <2>1, CallUnits DEF Owes
  <1>2. ASSUME NEW t \in Threads, NEW e \in Execs, NEW h \in Handles, GraphLaunch(t, e, h)
        PROVE  UnitsInv'
    <2>1. /\ gpc[t] = "none" /\ pc' = pc /\ pc[t] = "idle"
          /\ UNCHANGED <<units, inflight, forgotten, outcome>>
          /\ \A u \in Threads \ {t} : gpc'[u] = gpc[u]
      BY <1>2 DEF GraphLaunch, Call, vars, CallsOK
    <2> QED
      BY <2>1, CallUnits DEF Owes
  <1>3. ASSUME NEW t \in Threads, NEW k, NEW h, KernelLaunch(t, k, h) PROVE UnitsInv'
    <2>1. /\ gpc[t] = "none" /\ pc'[t] = "owner"
          /\ UNCHANGED <<units, inflight, forgotten, outcome, gpc>>
          /\ \A u \in Threads \ {t} : pc'[u] = pc[u]
      BY <1>3 DEF KernelLaunch, Begin, Goto, Base, TypeOK
    <2> QED
      BY <2>1, CallUnits DEF Owes
  <1>4. ASSUME NEW t \in Threads,
               \/ Record(t) \/ Invalidate(t) \/ Forget(t) \/ DriverDestroy(t)
               \/ EnterSplit(t) \/ EnterWhole(t)
        PROVE  UnitsInv'
    <2>1. /\ gpc[t] \in Changing \cup {"enter"}
          /\ UNCHANGED <<pc, units, inflight, forgotten, outcome>>
          /\ \A u \in Threads \ {t} : gpc'[u] = gpc[u]
      BY <1>4 DEF Record, Invalidate, Forget, DriverDestroy, EnterSplit, EnterWhole, vars,
                  CallsOK, Changing
    <2>2. ~Owes(t) /\ (pc[t] = "after" => outcome[t] = "ok")
      BY <2>1 DEF Owes, Changing, UnitsInv, Accepted
    <2> QED
      BY <2>1, <2>2, MoveUnits
  <1>5. ASSUME NEW t \in Threads, StartUnit(t) PROVE UnitsInv'
    <2>1. /\ gpc[t] \in {"graphlet", "whole"} /\ pc'[t] = "owner"
          /\ UNCHANGED <<units, inflight, forgotten, outcome>>
          /\ \A u \in Threads \ {t} : gpc'[u] = gpc[u] /\ pc'[u] = pc[u]
      BY <1>5 DEF StartUnit, Begin, Goto, Base, TypeOK, CallsOK
    <2> QED
      BY <2>1, CallUnits DEF Owes
  <1>6. ASSUME NEW t \in Threads, StartBoundary(t) PROVE UnitsInv'
    <2>1. /\ \/ gpc[t] = "graphlet_out" /\ gpc'[t] = "graphlet_boundary"
             \/ gpc[t] = "whole_out" /\ gpc'[t] = "whole_boundary"
          /\ pc'[t] = "boundary"
          /\ UNCHANGED <<units, inflight, forgotten, outcome>>
          /\ \A u \in Threads \ {t} : gpc'[u] = gpc[u] /\ pc'[u] = pc[u]
      BY <1>6 DEF StartBoundary, BeginBoundary, Goto, Base, TypeOK, CallsOK
    <2> QED
      BY <2>1, CallUnits
  <1>7. ASSUME NEW t \in Threads,
               GraphletRefused(t) \/ NextGraphlet(t) \/ LastGraphlet(t) \/ WholeReturns(t)
        PROVE  UnitsInv'
    <2>1. /\ ~Owes(t) /\ pc' = pc /\ pc[t] = "idle"
          /\ UNCHANGED <<units, inflight, forgotten, outcome>>
          /\ \A u \in Threads \ {t} : gpc'[u] = gpc[u]
      BY <1>7 DEF GraphletRefused, NextGraphlet, LastGraphlet, WholeReturns, vars, Owes, CallsOK
    <2> QED
      BY <2>1, CallUnits
  <1>8. ASSUME NEW t \in Threads, Controller(t) PROVE UnitsInv'
    BY <1>8, ControllerUnits
  <1>9. ASSUME NEW q \in inflight, DeviceCompletes(q) PROVE UnitsInv'
    BY <1>9, CompleteUnits
  <1>10. CASE (HpStep /\ UNCHANGED graphVars) \/ UNCHANGED gvars
    <2>1. UNCHANGED <<units, inflight, forgotten, outcome, pc, gpc>>
      BY <1>10 DEF HpStep, graphVars, gvars, vars
    <2>2. \A u \in Threads : (Owes(u) => Owes(u)') /\ (pc'[u] = "after" => outcome'[u] = "ok")
      BY <2>1 DEF Owes, UnitsInv, Accepted
    <2> QED
      BY <2>1, <2>2, KeepUnits
  <1> QED
    BY <1>1, <1>2, <1>3, <1>4, <1>5, <1>6, <1>7, <1>8, <1>9, <1>10 DEF GNext, GraphWork

LEMMA UnitsCorrect == GSpec => []UnitsInv
  BY InitUnits, NextUnits, CallsCorrect, ControllerCorrect, PTL DEF GSpec

---------------------------------------------------------------------------
(* The boundary between graphlets. *)

\* Two admitted graphlets that the ring has not given up are never on the device
\* together, of one launch or of two threads, whatever fails on the way: lilt_graph_launch_impl holds
\* g_graph_lock across the boundary that drains the window.
THEOREM BoundaryCorrect == GSpec => []BoundaryHolds
  <1>1. CallsOK /\ UnitsInv => GraphTypeOK
    BY DEF CallsOK, UnitsInv, UnitIds, GraphTypeOK, Changing, Launching, Splitting,
           CallType, MetaType
  <1>2. CallsOK /\ UnitsInv => GraphletsOneByOne
    <2> SUFFICES ASSUME CallsOK, UnitsInv, NEW q \in Windowed, NEW r \in Windowed,
                        IsGraphlet(q), IsGraphlet(r)
                 PROVE  q = r
      BY DEF GraphletsOneByOne
    <2>1. PICK u \in Threads : units[q.id].thread = u /\ gpc[u] \in InGraphlet
      BY DEF UnitsInv, UnitOwners, IsGraphlet
    <2>2. PICK v \in Threads : units[r.id].thread = v /\ gpc[v] \in InGraphlet
      BY DEF UnitsInv, UnitOwners, IsGraphlet
    <2>3. u = graphLock /\ v = graphLock
      BY <2>1, <2>2 DEF CallsOK, Splitting, InGraphlet
    <2> QED
      BY <2>1, <2>2, <2>3 DEF UnitsInv, UnitOwners
  <1> QED
    BY <1>1, <1>2, CallsCorrect, UnitsCorrect, PTL DEF BoundaryHolds

\* A graph call that returns, after its last boundary or with an error, leaves
\* nothing of its own that was admitted and not given up on the device.
THEOREM CallWaits == GSpec => GraphCallWaits
  <1> DEFINE Done ==
        \A t \in Threads :
          gpc[t] # "none" /\ gpc'[t] = "none" =>
            \A q \in Windowed : units[q.id].thread # t
  <1>1. ASSUME CallsOK, UnitsInv, GNext PROVE Done
    <2> SUFFICES ASSUME NEW t \in Threads, gpc[t] # "none", gpc'[t] = "none"
                 PROVE  ~Owes(t)
      BY <1>1 DEF UnitsInv, UnitOwners
    <2> USE <1>1 DEF GGoto, Return, CallsOK
    <2>1. ASSUME NEW u \in Threads, NEW e \in Execs,
                 Instantiate(u, e) \/ Update(u, e) \/ Destroy(u, e)
          PROVE  FALSE
      BY <2>1 DEF Instantiate, Update, Destroy, Call
    <2>2. ASSUME NEW u \in Threads, NEW e \in Execs, NEW h \in Handles, GraphLaunch(u, e, h)
          PROVE  FALSE
      BY <2>2 DEF GraphLaunch, Call
    <2>3. ASSUME NEW u \in Threads,
                 \/ Forget(u) \/ EnterSplit(u) \/ EnterWhole(u) \/ StartUnit(u)
                 \/ StartBoundary(u) \/ NextGraphlet(u)
          PROVE  FALSE
      BY <2>3 DEF Forget, EnterSplit, EnterWhole, StartUnit, StartBoundary, NextGraphlet
    <2>4. ASSUME NEW u \in Threads,
                 \/ Record(u) \/ Invalidate(u) \/ DriverDestroy(u)
                 \/ GraphletRefused(u) \/ LastGraphlet(u) \/ WholeReturns(u)
          PROVE  ~Owes(t)
      BY <2>4 DEF Record, Invalidate, DriverDestroy, GraphletRefused, LastGraphlet,
                  WholeReturns, Owes
    <2>5. CASE UNCHANGED gpc
      BY <2>5
    <2> QED
      BY <2>1, <2>2, <2>3, <2>4, <2>5 DEF GNext, GraphWork, KernelLaunch, Controller,
         DeviceCompletes, graphVars
  <1>2. CallsOK /\ UnitsInv /\ [GNext]_gvars => [Done]_gvars
    BY <1>1
  <1> QED
    BY <1>2, CallsCorrect, UnitsCorrect, PTL DEF GSpec, GraphCallWaits
=============================================================================
