-------------------------- MODULE ActivityTracker --------------------------
(***************************************************************************)
(* The words the high-priority (HP) process shares with the best-effort    *)
(* (BE) processes (activity_tracker.c): hp_state, hp_owner_pid and         *)
(* hp_registration_count of a POSIX shared-memory segment, opened by name  *)
(* and unlinked when the HP unregisters.  Processes of both kinds start,   *)
(* exit and crash; every atomic load, store and compare-and-swap is one    *)
(* step, and so is every kill(pid, 0).                                     *)
(*                                                                         *)
(* The timing words (EWMA, histogram) are advisory and left out; process   *)
(* numbers are not reused.                                                 *)
(***************************************************************************)
EXTENDS Integers, FiniteSets

CONSTANTS
  Hps,          \* processes started with the HP library
  Bes,          \* BE processes
  NoOwner,      \* hp_owner_pid = 0
  MaxSegments,  \* bound: segments created under the name
  MaxCopies,    \* bound: registrations of one HP process
  MayCrash,     \* processes that can die at any step
  MayExit,      \* HP processes that can exit normally
  MayOverlap,   \* HP processes that start beside a living one: its children,
                \* which inherit LD_PRELOAD
  MayFailOpen   \* processes whose shm_open, ftruncate, mmap or flock can fail

ASSUME ProcessAssumption ==
  /\ NoOwner \notin Hps \cup Bes /\ Hps \cap Bes = {}
  /\ MayCrash \subseteq Hps \cup Bes
  /\ MayExit \subseteq Hps /\ MayOverlap \subseteq Hps
  /\ MayFailOpen \subseteq Hps \cup Bes
ASSUME BoundAssumption == MaxSegments \in Nat \ {0} /\ MaxCopies \in Nat \ {0}

VARIABLES
  segs,     \* the segments
  created,  \* how many there are
  named,    \* the one the name leads to, 0 for none
  mapped,   \* g_shared: the segment a process has mapped, 0 for none
  alive,    \* processes that exist
  pc,       \* where each process is
  copies,   \* registrations an HP process has made and not undone
  active,   \* registered HPs whose monitor has last published ACTIVE
  seen      \* the owner a BE has loaded

vars == <<segs, created, named, mapped, alive, pc, copies, active, seen>>
memory == <<segs, created, named, mapped>>

---------------------------------------------------------------------------
Processes == Hps \cup Bes
Segments  == 1 .. MaxSegments

NewSegment == [state |-> "IDLE", owner |-> NoOwner, regs |-> 0]

Init ==
  /\ segs = [n \in Segments |-> NewSegment]
  /\ created = 0 /\ named = 0
  /\ mapped = [p \in Processes |-> 0]
  /\ alive = Bes
  /\ pc = [p \in Processes |-> IF p \in Bes THEN "idle" ELSE "unborn"]
  /\ copies = [h \in Hps |-> 0]
  /\ active = [h \in Hps |-> FALSE]
  /\ seen = [b \in Bes |-> NoOwner]

Word(p) == segs[mapped[p]]
Set(p, word) == segs' = [segs EXCEPT ![mapped[p]] = word]
Goto(p, label) == pc' = [pc EXCEPT ![p] = label]

\* futex_wake_all, together with the step a process takes: the sleepers that
\* have the segment mapped go back to load the state.
WokenBy(p, label) ==
  pc' = [q \in Processes |->
           IF q = p THEN label
           ELSE IF pc[q] = "asleep" /\ mapped[q] = mapped[p] THEN "state"
           ELSE pc[q]]

\* event_shared_get: a process maps what the name leads to, creating it when
\* there is nothing, and keeps that mapping as long as it lives.
Open(p, next) ==
  /\ mapped[p] = 0
  /\ \/ /\ named # 0
        /\ mapped' = [mapped EXCEPT ![p] = named]
        /\ UNCHANGED <<created, named>>
     \/ /\ named = 0 /\ created < MaxSegments
        /\ created' = created + 1
        /\ named' = created + 1
        /\ mapped' = [mapped EXCEPT ![p] = created + 1]
  /\ Goto(p, next)
  /\ UNCHANGED <<segs, alive, copies, active, seen>>

\* It can fail, before or after it has created what the name leads to, and the
\* next call that needs the segment tries again.
OpenFails(p, next) ==
  /\ mapped[p] = 0 /\ p \in MayFailOpen
  /\ \/ UNCHANGED <<created, named>>
     \/ /\ named = 0 /\ created < MaxSegments
        /\ created' = created + 1
        /\ named' = created + 1
  /\ Goto(p, next)
  /\ UNCHANGED <<segs, mapped, alive, copies, active, seen>>

---------------------------------------------------------------------------
(* The HP process. *)

\* It is started, by the user or by another HP process, and runs the library's
\* constructor.
HpStart(h) ==
  /\ pc[h] = "unborn"
  /\ h \in MayOverlap \/ alive \cap Hps = {}
  /\ alive' = alive \cup {h}
  /\ Goto(h, "open")
  /\ UNCHANGED <<memory, copies, active, seen>>

\* A process that cannot map the segment runs on, unregistered; it maps it when
\* a later call can.
HpOpen(h) == pc[h] = "open" /\ (Open(h, "register") \/ OpenFails(h, "ready"))
HpOpenLate(h) == pc[h] = "ready" /\ (Open(h, "ready") \/ OpenFails(h, "ready"))

\* lilt_event_hp_register: the owner counts one registration more ...
RegisterLoad(h) ==
  /\ pc[h] = "register"
  /\ IF Word(h).owner = h
     THEN /\ Set(h, [Word(h) EXCEPT !.regs = @ + 1])
          /\ copies' = [copies EXCEPT ![h] = @ + 1]
          /\ Goto(h, "ready")
     ELSE Goto(h, "set_regs") /\ UNCHANGED <<segs, copies>>
  /\ UNCHANGED <<created, named, mapped, alive, active, seen>>

\* ... anyone else takes the segment over, whatever it finds in it.
RegisterCount(h) ==
  /\ pc[h] = "set_regs"
  /\ Set(h, [Word(h) EXCEPT !.regs = 1])
  /\ Goto(h, "set_owner")
  /\ UNCHANGED <<created, named, mapped, alive, copies, active, seen>>

RegisterOwner(h) ==
  /\ pc[h] = "set_owner"
  /\ Set(h, [Word(h) EXCEPT !.owner = h])
  /\ Goto(h, "set_state")
  /\ UNCHANGED <<created, named, mapped, alive, copies, active, seen>>

RegisterState(h) ==
  /\ pc[h] = "set_state"
  /\ Set(h, [Word(h) EXCEPT !.state = "IDLE"])
  /\ copies' = [copies EXCEPT ![h] = @ + 1]
  /\ WokenBy(h, "ready")
  /\ UNCHANGED <<created, named, mapped, alive, active, seen>>

\* A second copy of the library in the process registers too.
RegisterAgain(h) ==
  /\ pc[h] = "ready" /\ copies[h] < MaxCopies
  /\ Goto(h, IF mapped[h] = 0 THEN "open" ELSE "register")
  /\ UNCHANGED <<memory, alive, copies, active, seen>>

\* lilt_event_hp_mark_active and lilt_event_hp_mark_idle.  They do not ask for a
\* registration, only for the segment.
MarkActive(h) ==
  /\ pc[h] = "ready" /\ mapped[h] # 0 /\ ~active[h]
  /\ Set(h, [Word(h) EXCEPT !.state = "ACTIVE"])
  /\ active' = [active EXCEPT ![h] = copies[h] > 0]
  /\ UNCHANGED <<created, named, mapped, alive, pc, copies, seen>>

MarkIdle(h) ==
  /\ pc[h] = "ready" /\ mapped[h] # 0 /\ (copies[h] > 0 => active[h])
  /\ Set(h, [Word(h) EXCEPT !.state = "IDLE"])
  /\ active' = [active EXCEPT ![h] = FALSE]
  /\ WokenBy(h, "ready")
  /\ UNCHANGED <<created, named, mapped, alive, copies, seen>>

\* lilt_event_hp_unregister, from the destructor of one copy.  A process that
\* is not the owner, or has nothing mapped, changes nothing; an owner with more registrations gives
\* one back.
UnregisterLoad(h) ==
  /\ pc[h] = "ready" /\ h \in MayExit
  /\ copies' = [copies EXCEPT ![h] = IF @ > 0 THEN @ - 1 ELSE 0]
  /\ IF mapped[h] = 0 \/ Word(h).owner # h
     THEN Goto(h, IF copies[h] > 1 THEN "ready" ELSE "exit")
     ELSE Goto(h, "count_down")
  /\ UNCHANGED <<memory, alive, active, seen>>

UnregisterCountLast(h) ==      \* mutant: the count is ignored
  /\ pc[h] = "count_down"
  /\ Set(h, [Word(h) EXCEPT !.regs = 0])
  /\ Goto(h, "clear_state")
  /\ UNCHANGED <<created, named, mapped, alive, copies, active, seen>>
UnregisterCount(h) ==
  /\ pc[h] = "count_down"
  /\ IF Word(h).regs > 1
     THEN /\ Set(h, [Word(h) EXCEPT !.regs = @ - 1])
          /\ Goto(h, IF copies[h] > 0 THEN "ready" ELSE "exit")
     ELSE /\ Set(h, [Word(h) EXCEPT !.regs = 0])
          /\ Goto(h, "clear_state")
  /\ UNCHANGED <<created, named, mapped, alive, copies, active, seen>>

UnregisterState(h) ==
  /\ pc[h] = "clear_state"
  /\ Set(h, [Word(h) EXCEPT !.state = "IDLE"])
  /\ active' = [active EXCEPT ![h] = FALSE]
  /\ Goto(h, "clear_owner")
  /\ UNCHANGED <<created, named, mapped, alive, copies, seen>>

UnregisterOwner(h) ==
  /\ pc[h] = "clear_owner"
  /\ Set(h, [Word(h) EXCEPT !.owner = NoOwner])
  /\ WokenBy(h, "unlink")
  /\ UNCHANGED <<created, named, mapped, alive, copies, active, seen>>

\* shm_unlink goes by name, and the name may lead to another segment by now.
Unlink(h) ==
  /\ pc[h] = "unlink"
  /\ named' = 0
  /\ Goto(h, IF copies[h] > 0 THEN "ready" ELSE "exit")
  /\ UNCHANGED <<segs, created, mapped, alive, copies, active, seen>>

HpExit(h) ==
  /\ pc[h] = "exit"
  /\ alive' = alive \ {h}
  /\ active' = [active EXCEPT ![h] = FALSE]
  /\ Goto(h, "dead")
  /\ UNCHANGED <<memory, copies, seen>>

---------------------------------------------------------------------------
(* The BE process: lilt_event_hp_owner, then lilt_event_be_wait_until_idle  *)
(* unless there is no owner.                                               *)

Loads(b) == seen' = [seen EXCEPT ![b] = Word(b).owner]

BeCall(b) ==
  /\ pc[b] = "idle"
  /\ Goto(b, IF mapped[b] = 0 THEN "open" ELSE "owner")
  /\ UNCHANGED <<memory, alive, copies, active, seen>>

\* Without the segment lilt_event_hp_owner returns 0, as if there were no HP.
BeOpen(b) == pc[b] = "open" /\ (Open(b, "owner") \/ OpenFails(b, "bypass"))

OwnerLoad(b) ==
  /\ pc[b] = "owner"
  /\ Loads(b)
  /\ Goto(b, IF Word(b).owner = NoOwner THEN "bypass" ELSE "owner_alive")
  /\ UNCHANGED <<memory, alive, copies, active>>

\* kill(owner, 0).
OwnerCheck(b) ==
  /\ pc[b] = "owner_alive"
  /\ Goto(b, IF seen[b] \in alive THEN "state" ELSE "reclaim")
  /\ UNCHANGED <<memory, alive, copies, active, seen>>

\* A dead owner is swapped out; whoever wins the swap clears the rest.
OwnerReclaim(b) ==
  /\ pc[b] = "reclaim"
  /\ IF Word(b).owner = seen[b]
     THEN /\ Set(b, [Word(b) EXCEPT !.owner = NoOwner])
          /\ Goto(b, "reclaim_regs")
     ELSE /\ Goto(b, IF Word(b).owner = NoOwner THEN "bypass" ELSE "state")
          /\ UNCHANGED segs
  /\ UNCHANGED <<created, named, mapped, alive, copies, active, seen>>

ReclaimRegs(b) ==
  /\ pc[b] = "reclaim_regs"
  /\ Set(b, [Word(b) EXCEPT !.regs = 0])
  /\ Goto(b, "reclaim_state")
  /\ UNCHANGED <<created, named, mapped, alive, copies, active, seen>>

ReclaimState(b) ==
  /\ pc[b] = "reclaim_state"
  /\ Set(b, [Word(b) EXCEPT !.state = "IDLE"])
  /\ WokenBy(b, "bypass")
  /\ UNCHANGED <<created, named, mapped, alive, copies, active, seen>>

StateLoad(b) ==
  /\ pc[b] = "state"
  /\ Goto(b, IF Word(b).state = "ACTIVE" THEN "wait_owner" ELSE "launch")
  /\ UNCHANGED <<memory, alive, copies, active, seen>>

WaitOwnerLoad(b) ==
  /\ pc[b] = "wait_owner"
  /\ Loads(b)
  /\ Goto(b, "wait_alive")
  /\ UNCHANGED <<memory, alive, copies, active>>

WaitOwnerCheck(b) ==
  /\ pc[b] = "wait_alive"
  /\ Goto(b, IF seen[b] \in alive THEN "futex" ELSE "release")
  /\ UNCHANGED <<memory, alive, copies, active, seen>>

\* FUTEX_WAIT sleeps only if the state is still ACTIVE.
FutexWait(b) ==
  /\ pc[b] = "futex"
  /\ Goto(b, IF Word(b).state = "ACTIVE" THEN "asleep" ELSE "state")
  /\ UNCHANGED <<memory, alive, copies, active, seen>>

\* Its 10 ms timeout: the loop looks again.
FutexTimeoutNever(b) == FALSE  \* mutant: no timeout
FutexTimeoutGiveUp(b) ==       \* mutant: the state is not loaded again
  /\ pc[b] = "asleep"
  /\ Goto(b, "launch")
  /\ UNCHANGED <<memory, alive, copies, active, seen>>
FutexTimeout(b) ==
  /\ pc[b] = "asleep"
  /\ Goto(b, "state")
  /\ UNCHANGED <<memory, alive, copies, active, seen>>

\* ACTIVE with a dead owner: swapped to IDLE.  The loop ends either way.
Release(b) ==
  /\ pc[b] = "release"
  /\ IF Word(b).state = "ACTIVE"
     THEN /\ Set(b, [Word(b) EXCEPT !.state = "IDLE"])
          /\ Goto(b, "release_owner")
     ELSE Goto(b, "launch") /\ UNCHANGED segs
  /\ UNCHANGED <<created, named, mapped, alive, copies, active, seen>>

ReleaseOwner(b) ==
  /\ pc[b] = "release_owner"
  /\ Set(b, [Word(b) EXCEPT !.owner = NoOwner])
  /\ WokenBy(b, "launch")
  /\ UNCHANGED <<created, named, mapped, alive, copies, active, seen>>

\* The BE launches, without or with the window (BeAdmission).
BeLaunch(b) ==
  /\ pc[b] \in {"bypass", "launch"}
  /\ Goto(b, "idle")
  /\ seen' = [seen EXCEPT ![b] = NoOwner]
  /\ UNCHANGED <<memory, alive, copies, active>>

---------------------------------------------------------------------------
Crash(p) ==
  /\ p \in MayCrash /\ p \in alive
  /\ alive' = alive \ {p}
  /\ active' = [h \in Hps |-> h # p /\ active[h]]
  /\ Goto(p, "dead")
  /\ UNCHANGED <<memory, copies, seen>>

HpStep(h) ==
  \/ HpOpen(h) \/ RegisterLoad(h) \/ RegisterCount(h) \/ RegisterOwner(h)
  \/ RegisterState(h)
  \/ UnregisterCount(h) \/ UnregisterState(h) \/ UnregisterOwner(h) \/ Unlink(h)
  \/ HpExit(h)

\* What the HP process chooses to do between its calls.
HpChoice(h) ==
  \/ HpStart(h) \/ HpOpenLate(h) \/ RegisterAgain(h)
  \/ MarkActive(h) \/ MarkIdle(h) \/ UnregisterLoad(h)

BeStep(b) ==
  \/ BeOpen(b) \/ OwnerLoad(b) \/ OwnerCheck(b) \/ OwnerReclaim(b)
  \/ ReclaimRegs(b) \/ ReclaimState(b) \/ StateLoad(b) \/ WaitOwnerLoad(b)
  \/ WaitOwnerCheck(b) \/ FutexWait(b) \/ FutexTimeout(b) \/ Release(b)
  \/ ReleaseOwner(b) \/ BeLaunch(b)

Next ==
  \/ \E h \in Hps : HpChoice(h) \/ HpStep(h)
  \/ \E b \in Bes : BeCall(b) \/ BeStep(b)
  \/ \E p \in Processes : Crash(p)

Spec == Init /\ [][Next]_vars

\* A process inside a call keeps running while it lives, and the timeout of
\* the futex expires.
Fairness ==
  /\ \A h \in Hps : WF_vars(HpStep(h))
  /\ \A b \in Bes : WF_vars(BeStep(b))

LiveSpec == Spec /\ Fairness

---------------------------------------------------------------------------
(* Properties. *)

\* An HP that has registered and has begun neither to register again nor to
\* unregister.  One that could not map the segment never has.
Registered(h) == h \in alive /\ pc[h] = "ready" /\ copies[h] > 0

\* The type of every variable: a registration count never below zero, locals that
\* name processes and segments there are.
TypeOK ==
  /\ segs \in [Segments -> [state : {"IDLE", "ACTIVE"}, owner : Hps \cup {NoOwner},
                            regs : Nat]]
  /\ created \in 0 .. MaxSegments /\ named \in 0 .. created
  /\ mapped \in [Processes -> 0 .. created]
  /\ alive \in SUBSET Processes
  /\ pc \in [Processes ->
       {"unborn", "open", "register", "set_regs", "set_owner", "set_state", "ready",
        "count_down", "clear_state", "clear_owner", "unlink", "exit", "dead",
        "idle", "owner", "owner_alive", "reclaim", "reclaim_regs", "reclaim_state",
        "state", "wait_owner", "wait_alive", "futex", "asleep", "release",
        "release_owner", "bypass", "launch"}]
  /\ copies \in [Hps -> Nat]
  /\ active \in [Hps -> BOOLEAN]
  /\ seen \in [Bes -> Hps \cup {NoOwner}]

\* What a registered HP has published stays published, whatever the BE
\* processes do with dead owners: it is the owner, its registrations are
\* counted, and ACTIVE stays ACTIVE until it marks itself idle.
HpStaysPublished ==
  \A h \in Hps :
    Registered(h) =>
      /\ Word(h).owner = h
      /\ Word(h).regs = copies[h]
      /\ active[h] => Word(h).state = "ACTIVE"

\* The types, and a publication that nobody's repairs disturb.
PublicationKept == TypeOK /\ HpStaysPublished

\* A BE process is let through to its launch, by either path ...
LetThrough(b) ==
  pc[b] \notin {"bypass", "launch"} /\ pc'[b] \in {"bypass", "launch"}

\* ... only at a moment when no registered HP is active, unless it is a process
\* that could not map the segment: that one goes past any HP.
NoPassWhileActive ==
  [][\A b \in Bes :
       LetThrough(b) /\ mapped'[b] # 0 => \A h \in Hps : Registered(h) => ~active[h]]_vars

\* "Zero means no HP process is registered": lilt_event_hp_owner returns no
\* owner, from its load or for want of the segment, only while there is no
\* registered HP.
ZeroMeansNoHp ==
  [][\A b \in Bes :
       (OwnerLoad(b) \/ BeOpen(b)) /\ pc'[b] = "bypass" =>
         \A h \in Hps : ~Registered(h)]_vars

\* Once no living HP is active any more, because it went idle, exited or
\* crashed, every call of a BE process returns.
BeReleased ==
  <>[](\A h \in Hps : ~active[h]) =>
    \A b \in Bes : (pc[b] # "idle") ~> (pc[b] \in {"idle", "dead"})
============================================================================
