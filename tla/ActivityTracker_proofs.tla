---------------------- MODULE ActivityTracker_proofs ----------------------
(***************************************************************************)
(* Theorems of ActivityTracker.  PublicationKept: what a registered HP     *)
(* has published in the shared words stays published, while any number of  *)
(* BE processes start, sleep, reclaim, release and crash at every step.    *)
(* NoPassWhileActive: none of them is let through while the HP is active.  *)
(*                                                                         *)
(* Both need a premise on the HP processes; Bes, MaxSegments, MaxCopies and *)
(* the processes that fail to map the segment are arbitrary.  The first    *)
(* holds when there is one HP process, which may crash, and also when any  *)
(* number of them run in turn and none crashes or fails to map the         *)
(* segment; the second holds for one HP process.  With a crash and a       *)
(* successor a reclaiming BE clears the successor's registration, and with *)
(* two in turn a BE watches the segment of the first (ActivityRestart).    *)
(*                                                                         *)
(* The argument: at most one HP ever maps a segment (SegmentInv), so the   *)
(* words of a segment are about that HP (WordInv), what it finds there     *)
(* follows from where it is (HpInv), and a BE that repairs a segment has   *)
(* seen its HP finished (BeInv).                                           *)
(***************************************************************************)
EXTENDS ActivityTracker, TLAPS

\* The premises: one HP process, or HP processes in turn that neither crash nor
\* fail to map the segment.
SingleHp == \A g, h \in Hps : g = h
InTurn == MayOverlap = {} /\ MayCrash \cap Hps = {} /\ MayFailOpen \cap Hps = {}

HpLabels ==
  {"unborn", "open", "register", "set_regs", "set_owner", "set_state", "ready",
   "count_down", "clear_state", "clear_owner", "unlink", "exit", "dead"}
BeLabels ==
  {"idle", "open", "owner", "owner_alive", "reclaim", "reclaim_regs",
   "reclaim_state", "state", "wait_owner", "wait_alive", "futex", "asleep",
   "release", "release_owner", "bypass", "launch", "dead"}
Words == [state : {"IDLE", "ACTIVE"}, owner : Hps \cup {NoOwner}, regs : Nat]

\* Where a process can be, and what that says of its mapping.
LabelInv ==
  /\ \A h \in Hps :
       /\ pc[h] \in HpLabels
       /\ h \in alive <=> pc[h] \notin {"unborn", "dead"}
       /\ pc[h] \in {"unborn", "open"} => mapped[h] = 0
       /\ pc[h] \notin {"unborn", "open", "ready", "exit", "dead"} => mapped[h] # 0
       /\ copies[h] > 0 => mapped[h] # 0
  /\ \A b \in Bes :
       /\ pc[b] \in BeLabels
       /\ pc[b] \notin {"idle", "open", "bypass", "dead"} => mapped[b] # 0

\* An HP that has become the owner of its segment, whether or not it lives, and
\* one that has given its registration back or died.
Claimed(h) ==
  /\ mapped[h] # 0
  /\ \/ copies[h] > 0
     \/ pc[h] \in {"set_state", "count_down", "clear_state", "clear_owner", "unlink", "exit",
                   "dead"}
Over(h) == pc[h] \in {"unlink", "exit", "dead"}

\* What no step takes back.
Forward ==
  \A p \in Processes :
    /\ mapped[p] # 0 => mapped'[p] = mapped[p]
    /\ p \in Hps => /\ Claimed(p) => Claimed(p)'
                    /\ Over(p) => Over(p)'
                    /\ pc[p] = "dead" => pc'[p] = "dead"

\* HP processes follow each other, and each has a segment of its own: the name
\* no longer leads to the segment of one that has exited.
SegmentInv ==
  /\ \A g, h \in Hps : g \in alive /\ h \in alive => g = h
  /\ \A g, h \in Hps : mapped[g] = mapped[h] /\ mapped[g] # 0 => g = h
  /\ \A g, h \in Hps : g # h /\ pc[g] \in {"exit", "dead"} => mapped[g] # named \/ named = 0

\* The owner in a segment is its HP.  ACTIVE may be of an HP that never registered.
WordFacts(n) ==
  segs[n].owner # NoOwner => mapped[segs[n].owner] = n /\ Claimed(segs[n].owner)
WordInv == \A n \in Segments : WordFacts(n)

\* The segment says that h is the owner, with n registrations.
Holding(h, n) ==
  /\ Word(h).owner = h
  /\ Word(h).regs = n
  /\ active[h] => Word(h).state = "ACTIVE"

\* What an HP finds in its segment, from its first registration to its last.
HpFacts(h) ==
    /\ pc[h] \in {"unborn", "open"} => copies[h] = 0 /\ ~active[h]
    /\ pc[h] = "register" =>
         IF copies[h] = 0 THEN ~active[h] /\ Word(h).owner = NoOwner
         ELSE Holding(h, copies[h])
    /\ pc[h] = "set_regs" => copies[h] = 0 /\ ~active[h] /\ Word(h).owner = NoOwner
    /\ pc[h] = "set_owner" => copies[h] = 0 /\ ~active[h] /\ Word(h).regs = 1
    /\ pc[h] = "set_state" => copies[h] = 0 /\ ~active[h] /\ Holding(h, 1)
    /\ pc[h] = "ready" =>
         IF copies[h] = 0
         THEN h \in MayFailOpen /\ ~active[h] /\ (mapped[h] # 0 => Word(h).owner = NoOwner)
         ELSE Holding(h, copies[h])
    /\ pc[h] = "count_down" => Holding(h, copies[h] + 1)
    /\ pc[h] \in {"clear_state", "clear_owner"} => copies[h] = 0 /\ Word(h).owner = h
    /\ pc[h] \in {"unlink", "exit"} => copies[h] = 0
HpInv == \A h \in Hps : HpFacts(h)

\* A BE waits for the state only after an HP has owned its segment.  One that
\* repairs a segment after a dead owner, or that is about to release a state that
\* nobody owns, has seen that this HP is finished.
Waiting == {"state", "wait_owner", "wait_alive", "futex", "asleep"}
BeFacts(b) ==
    /\ seen[b] # NoOwner => mapped[b] # 0 /\ mapped[seen[b]] = mapped[b]
    /\ pc[b] = "owner_alive" => seen[b] # NoOwner /\ Claimed(seen[b])
    /\ pc[b] \in {"reclaim", "reclaim_regs", "reclaim_state"} =>
         seen[b] # NoOwner /\ pc[seen[b]] = "dead"
    /\ pc[b] \in Waiting =>
         \E h \in Hps : mapped[h] = mapped[b] /\ Claimed(h)
    /\ pc[b] \in {"release", "release_owner"} \/ (pc[b] = "wait_alive" /\ seen[b] = NoOwner) =>
         \E h \in Hps : mapped[h] = mapped[b] /\ Over(h)
BeInv == \A b \in Bes : BeFacts(b)

\* The inductive invariant.
IInv == TypeOK /\ LabelInv /\ SegmentInv /\ WordInv /\ HpInv /\ BeInv

---------------------------------------------------------------------------
LEMMA Frame ==
  /\ Hps \subseteq Processes /\ Bes \subseteq Processes /\ Hps \cap Bes = {}
  /\ NoOwner \notin Processes /\ MaxSegments \in Nat \ {0}
BY ProcessAssumption, BoundAssumption DEF Processes

\* What an HP relies on stays while its segment and its own variables do.
LEMMA HpUntouched ==
  ASSUME TypeOK, LabelInv, HpInv, NEW g \in Hps,
         Over(g) \/ mapped[g] = 0 \/ segs'[mapped[g]] = segs[mapped[g]],
         pc'[g] = pc[g], mapped'[g] = mapped[g], copies'[g] = copies[g], active'[g] = active[g]
  PROVE  HpFacts(g)'
<1>1. CASE Over(g)
  BY <1>1 DEF LabelInv, HpInv, HpFacts, Over
<1>2. CASE mapped[g] = 0
  <2>1. copies[g] = 0 /\ pc[g] \in {"unborn", "open", "ready", "exit", "dead"}
    BY <1>2 DEF LabelInv, TypeOK
  <2> QED  BY <1>2, <2>1 DEF HpInv, HpFacts
<1>3. CASE segs'[mapped[g]] = segs[mapped[g]]
  <2>1. Word(g)' = Word(g)  BY <1>3 DEF Word
  <2>2. HpFacts(g)  BY DEF HpInv
  <2> QED  BY <2>1, <2>2 DEF HpFacts, Holding
<1> QED  BY <1>1, <1>2, <1>3

\* A segment keeps WordFacts when a step gives it no new owner but its HP.
LEMMA WordKept ==
  ASSUME TypeOK, WordInv, Forward, NEW n \in Segments,
         \/ segs'[n].owner \in {segs[n].owner, NoOwner}
         \/ \E g \in Hps : segs'[n].owner = g /\ mapped[g] = n /\ Claimed(g)'
  PROVE  WordFacts(n)'
<1> USE Frame
<1>1. n # 0 /\ segs[n].owner \in Hps \cup {NoOwner}  BY BoundAssumption DEF Segments, TypeOK
<1>2. CASE segs'[n].owner = NoOwner
  BY <1>2 DEF WordFacts
<1>3. CASE segs'[n].owner = segs[n].owner /\ segs[n].owner \in Hps
  <2>1. mapped[segs[n].owner] = n /\ Claimed(segs[n].owner)
    BY <1>3 DEF WordInv, WordFacts
  <2>2. mapped'[segs[n].owner] = n /\ Claimed(segs[n].owner)'
    BY <1>1, <1>3, <2>1 DEF Forward
  <2> QED  BY <1>3, <2>2 DEF WordFacts, Claimed
<1>4. ASSUME NEW g \in Hps, segs'[n].owner = g, mapped[g] = n, Claimed(g)'
      PROVE  WordFacts(n)'
  <2>1. mapped'[g] = n
    BY <1>1, <1>4 DEF Forward
  <2> QED  BY <1>4, <2>1 DEF WordFacts, Claimed
<1> QED  BY <1>1, <1>2, <1>3, <1>4

\* A BE whose place is kept, or left for one BeFacts says nothing of.
Watching == Waiting \cup
  {"owner_alive", "reclaim", "reclaim_regs", "reclaim_state", "release", "release_owner"}
LEMMA BeUntouched ==
  ASSUME TypeOK, LabelInv, BeInv, Forward, NEW b \in Bes,
         pc'[b] = pc[b] \/ pc'[b] \notin Watching \/ (pc[b] = "asleep" /\ pc'[b] = "state"),
         seen'[b] = seen[b]
  PROVE  BeFacts(b)'
<1> USE Frame
<1>1. seen[b] # NoOwner => seen[b] \in Hps /\ mapped[b] # 0 /\ mapped[seen[b]] = mapped[b]
  BY DEF TypeOK, BeInv, BeFacts
<1>2. pc[b] \in Watching => mapped[b] # 0
  BY DEF LabelInv, Watching, Waiting
<1>3. seen'[b] # NoOwner => mapped'[b] # 0 /\ mapped'[seen'[b]] = mapped'[b]
  BY <1>1 DEF Forward
<1>4. CASE pc'[b] \notin Watching
  BY <1>3, <1>4 DEF BeFacts, Watching, Waiting
<1>5. CASE pc[b] \in Watching /\ (pc'[b] = pc[b] \/ (pc[b] = "asleep" /\ pc'[b] = "state"))
  <2>1. mapped'[b] = mapped[b]  BY <1>5, <1>2 DEF Forward
  <2>2. \A h \in Hps : mapped[h] = mapped[b] => mapped'[h] = mapped'[b]
    BY <1>5, <1>2, <2>1 DEF Forward
  <2> QED  BY <1>1, <1>3, <1>5, <2>2 DEF BeInv, BeFacts, Forward, Waiting
<1> QED  BY <1>4, <1>5 DEF Watching, Waiting

\* The same facts for all segments and all processes at once.
LEMMA WordsUntouched ==
  ASSUME TypeOK, WordInv, Forward, segs' = segs
  PROVE  WordInv'
<1>1. SUFFICES ASSUME NEW n \in Segments  PROVE WordFacts(n)'
  BY DEF WordInv, Segments
<1> QED  BY WordKept

LEMMA HpsUntouched ==
  ASSUME IInv,
         \A g \in Hps : /\ pc'[g] = pc[g] /\ mapped'[g] = mapped[g]
                        /\ copies'[g] = copies[g] /\ active'[g] = active[g],
         \A g \in Hps : Over(g) \/ mapped[g] = 0 \/ segs'[mapped[g]] = segs[mapped[g]]
  PROVE  HpInv'
BY HpUntouched DEF IInv, HpInv

LEMMA OtherHpsUntouched ==
  ASSUME IInv, NEW h \in Hps, HpFacts(h)',
         \A g \in Hps \ {h} : /\ pc'[g] = pc[g] /\ mapped'[g] = mapped[g]
                              /\ copies'[g] = copies[g] /\ active'[g] = active[g],
         \A n \in Segments : n # mapped[h] => segs'[n] = segs[n]
  PROVE  HpInv'
<1> USE Frame DEF IInv
<1>1. SUFFICES ASSUME NEW g \in Hps \ {h}  PROVE HpFacts(g)'
  BY DEF HpInv
<1>2. mapped[g] # mapped[h] \/ mapped[g] = 0
  BY DEF SegmentInv
<1>3. mapped[g] = 0 \/ mapped[g] \in Segments
  BY DEF TypeOK, Segments
<1>4. mapped[g] = 0 \/ segs'[mapped[g]] = segs[mapped[g]]
  BY <1>2, <1>3
<1> QED  BY <1>4, HpUntouched

\* A BE that a step of another process leaves alone, wakes or kills.
Roused(b) == pc'[b] \in {pc[b], "dead"} \/ (pc[b] = "asleep" /\ pc'[b] = "state")

LEMMA BesUntouched ==
  ASSUME IInv, Forward,
         \A b \in Bes : Roused(b) /\ seen'[b] = seen[b]
  PROVE  BeInv'
BY BeUntouched DEF IInv, BeInv, Watching, Waiting, Roused

LEMMA OtherBesUntouched ==
  ASSUME IInv, Forward, NEW b \in Bes, BeFacts(b)',
         \A q \in Bes \ {b} : Roused(q) /\ seen'[q] = seen[q]
  PROVE  BeInv'
BY BeUntouched DEF IInv, BeInv, Watching, Waiting, Roused

\* event_shared_get, with both of its outcomes as one.
LEMMA OpenEffect ==
  ASSUME TypeOK, NEW p \in Processes, NEW next, Open(p, next)
  PROVE  /\ created' \in 0 .. MaxSegments /\ named' \in 1 .. created' /\ created <= created'
         /\ mapped' = [mapped EXCEPT ![p] = named'] /\ mapped' \in [Processes -> 0 .. created']
         /\ named' = named \/ named' = created + 1
         /\ mapped[p] = 0 /\ Goto(p, next)
         /\ UNCHANGED <<segs, alive, copies, active, seen>>
<1>1. CASE named # 0
  BY <1>1, BoundAssumption DEF TypeOK, Open
<1>2. CASE named = 0
  BY <1>2, BoundAssumption DEF TypeOK, Open
<1> QED  BY <1>1, <1>2

\* The word a process looks at, and the effect of a store.
LEMMA WordOf ==
  ASSUME TypeOK, NEW p \in Processes, mapped[p] # 0
  PROVE  mapped[p] \in Segments /\ Word(p) \in Words
BY BoundAssumption DEF TypeOK, Word, Words, Segments

LEMMA SetWord ==
  ASSUME TypeOK, NEW p \in Processes, mapped[p] # 0, NEW word \in Words, Set(p, word)
  PROVE  /\ segs' \in [Segments -> Words]
         /\ \A n \in Segments : segs'[n] = IF n = mapped[p] THEN word ELSE segs[n]
BY WordOf DEF TypeOK, Set, Words

(* One lemma for each action of an HP, of a BE, and for a crash. *)

LEMMA HpStartStep ==
  ASSUME IInv, SingleHp \/ InTurn, NEW h \in Hps, HpStart(h)
  PROVE  IInv'
<1> USE Frame DEF IInv, HpStart, Goto, memory
<1>1. TypeOK'  BY DEF TypeOK
<1>2. LabelInv'  BY DEF TypeOK, LabelInv, HpLabels, BeLabels
<1>3. Forward  BY DEF Forward, TypeOK, Claimed, Over, LabelInv, HpLabels
<1>4. SegmentInv'  BY DEF SegmentInv, LabelInv, TypeOK, SingleHp, InTurn
<1>5. WordInv'  BY <1>3, WordsUntouched
<1>6. HpInv'
  <2>1. HpFacts(h)'  BY DEF TypeOK, HpInv, HpFacts, Holding, Word
  <2>2. \A g \in Hps \ {h} : /\ pc'[g] = pc[g] /\ mapped'[g] = mapped[g]
                               /\ copies'[g] = copies[g] /\ active'[g] = active[g]
    BY DEF TypeOK
  <2> QED  BY <2>1, <2>2, OtherHpsUntouched
<1>7. BeInv'
  <2>1. \A b \in Bes : Roused(b) /\ seen'[b] = seen[b]
    BY DEF TypeOK, Roused
  <2> QED  BY <2>1, <1>3, BesUntouched
<1> QED  BY <1>1, <1>2, <1>4, <1>5, <1>6, <1>7

\* A mapping that fails, of an HP that then runs on and of a BE that goes past.
LEMMA OpenFailsStep ==
  ASSUME IInv, SingleHp \/ InTurn, NEW p \in Processes, NEW next, OpenFails(p, next),
         \/ p \in Hps /\ next = "ready" /\ pc[p] \in {"open", "ready"}
         \/ p \in Bes /\ next = "bypass" /\ pc[p] = "open"
  PROVE  IInv'
<1> USE Frame DEF IInv, Goto
<1>0. /\ pc' = [pc EXCEPT ![p] = next] /\ mapped[p] = 0 /\ p \in MayFailOpen
      /\ created' \in 0 .. MaxSegments /\ named' \in 0 .. created' /\ created <= created'
      /\ named' = named \/ named' = created + 1
      /\ UNCHANGED <<segs, mapped, alive, copies, active, seen>>
  BY BoundAssumption DEF OpenFails, TypeOK
<1> HIDE DEF Goto
<1>1. TypeOK'  BY <1>0 DEF TypeOK
<1>2. LabelInv'  BY <1>0 DEF TypeOK, LabelInv, HpLabels, BeLabels
<1>3. Forward
  <2>1. p \in Hps => ~Claimed(p) /\ ~Over(p) /\ pc[p] # "dead"
    BY <1>0 DEF Claimed, Over
  <2> QED  BY <1>0, <2>1 DEF Forward, TypeOK, Claimed, Over
<1>4. SegmentInv'
  <2>1. CASE SingleHp  BY <1>0, <2>1 DEF SegmentInv, SingleHp
  <2>2. CASE InTurn
    <3>1. p \notin Hps  BY <1>0, <2>2 DEF InTurn
    <3>2. \A g \in Hps : pc'[g] = pc[g] /\ mapped[g] \in 0 .. created
      BY <1>0, <3>1 DEF TypeOK
    <3>3. \A g \in Hps : mapped[g] # created + 1
      BY <3>2 DEF TypeOK
    <3> QED  BY <1>0, <3>2, <3>3 DEF SegmentInv
  <2> QED  BY <2>1, <2>2
<1>5. WordInv'  BY <1>0, <1>3, WordsUntouched
<1>6. HpInv'
  <2>1. SUFFICES ASSUME NEW g \in Hps  PROVE HpFacts(g)'  BY DEF HpInv
  <2>2. CASE g = p
    <3>1. copies[g] = 0 /\ ~active[g]
      BY <1>0, <2>2 DEF LabelInv, HpInv, HpFacts, TypeOK
    <3>2. pc'[g] = "ready"  BY <1>0, <2>2 DEF TypeOK
    <3> QED  BY <1>0, <2>2, <3>1, <3>2 DEF HpFacts
  <2>3. CASE g # p
    <3>1. pc'[g] = pc[g]  BY <1>0, <2>3 DEF TypeOK
    <3> QED  BY <1>0, <3>1, HpUntouched
  <2> QED  BY <2>2, <2>3
<1>7. BeInv'
  <2>1. SUFFICES ASSUME NEW b \in Bes  PROVE BeFacts(b)'  BY DEF BeInv
  <2>2. pc'[b] = pc[b] \/ pc'[b] = "bypass"  BY <1>0 DEF TypeOK
  <2> QED  BY <1>0, <1>3, <2>2, BeUntouched DEF Watching, Waiting
<1> QED  BY <1>1, <1>2, <1>4, <1>5, <1>6, <1>7

\* A mapping of an HP that succeeds, before its registration or too late for it.
LEMMA HpOpensStep ==
  ASSUME IInv, SingleHp \/ InTurn, NEW h \in Hps, NEW next, Open(h, next),
         \/ pc[h] = "open" /\ next = "register"
         \/ pc[h] = "ready" /\ next = "ready"
  PROVE  IInv'
<1> USE Frame DEF IInv, Goto
<1>0. /\ Goto(h, next)
      /\ created' \in 0 .. MaxSegments /\ named' \in 1 .. created' /\ created <= created'
      /\ mapped' = [mapped EXCEPT ![h] = named']
      /\ mapped' \in [Processes -> 0 .. created']
      /\ named' = named \/ named' = created + 1
      /\ mapped[h] = 0
      /\ UNCHANGED <<segs, alive, copies, active, seen>>
  BY OpenEffect
<1>z. copies[h] = 0 /\ ~active[h]  BY <1>0 DEF LabelInv, HpInv, HpFacts, TypeOK
<1>r. pc[h] = "ready" => h \in MayFailOpen  BY <1>z DEF HpInv, HpFacts
<1>1. TypeOK'  BY <1>0 DEF TypeOK
<1>2. LabelInv'  BY <1>0, <1>z DEF TypeOK, LabelInv, HpLabels, BeLabels
<1>3. Forward  BY <1>0, <1>z DEF Forward, TypeOK, Claimed, Over, LabelInv, HpLabels
<1>4. SegmentInv'
  BY <1>0, <1>1, <1>r DEF SegmentInv, LabelInv, HpLabels, TypeOK, SingleHp, InTurn
<1>5. WordInv'  BY <1>0, <1>3, WordsUntouched
<1>6. HpInv'
  <2>1. HpFacts(h)'
    <3>1. /\ named' \in Segments /\ segs'[named'] = segs[named']
          /\ mapped'[h] = named' /\ named' # 0
      BY <1>0 DEF TypeOK, Segments
    <3>2. segs[named'].owner \in Hps \cup {NoOwner}  BY <3>1 DEF TypeOK
    <3>3. segs[named'].owner \notin Hps
      <4>1. SUFFICES ASSUME NEW g \in Hps, segs[named'].owner = g  PROVE FALSE
        OBVIOUS
      <4>2. mapped[g] = named'  BY <3>1, <4>1 DEF WordInv, WordFacts
      <4>3. mapped'[g] = mapped'[h]  BY <3>1, <4>2, <1>3 DEF Forward
      <4>4. g = h  BY <3>1, <4>3, <1>4 DEF SegmentInv
      <4> QED  BY <1>0, <3>1, <4>2, <4>4
    <3>4. /\ pc'[h] = next /\ Word(h)' = segs[named']
          /\ copies'[h] = 0 /\ ~active'[h]
      BY <1>0, <1>z, <3>1 DEF Word, TypeOK
    <3> QED  BY <1>r, <3>2, <3>3, <3>4 DEF HpFacts
  <2>2. \A g \in Hps \ {h} : /\ pc'[g] = pc[g] /\ mapped'[g] = mapped[g]
                               /\ copies'[g] = copies[g] /\ active'[g] = active[g]
    BY <1>0 DEF TypeOK
  <2> QED  BY <1>0, <2>1, <2>2, OtherHpsUntouched
<1>7. BeInv'
  <2>1. \A b \in Bes : Roused(b) /\ seen'[b] = seen[b]
    BY <1>0 DEF TypeOK, Roused
  <2> QED  BY <2>1, <1>3, BesUntouched
<1> QED  BY <1>1, <1>2, <1>4, <1>5, <1>6, <1>7

LEMMA RegisterLoadStep ==
  ASSUME IInv, SingleHp \/ InTurn, NEW h \in Hps, RegisterLoad(h)
  PROVE  IInv'
<1> USE Frame DEF IInv, RegisterLoad, Goto
<1>0. mapped[h] # 0 /\ mapped[h] \in Segments /\ Word(h) \in Words
  BY WordOf DEF LabelInv
<1>a. /\ segs' \in [Segments -> Words]
      /\ \A n \in Segments : n # mapped[h] => segs'[n] = segs[n]
  BY <1>0, SetWord DEF Words, TypeOK
<1>b. IF Word(h).owner = h
     THEN /\ segs'[mapped[h]].regs = Word(h).regs + 1
          /\ segs'[mapped[h]].owner = h /\ segs'[mapped[h]].state = Word(h).state
     ELSE segs'[mapped[h]] = Word(h)
  <2>1. [Word(h) EXCEPT !.regs = Word(h).regs + 1] \in Words  BY <1>0 DEF Words
  <2> QED  BY <1>0, <2>1, SetWord DEF Words, Word
<1>c. Word(h)' = segs'[mapped[h]]  BY <1>0 DEF Word, TypeOK
<1>1. TypeOK'
  <2>1. segs' \in [Segments -> Words]  BY <1>a
  <2>2. copies' \in [Hps -> Nat]  BY DEF TypeOK, HpInv, HpFacts
  <2> QED  BY <2>1, <2>2 DEF TypeOK, Words
<1>2. LabelInv'  BY DEF TypeOK, LabelInv, HpLabels, BeLabels
<1>3. Forward  BY DEF Forward, TypeOK, Claimed, Over, HpInv, HpFacts
<1>4. SegmentInv'  BY DEF SegmentInv, TypeOK
<1>5. WordInv'
  <2>1. SUFFICES ASSUME NEW n \in Segments  PROVE WordFacts(n)'
    BY DEF WordInv, Segments
  <2>2. CASE n # mapped[h]  BY <2>2, <1>a, <1>3, WordKept
  <2>3. CASE n = mapped[h]
    BY <2>3, <1>0, <1>b, <1>3, WordKept DEF Word, HpInv, HpFacts
  <2> QED  BY <2>2, <2>3
<1>6. HpInv'
  <2>1. HpFacts(h)'
    BY <1>0, <1>b, <1>c DEF TypeOK, HpInv, HpFacts, Holding, Words
  <2>2. \A g \in Hps \ {h} : /\ pc'[g] = pc[g] /\ mapped'[g] = mapped[g]
                               /\ copies'[g] = copies[g] /\ active'[g] = active[g]
    BY DEF TypeOK
  <2> QED  BY <1>a, <2>1, <2>2, OtherHpsUntouched
<1>7. BeInv'
  <2>1. \A b \in Bes : Roused(b) /\ seen'[b] = seen[b]
    BY DEF TypeOK, Roused
  <2> QED  BY <2>1, <1>3, BesUntouched
<1> QED  BY <1>1, <1>2, <1>4, <1>5, <1>6, <1>7

LEMMA RegisterCountStep ==
  ASSUME IInv, SingleHp \/ InTurn, NEW h \in Hps, RegisterCount(h)
  PROVE  IInv'
<1> USE Frame DEF IInv, RegisterCount, Goto
<1>0. mapped[h] # 0 /\ mapped[h] \in Segments /\ Word(h) \in Words
  BY WordOf DEF LabelInv
<1>a. /\ segs' \in [Segments -> Words]
      /\ \A n \in Segments : n # mapped[h] => segs'[n] = segs[n]
  BY <1>0, SetWord DEF Words
<1>b. /\ segs'[mapped[h]].state = Word(h).state
      /\ segs'[mapped[h]].owner = Word(h).owner
      /\ segs'[mapped[h]].regs = 1
  <2>1. [Word(h) EXCEPT !.regs = 1] \in Words  BY <1>0 DEF Words
  <2> QED  BY <1>0, <2>1, SetWord DEF Words
<1>c. Word(h)' = segs'[mapped[h]]  BY <1>0 DEF Word, TypeOK
<1>1. TypeOK'
  <2>1. segs' \in [Segments -> Words]  BY <1>a
  <2>2. copies' \in [Hps -> Nat]  BY DEF TypeOK
  <2> QED  BY <2>1, <2>2 DEF TypeOK, Words
<1>2. LabelInv'  BY DEF TypeOK, LabelInv, HpLabels, BeLabels
<1>3. Forward  BY DEF Forward, TypeOK, Claimed, Over
<1>4. SegmentInv'  BY DEF SegmentInv, TypeOK
<1>5. WordInv'
  <2>1. SUFFICES ASSUME NEW n \in Segments  PROVE WordFacts(n)'
    BY DEF WordInv, Segments
  <2>2. CASE n # mapped[h]  BY <2>2, <1>a, <1>3, WordKept
  <2>3. CASE n = mapped[h]
    BY <2>3, <1>0, <1>b, <1>3, WordKept DEF Word
  <2> QED  BY <2>2, <2>3
<1>6. HpInv'
  <2>1. HpFacts(h)'  BY <1>b, <1>c DEF TypeOK, HpInv, HpFacts, Holding
  <2>2. \A g \in Hps \ {h} : /\ pc'[g] = pc[g] /\ mapped'[g] = mapped[g]
                               /\ copies'[g] = copies[g] /\ active'[g] = active[g]
    BY DEF TypeOK
  <2> QED  BY <1>a, <2>1, <2>2, OtherHpsUntouched
<1>7. BeInv'
  <2>1. \A b \in Bes : Roused(b) /\ seen'[b] = seen[b]
    BY DEF TypeOK, Roused
  <2> QED  BY <2>1, <1>3, BesUntouched
<1> QED  BY <1>1, <1>2, <1>4, <1>5, <1>6, <1>7

LEMMA RegisterOwnerStep ==
  ASSUME IInv, SingleHp \/ InTurn, NEW h \in Hps, RegisterOwner(h)
  PROVE  IInv'
<1> USE Frame DEF IInv, RegisterOwner, Goto
<1>0. mapped[h] # 0 /\ mapped[h] \in Segments /\ Word(h) \in Words
  BY WordOf DEF LabelInv
<1>a. /\ segs' \in [Segments -> Words]
      /\ \A n \in Segments : n # mapped[h] => segs'[n] = segs[n]
  BY <1>0, SetWord DEF Words
<1>b. /\ segs'[mapped[h]].state = Word(h).state
      /\ segs'[mapped[h]].owner = h
      /\ segs'[mapped[h]].regs = Word(h).regs
  <2>1. [Word(h) EXCEPT !.owner = h] \in Words  BY <1>0 DEF Words
  <2> QED  BY <1>0, <2>1, SetWord DEF Words
<1>c. Word(h)' = segs'[mapped[h]]  BY <1>0 DEF Word, TypeOK
<1>1. TypeOK'
  <2>1. segs' \in [Segments -> Words]  BY <1>a
  <2>2. copies' \in [Hps -> Nat]  BY DEF TypeOK
  <2> QED  BY <2>1, <2>2 DEF TypeOK, Words
<1>2. LabelInv'  BY DEF TypeOK, LabelInv, HpLabels, BeLabels
<1>3. Forward  BY DEF Forward, TypeOK, Claimed, Over
<1>4. SegmentInv'  BY DEF SegmentInv, TypeOK
<1>5. WordInv'
  <2>1. SUFFICES ASSUME NEW n \in Segments  PROVE WordFacts(n)'
    BY DEF WordInv, Segments
  <2>2. CASE n # mapped[h]  BY <2>2, <1>a, <1>3, WordKept
  <2>3. CASE n = mapped[h]
    <3>1. Claimed(h)'  BY <1>0 DEF Claimed, TypeOK
    <3>2. segs'[n].owner = h /\ mapped[h] = n  BY <2>3, <1>b
    <3> QED  BY <3>1, <3>2, <1>3, WordKept
  <2> QED  BY <2>2, <2>3
<1>6. HpInv'
  <2>1. HpFacts(h)'  BY <1>b, <1>c DEF TypeOK, HpInv, HpFacts, Holding
  <2>2. \A g \in Hps \ {h} : /\ pc'[g] = pc[g] /\ mapped'[g] = mapped[g]
                               /\ copies'[g] = copies[g] /\ active'[g] = active[g]
    BY DEF TypeOK
  <2> QED  BY <1>a, <2>1, <2>2, OtherHpsUntouched
<1>7. BeInv'
  <2>1. \A b \in Bes : Roused(b) /\ seen'[b] = seen[b]
    BY DEF TypeOK, Roused
  <2> QED  BY <2>1, <1>3, BesUntouched
<1> QED  BY <1>1, <1>2, <1>4, <1>5, <1>6, <1>7

LEMMA RegisterStateStep ==
  ASSUME IInv, SingleHp \/ InTurn, NEW h \in Hps, RegisterState(h)
  PROVE  IInv'
<1> USE Frame DEF IInv, RegisterState, WokenBy
<1>0. mapped[h] # 0 /\ mapped[h] \in Segments /\ Word(h) \in Words
  BY WordOf DEF LabelInv
<1>a. /\ segs' \in [Segments -> Words]
      /\ \A n \in Segments : n # mapped[h] => segs'[n] = segs[n]
  BY <1>0, SetWord DEF Words
<1>b. /\ segs'[mapped[h]].state = "IDLE"
      /\ segs'[mapped[h]].owner = Word(h).owner
      /\ segs'[mapped[h]].regs = Word(h).regs
  <2>1. [Word(h) EXCEPT !.state = "IDLE"] \in Words  BY <1>0 DEF Words
  <2> QED  BY <1>0, <2>1, SetWord DEF Words
<1>c. Word(h)' = segs'[mapped[h]]  BY <1>0 DEF Word, TypeOK
<1>1. TypeOK'
  <2>1. segs' \in [Segments -> Words]  BY <1>a
  <2>2. copies' \in [Hps -> Nat]  BY DEF TypeOK, HpInv, HpFacts
  <2> QED  BY <2>1, <2>2 DEF TypeOK, Words
<1>2. LabelInv'  BY DEF TypeOK, LabelInv, HpLabels, BeLabels
<1>3. Forward  BY DEF Forward, TypeOK, Claimed, Over, HpInv, HpFacts
<1>4. SegmentInv'  BY DEF SegmentInv, TypeOK
<1>5. WordInv'
  <2>1. SUFFICES ASSUME NEW n \in Segments  PROVE WordFacts(n)'
    BY DEF WordInv, Segments
  <2>2. CASE n # mapped[h]  BY <2>2, <1>a, <1>3, WordKept
  <2>3. CASE n = mapped[h]
    BY <2>3, <1>0, <1>b, <1>3, WordKept DEF Word
  <2> QED  BY <2>2, <2>3
<1>6. HpInv'
  <2>1. HpFacts(h)'  BY <1>b, <1>c DEF TypeOK, HpInv, HpFacts, Holding
  <2>2. \A g \in Hps \ {h} : /\ pc'[g] = pc[g] /\ mapped'[g] = mapped[g]
                               /\ copies'[g] = copies[g] /\ active'[g] = active[g]
    BY DEF TypeOK, LabelInv, HpLabels
  <2> QED  BY <1>a, <2>1, <2>2, OtherHpsUntouched
<1>7. BeInv'
  <2>1. \A b \in Bes : Roused(b) /\ seen'[b] = seen[b]
    BY DEF TypeOK, Roused
  <2> QED  BY <2>1, <1>3, BesUntouched
<1> QED  BY <1>1, <1>2, <1>4, <1>5, <1>6, <1>7

LEMMA RegisterAgainStep ==
  ASSUME IInv, SingleHp \/ InTurn, NEW h \in Hps, RegisterAgain(h)
  PROVE  IInv'
<1> USE Frame DEF IInv, RegisterAgain, Goto, memory
<1>1. TypeOK'  BY DEF TypeOK
<1>2. LabelInv'  BY DEF TypeOK, LabelInv, HpLabels, BeLabels
<1>3. Forward  BY DEF Forward, TypeOK, Claimed, Over
<1>4. SegmentInv'  BY DEF SegmentInv, TypeOK
<1>5. WordInv'  BY <1>3, WordsUntouched
<1>6. HpInv'
  <2>1. HpFacts(h)'
    <3>1. pc'[h] = IF mapped[h] = 0 THEN "open" ELSE "register"
      BY DEF TypeOK
    <3>2. mapped[h] = 0 => copies[h] = 0
      BY DEF LabelInv, TypeOK
    <3>3. HpFacts(h) /\ Word(h)' = Word(h)
      BY DEF HpInv, Word
    <3> QED  BY <3>1, <3>2, <3>3 DEF HpFacts, Holding
  <2>2. \A g \in Hps \ {h} : /\ pc'[g] = pc[g] /\ mapped'[g] = mapped[g]
                               /\ copies'[g] = copies[g] /\ active'[g] = active[g]
    BY DEF TypeOK
  <2> QED  BY <2>1, <2>2, OtherHpsUntouched
<1>7. BeInv'
  <2>1. \A b \in Bes : Roused(b) /\ seen'[b] = seen[b]
    BY DEF TypeOK, Roused
  <2> QED  BY <2>1, <1>3, BesUntouched
<1> QED  BY <1>1, <1>2, <1>4, <1>5, <1>6, <1>7

LEMMA MarkActiveStep ==
  ASSUME IInv, SingleHp \/ InTurn, NEW h \in Hps, MarkActive(h)
  PROVE  IInv'
<1> USE Frame DEF IInv, MarkActive
<1>0. mapped[h] # 0 /\ mapped[h] \in Segments /\ Word(h) \in Words
  BY WordOf
<1>a. /\ segs' \in [Segments -> Words]
      /\ \A n \in Segments : n # mapped[h] => segs'[n] = segs[n]
  BY <1>0, SetWord DEF Words
<1>b. /\ segs'[mapped[h]].state = "ACTIVE"
      /\ segs'[mapped[h]].owner = Word(h).owner
      /\ segs'[mapped[h]].regs = Word(h).regs
  <2>1. [Word(h) EXCEPT !.state = "ACTIVE"] \in Words  BY <1>0 DEF Words
  <2> QED  BY <1>0, <2>1, SetWord DEF Words
<1>c. Word(h)' = segs'[mapped[h]]  BY <1>0 DEF Word, TypeOK
<1>1. TypeOK'
  <2>1. segs' \in [Segments -> Words]  BY <1>a
  <2>2. copies' \in [Hps -> Nat]  BY DEF TypeOK
  <2> QED  BY <2>1, <2>2 DEF TypeOK, Words
<1>2. LabelInv'  BY DEF TypeOK, LabelInv, HpLabels, BeLabels
<1>3. Forward  BY DEF Forward, TypeOK, Claimed, Over
<1>4. SegmentInv'  BY DEF SegmentInv, TypeOK
<1>5. WordInv'
  <2>1. SUFFICES ASSUME NEW n \in Segments  PROVE WordFacts(n)'
    BY DEF WordInv, Segments
  <2>2. CASE n # mapped[h]  BY <2>2, <1>a, <1>3, WordKept
  <2>3. CASE n = mapped[h]
    BY <2>3, <1>0, <1>b, <1>3, WordKept DEF Word, HpInv, HpFacts, Claimed
  <2> QED  BY <2>2, <2>3
<1>6. HpInv'
  <2>1. HpFacts(h)'
    <3>1. pc'[h] = "ready" /\ copies'[h] = copies[h] /\ mapped'[h] # 0 /\ copies[h] \in Nat
      BY DEF TypeOK
    <3>2. CASE copies[h] = 0
      <4>1. h \in MayFailOpen /\ Word(h).owner = NoOwner /\ ~active'[h]
        BY <3>2 DEF HpInv, HpFacts, TypeOK
      <4> QED  BY <1>b, <1>c, <3>1, <3>2, <4>1 DEF HpFacts
    <3>3. CASE copies[h] # 0
      <4>1. Holding(h, copies[h])
        BY <3>3 DEF HpInv, HpFacts
      <4>2. (Holding(h, copies[h]))'
        BY <1>b, <1>c, <3>1, <4>1 DEF Holding
      <4> QED  BY <3>1, <3>3, <4>2 DEF HpFacts
    <3> QED  BY <3>2, <3>3
  <2>2. \A g \in Hps \ {h} : /\ pc'[g] = pc[g] /\ mapped'[g] = mapped[g]
                               /\ copies'[g] = copies[g] /\ active'[g] = active[g]
    BY DEF TypeOK
  <2> QED  BY <1>a, <2>1, <2>2, OtherHpsUntouched
<1>7. BeInv'
  <2>1. \A b \in Bes : Roused(b) /\ seen'[b] = seen[b]
    BY DEF TypeOK, Roused
  <2> QED  BY <2>1, <1>3, BesUntouched
<1> QED  BY <1>1, <1>2, <1>4, <1>5, <1>6, <1>7

LEMMA MarkIdleStep ==
  ASSUME IInv, SingleHp \/ InTurn, NEW h \in Hps, MarkIdle(h)
  PROVE  IInv'
<1> USE Frame DEF IInv, MarkIdle, WokenBy
<1>0. mapped[h] # 0 /\ mapped[h] \in Segments /\ Word(h) \in Words
  BY WordOf
<1>a. /\ segs' \in [Segments -> Words]
      /\ \A n \in Segments : n # mapped[h] => segs'[n] = segs[n]
  BY <1>0, SetWord DEF Words
<1>b. /\ segs'[mapped[h]].state = "IDLE"
      /\ segs'[mapped[h]].owner = Word(h).owner
      /\ segs'[mapped[h]].regs = Word(h).regs
  <2>1. [Word(h) EXCEPT !.state = "IDLE"] \in Words  BY <1>0 DEF Words
  <2> QED  BY <1>0, <2>1, SetWord DEF Words
<1>c. Word(h)' = segs'[mapped[h]]  BY <1>0 DEF Word, TypeOK
<1>1. TypeOK'
  <2>1. segs' \in [Segments -> Words]  BY <1>a
  <2>2. copies' \in [Hps -> Nat]  BY DEF TypeOK
  <2> QED  BY <2>1, <2>2 DEF TypeOK, Words
<1>2. LabelInv'  BY DEF TypeOK, LabelInv, HpLabels, BeLabels
<1>3. Forward  BY DEF Forward, TypeOK, Claimed, Over
<1>4. SegmentInv'  BY DEF SegmentInv, TypeOK
<1>5. WordInv'
  <2>1. SUFFICES ASSUME NEW n \in Segments  PROVE WordFacts(n)'
    BY DEF WordInv, Segments
  <2>2. CASE n # mapped[h]  BY <2>2, <1>a, <1>3, WordKept
  <2>3. CASE n = mapped[h]
    BY <2>3, <1>0, <1>b, <1>3, WordKept DEF Word
  <2> QED  BY <2>2, <2>3
<1>6. HpInv'
  <2>1. HpFacts(h)'
    <3>1. pc'[h] = "ready" /\ copies'[h] = copies[h] /\ mapped'[h] # 0 /\ copies[h] \in Nat
      BY DEF TypeOK, LabelInv, HpLabels
    <3>2. CASE copies[h] = 0
      <4>1. h \in MayFailOpen /\ Word(h).owner = NoOwner /\ ~active'[h]
        BY <3>2 DEF HpInv, HpFacts, TypeOK
      <4> QED  BY <1>b, <1>c, <3>1, <3>2, <4>1 DEF HpFacts
    <3>3. CASE copies[h] # 0
      <4>1. Holding(h, copies[h])
        BY <3>3 DEF HpInv, HpFacts
      <4>2. (Holding(h, copies[h]))'
        BY <1>b, <1>c, <3>1, <4>1 DEF Holding, TypeOK
      <4> QED  BY <3>1, <3>3, <4>2 DEF HpFacts
    <3> QED  BY <3>2, <3>3
  <2>2. \A g \in Hps \ {h} : /\ pc'[g] = pc[g] /\ mapped'[g] = mapped[g]
                               /\ copies'[g] = copies[g] /\ active'[g] = active[g]
    BY DEF TypeOK, LabelInv, HpLabels
  <2> QED  BY <1>a, <2>1, <2>2, OtherHpsUntouched
<1>7. BeInv'
  <2>1. \A b \in Bes : Roused(b) /\ seen'[b] = seen[b]
    BY DEF TypeOK, Roused
  <2> QED  BY <2>1, <1>3, BesUntouched
<1> QED  BY <1>1, <1>2, <1>4, <1>5, <1>6, <1>7

LEMMA UnregisterLoadStep ==
  ASSUME IInv, SingleHp \/ InTurn, NEW h \in Hps, UnregisterLoad(h)
  PROVE  IInv'
<1> USE Frame DEF IInv, UnregisterLoad, Goto, memory
<1>0. mapped[h] # 0 => Word(h) \in Words
  BY WordOf
<1>z. \/ /\ mapped[h] # 0 /\ copies[h] > 0 /\ Holding(h, copies[h])
         /\ pc' = [pc EXCEPT ![h] = "count_down"]
         /\ copies' = [copies EXCEPT ![h] = @ - 1]
      \/ /\ copies[h] = 0 /\ h \in MayFailOpen
         /\ pc' = [pc EXCEPT ![h] = "exit"] /\ copies' = copies
  <2>1. copies[h] \in Nat  BY DEF TypeOK
  <2>2. CASE copies[h] = 0
    <3>1. h \in MayFailOpen /\ (mapped[h] # 0 => Word(h).owner = NoOwner)
      BY <2>2 DEF HpInv, HpFacts
    <3>2. copies' = copies  BY <2>2 DEF TypeOK
    <3> QED  BY <2>2, <3>1, <3>2
  <2>3. CASE copies[h] # 0
    <3>1. copies[h] > 0 /\ mapped[h] # 0 /\ Holding(h, copies[h]) /\ Word(h).owner = h
      BY <2>1, <2>3 DEF HpInv, HpFacts, Holding, LabelInv
    <3>2. copies' = [copies EXCEPT ![h] = copies[h] - 1]
      BY <3>1 DEF TypeOK
    <3> QED  BY <3>1, <3>2
  <2> QED  BY <2>2, <2>3
<1>1. TypeOK'
  <2>1. segs' \in [Segments -> Words]  BY DEF TypeOK, Words
  <2>2. copies' \in [Hps -> Nat]  BY <1>z DEF TypeOK
  <2> QED  BY <2>1, <2>2 DEF TypeOK, Words
<1>2. LabelInv'  BY <1>z DEF TypeOK, LabelInv, HpLabels, BeLabels
<1>3. Forward  BY <1>z DEF Forward, TypeOK, Claimed, Over
<1>4. SegmentInv'
  <2>1. CASE SingleHp  BY <2>1 DEF SegmentInv, SingleHp
  <2>2. CASE InTurn  BY <1>z, <2>2 DEF InTurn, SegmentInv, TypeOK
  <2> QED  BY <2>1, <2>2
<1>5. WordInv'  BY <1>3, WordsUntouched
<1>6. HpInv'
  <2>1. HpFacts(h)'
    <3>1. CASE mapped[h] # 0 /\ copies[h] > 0 /\ Holding(h, copies[h]) /\ pc'[h] = "count_down"
      <4>1. copies'[h] + 1 = copies[h]  BY <1>z, <3>1 DEF TypeOK
      <4> QED  BY <3>1, <4>1 DEF HpFacts, Holding, Word
    <3>2. CASE copies'[h] = 0 /\ pc'[h] = "exit"
      BY <3>2 DEF HpFacts
    <3> QED  BY <1>z, <3>1, <3>2 DEF TypeOK
  <2>2. \A g \in Hps \ {h} : /\ pc'[g] = pc[g] /\ mapped'[g] = mapped[g]
                               /\ copies'[g] = copies[g] /\ active'[g] = active[g]
    BY DEF TypeOK
  <2> QED  BY <2>1, <2>2, OtherHpsUntouched
<1>7. BeInv'
  <2>1. \A b \in Bes : Roused(b) /\ seen'[b] = seen[b]
    BY DEF TypeOK, Roused
  <2> QED  BY <2>1, <1>3, BesUntouched
<1> QED  BY <1>1, <1>2, <1>4, <1>5, <1>6, <1>7

LEMMA UnregisterCountStep ==
  ASSUME IInv, SingleHp \/ InTurn, NEW h \in Hps, UnregisterCount(h)
  PROVE  IInv'
<1> USE Frame DEF IInv, UnregisterCount, Goto
<1>0. mapped[h] # 0 /\ mapped[h] \in Segments /\ Word(h) \in Words
  BY WordOf DEF LabelInv
<1>a. /\ segs' \in [Segments -> Words]
      /\ \A n \in Segments : n # mapped[h] => segs'[n] = segs[n]
  BY <1>0, SetWord DEF Words, TypeOK
<1>b. /\ segs'[mapped[h]].regs = (IF Word(h).regs > 1 THEN Word(h).regs - 1 ELSE 0)
      /\ segs'[mapped[h]].owner = Word(h).owner /\ segs'[mapped[h]].state = Word(h).state
  <2>1. Word(h).regs > 1 => [Word(h) EXCEPT !.regs = Word(h).regs - 1] \in Words
    BY <1>0 DEF Words
  <2>2. [Word(h) EXCEPT !.regs = 0] \in Words  BY <1>0 DEF Words
  <2> QED  BY <1>0, <2>1, <2>2, SetWord DEF Words, Word
<1>c. Word(h)' = segs'[mapped[h]]  BY <1>0 DEF Word, TypeOK
<1>1. TypeOK'
  <2>1. segs' \in [Segments -> Words]  BY <1>a
  <2>2. copies' \in [Hps -> Nat]  BY DEF TypeOK
  <2> QED  BY <2>1, <2>2 DEF TypeOK, Words
<1>2. LabelInv'  BY DEF TypeOK, LabelInv, HpLabels, BeLabels
<1>3. Forward  BY DEF Forward, TypeOK, Claimed, Over, HpInv, HpFacts
<1>4. SegmentInv'
  BY <1>0 DEF SegmentInv, TypeOK, HpInv, HpFacts, Holding, Words
<1>5. WordInv'
  <2>1. SUFFICES ASSUME NEW n \in Segments  PROVE WordFacts(n)'
    BY DEF WordInv, Segments
  <2>2. CASE n # mapped[h]  BY <2>2, <1>a, <1>3, WordKept
  <2>3. CASE n = mapped[h]
    BY <2>3, <1>0, <1>b, <1>3, WordKept DEF Word
  <2> QED  BY <2>2, <2>3
<1>6. HpInv'
  <2>1. HpFacts(h)'
    BY <1>0, <1>b, <1>c DEF TypeOK, HpInv, HpFacts, Holding, Words
  <2>2. \A g \in Hps \ {h} : /\ pc'[g] = pc[g] /\ mapped'[g] = mapped[g]
                               /\ copies'[g] = copies[g] /\ active'[g] = active[g]
    BY DEF TypeOK
  <2> QED  BY <1>a, <2>1, <2>2, OtherHpsUntouched
<1>7. BeInv'
  <2>1. \A b \in Bes : Roused(b) /\ seen'[b] = seen[b]
    BY DEF TypeOK, Roused
  <2> QED  BY <2>1, <1>3, BesUntouched
<1> QED  BY <1>1, <1>2, <1>4, <1>5, <1>6, <1>7

LEMMA UnregisterStateStep ==
  ASSUME IInv, SingleHp \/ InTurn, NEW h \in Hps, UnregisterState(h)
  PROVE  IInv'
<1> USE Frame DEF IInv, UnregisterState, Goto
<1>0. mapped[h] # 0 /\ mapped[h] \in Segments /\ Word(h) \in Words
  BY WordOf DEF LabelInv
<1>a. /\ segs' \in [Segments -> Words]
      /\ \A n \in Segments : n # mapped[h] => segs'[n] = segs[n]
  BY <1>0, SetWord DEF Words
<1>b. /\ segs'[mapped[h]].state = "IDLE"
      /\ segs'[mapped[h]].owner = Word(h).owner
      /\ segs'[mapped[h]].regs = Word(h).regs
  <2>1. [Word(h) EXCEPT !.state = "IDLE"] \in Words  BY <1>0 DEF Words
  <2> QED  BY <1>0, <2>1, SetWord DEF Words
<1>c. Word(h)' = segs'[mapped[h]]  BY <1>0 DEF Word, TypeOK
<1>1. TypeOK'
  <2>1. segs' \in [Segments -> Words]  BY <1>a
  <2>2. copies' \in [Hps -> Nat]  BY DEF TypeOK
  <2> QED  BY <2>1, <2>2 DEF TypeOK, Words
<1>2. LabelInv'  BY DEF TypeOK, LabelInv, HpLabels, BeLabels
<1>3. Forward  BY DEF Forward, TypeOK, Claimed, Over
<1>4. SegmentInv'  BY DEF SegmentInv, TypeOK
<1>5. WordInv'
  <2>1. SUFFICES ASSUME NEW n \in Segments  PROVE WordFacts(n)'
    BY DEF WordInv, Segments
  <2>2. CASE n # mapped[h]  BY <2>2, <1>a, <1>3, WordKept
  <2>3. CASE n = mapped[h]
    BY <2>3, <1>0, <1>b, <1>3, WordKept DEF Word
  <2> QED  BY <2>2, <2>3
<1>6. HpInv'
  <2>1. HpFacts(h)'  BY <1>b, <1>c DEF TypeOK, HpInv, HpFacts, Holding
  <2>2. \A g \in Hps \ {h} : /\ pc'[g] = pc[g] /\ mapped'[g] = mapped[g]
                               /\ copies'[g] = copies[g] /\ active'[g] = active[g]
    BY DEF TypeOK
  <2> QED  BY <1>a, <2>1, <2>2, OtherHpsUntouched
<1>7. BeInv'
  <2>1. \A b \in Bes : Roused(b) /\ seen'[b] = seen[b]
    BY DEF TypeOK, Roused
  <2> QED  BY <2>1, <1>3, BesUntouched
<1> QED  BY <1>1, <1>2, <1>4, <1>5, <1>6, <1>7

LEMMA UnregisterOwnerStep ==
  ASSUME IInv, SingleHp \/ InTurn, NEW h \in Hps, UnregisterOwner(h)
  PROVE  IInv'
<1> USE Frame DEF IInv, UnregisterOwner, WokenBy
<1>0. mapped[h] # 0 /\ mapped[h] \in Segments /\ Word(h) \in Words
  BY WordOf DEF LabelInv
<1>a. /\ segs' \in [Segments -> Words]
      /\ \A n \in Segments : n # mapped[h] => segs'[n] = segs[n]
  BY <1>0, SetWord DEF Words
<1>b. /\ segs'[mapped[h]].state = Word(h).state
      /\ segs'[mapped[h]].owner = NoOwner
      /\ segs'[mapped[h]].regs = Word(h).regs
  <2>1. [Word(h) EXCEPT !.owner = NoOwner] \in Words  BY <1>0 DEF Words
  <2> QED  BY <1>0, <2>1, SetWord DEF Words
<1>c. Word(h)' = segs'[mapped[h]]  BY <1>0 DEF Word, TypeOK
<1>1. TypeOK'
  <2>1. segs' \in [Segments -> Words]  BY <1>a
  <2>2. copies' \in [Hps -> Nat]  BY DEF TypeOK
  <2> QED  BY <2>1, <2>2 DEF TypeOK, Words
<1>2. LabelInv'  BY DEF TypeOK, LabelInv, HpLabels, BeLabels
<1>3. Forward  BY DEF Forward, TypeOK, Claimed, Over
<1>4. SegmentInv'  BY DEF SegmentInv, TypeOK
<1>5. WordInv'
  <2>1. SUFFICES ASSUME NEW n \in Segments  PROVE WordFacts(n)'
    BY DEF WordInv, Segments
  <2>2. CASE n # mapped[h]  BY <2>2, <1>a, <1>3, WordKept
  <2>3. CASE n = mapped[h]
    BY <2>3, <1>0, <1>b, <1>3, WordKept DEF Word
  <2> QED  BY <2>2, <2>3
<1>6. HpInv'
  <2>1. HpFacts(h)'  BY <1>b, <1>c DEF TypeOK, HpInv, HpFacts, Holding
  <2>2. \A g \in Hps \ {h} : /\ pc'[g] = pc[g] /\ mapped'[g] = mapped[g]
                               /\ copies'[g] = copies[g] /\ active'[g] = active[g]
    BY DEF TypeOK, LabelInv, HpLabels
  <2> QED  BY <1>a, <2>1, <2>2, OtherHpsUntouched
<1>7. BeInv'
  <2>1. \A b \in Bes : Roused(b) /\ seen'[b] = seen[b]
    BY DEF TypeOK, Roused
  <2> QED  BY <2>1, <1>3, BesUntouched
<1> QED  BY <1>1, <1>2, <1>4, <1>5, <1>6, <1>7

LEMMA UnlinkStep ==
  ASSUME IInv, SingleHp \/ InTurn, NEW h \in Hps, Unlink(h)
  PROVE  IInv'
<1> USE Frame DEF IInv, Unlink, Goto
<1>1. TypeOK'  BY DEF TypeOK
<1>2. LabelInv'  BY DEF TypeOK, LabelInv, HpLabels, BeLabels
<1>3. Forward  BY DEF Forward, TypeOK, Claimed, Over, HpInv, HpFacts
<1>4. SegmentInv'  BY DEF SegmentInv, TypeOK
<1>5. WordInv'  BY <1>3, WordsUntouched
<1>6. HpInv'
  <2>1. HpFacts(h)'  BY DEF TypeOK, HpInv, HpFacts, Holding, Word
  <2>2. \A g \in Hps \ {h} : /\ pc'[g] = pc[g] /\ mapped'[g] = mapped[g]
                               /\ copies'[g] = copies[g] /\ active'[g] = active[g]
    BY DEF TypeOK
  <2> QED  BY <2>1, <2>2, OtherHpsUntouched
<1>7. BeInv'
  <2>1. \A b \in Bes : Roused(b) /\ seen'[b] = seen[b]
    BY DEF TypeOK, Roused
  <2> QED  BY <2>1, <1>3, BesUntouched
<1> QED  BY <1>1, <1>2, <1>4, <1>5, <1>6, <1>7

LEMMA HpExitStep ==
  ASSUME IInv, SingleHp \/ InTurn, NEW h \in Hps, HpExit(h)
  PROVE  IInv'
<1> USE Frame DEF IInv, HpExit, Goto, memory
<1>1. TypeOK'  BY DEF TypeOK
<1>2. LabelInv'  BY DEF TypeOK, LabelInv, HpLabels, BeLabels
<1>3. Forward  BY DEF Forward, TypeOK, Claimed, Over
<1>4. SegmentInv'  BY DEF SegmentInv, TypeOK
<1>5. WordInv'  BY <1>3, WordsUntouched
<1>6. HpInv'
  <2>1. HpFacts(h)'  BY DEF TypeOK, HpInv, HpFacts, Holding, Word
  <2>2. \A g \in Hps \ {h} : /\ pc'[g] = pc[g] /\ mapped'[g] = mapped[g]
                               /\ copies'[g] = copies[g] /\ active'[g] = active[g]
    BY DEF TypeOK
  <2> QED  BY <2>1, <2>2, OtherHpsUntouched
<1>7. BeInv'
  <2>1. \A b \in Bes : Roused(b) /\ seen'[b] = seen[b]
    BY DEF TypeOK, Roused
  <2> QED  BY <2>1, <1>3, BesUntouched
<1> QED  BY <1>1, <1>2, <1>4, <1>5, <1>6, <1>7

LEMMA BeCallStep ==
  ASSUME IInv, SingleHp \/ InTurn, NEW b \in Bes, BeCall(b)
  PROVE  IInv'
<1> USE Frame DEF IInv, BeCall, Goto, memory
<1>1. TypeOK'  BY DEF TypeOK
<1>2. LabelInv'  BY DEF TypeOK, LabelInv, HpLabels, BeLabels
<1>3. Forward  BY DEF Forward, TypeOK, Claimed, Over, LabelInv, HpLabels
<1>4. SegmentInv'  BY DEF SegmentInv, TypeOK, LabelInv, HpLabels
<1>5. WordInv'  BY <1>3, WordsUntouched
<1>6. HpInv'
  <2>1. \A g \in Hps : /\ pc'[g] = pc[g] /\ mapped'[g] = mapped[g]
                         /\ copies'[g] = copies[g] /\ active'[g] = active[g]
    BY DEF TypeOK
  <2> QED  BY <2>1, HpsUntouched
<1>7. BeInv'
  <2>1. \A q \in Bes \ {b} : Roused(q) /\ seen'[q] = seen[q]
    BY DEF TypeOK, Roused
  <2>2. BeFacts(b)'
    BY <1>3 DEF BeInv, BeFacts, Waiting, Forward, TypeOK
  <2> QED  BY <2>1, <2>2, <1>3, OtherBesUntouched
<1> QED  BY <1>1, <1>2, <1>4, <1>5, <1>6, <1>7

LEMMA BeOpensStep ==
  ASSUME IInv, SingleHp \/ InTurn, NEW b \in Bes, pc[b] = "open", Open(b, "owner")
  PROVE  IInv'
<1> USE Frame DEF IInv, Goto
<1>0. /\ pc[b] = "open" /\ Goto(b, "owner")
      /\ created' \in 0 .. MaxSegments /\ named' \in 1 .. created' /\ created <= created'
      /\ mapped' = [mapped EXCEPT ![b] = named']
      /\ mapped' \in [Processes -> 0 .. created']
      /\ named' = named \/ named' = created + 1
      /\ mapped[b] = 0
      /\ UNCHANGED <<segs, alive, copies, active, seen>>
  BY OpenEffect
<1>1. TypeOK'  BY <1>0 DEF TypeOK
<1>2. LabelInv'  BY <1>0 DEF TypeOK, LabelInv, HpLabels, BeLabels
<1>3. Forward  BY <1>0 DEF Forward, TypeOK, Claimed, Over, LabelInv, HpLabels
<1>4. SegmentInv'
  BY <1>0, <1>1, <1>3 DEF SegmentInv, TypeOK, Forward, LabelInv, HpLabels
<1>5. WordInv'  BY <1>0, <1>3, WordsUntouched
<1>6. HpInv'
  <2>1. \A g \in Hps : /\ pc'[g] = pc[g] /\ mapped'[g] = mapped[g]
                         /\ copies'[g] = copies[g] /\ active'[g] = active[g]
    BY <1>0 DEF TypeOK
  <2> QED  BY <1>0, <2>1, HpsUntouched
<1>7. BeInv'
  <2>1. \A q \in Bes \ {b} : Roused(q) /\ seen'[q] = seen[q]
    BY <1>0 DEF TypeOK, Roused
  <2>2. BeFacts(b)'
    BY <1>0, <1>3 DEF BeInv, BeFacts, Waiting, Forward, TypeOK
  <2> QED  BY <2>1, <2>2, <1>3, OtherBesUntouched
<1> QED  BY <1>1, <1>2, <1>4, <1>5, <1>6, <1>7

LEMMA OwnerLoadStep ==
  ASSUME IInv, SingleHp \/ InTurn, NEW b \in Bes, OwnerLoad(b)
  PROVE  IInv'
<1> USE Frame DEF IInv, OwnerLoad, Goto, Loads, memory
<1>0. mapped[b] # 0 /\ mapped[b] \in Segments /\ Word(b) \in Words
  BY WordOf DEF LabelInv
<1>1. TypeOK'  BY <1>0 DEF TypeOK, Words
<1>2. LabelInv'  BY DEF TypeOK, LabelInv, HpLabels, BeLabels
<1>3. Forward  BY DEF Forward, TypeOK, Claimed, Over, LabelInv, HpLabels
<1>4. SegmentInv'  BY DEF SegmentInv, TypeOK, LabelInv, HpLabels
<1>5. WordInv'  BY <1>3, WordsUntouched
<1>6. HpInv'
  <2>1. \A g \in Hps : /\ pc'[g] = pc[g] /\ mapped'[g] = mapped[g]
                         /\ copies'[g] = copies[g] /\ active'[g] = active[g]
    BY DEF TypeOK
  <2> QED  BY <2>1, HpsUntouched
<1>7. BeInv'
  <2>1. \A q \in Bes \ {b} : Roused(q) /\ seen'[q] = seen[q]
    BY DEF TypeOK, Roused
  <2>2. BeFacts(b)'
    BY <1>0, <1>3 DEF BeInv, BeFacts, Waiting, WordInv, WordFacts, Forward, TypeOK, Word
  <2> QED  BY <2>1, <2>2, <1>3, OtherBesUntouched
<1> QED  BY <1>1, <1>2, <1>4, <1>5, <1>6, <1>7

LEMMA OwnerCheckStep ==
  ASSUME IInv, SingleHp \/ InTurn, NEW b \in Bes, OwnerCheck(b)
  PROVE  IInv'
<1> USE Frame DEF IInv, OwnerCheck, Goto, memory
<1>1. TypeOK'  BY DEF TypeOK
<1>2. LabelInv'  BY DEF TypeOK, LabelInv, HpLabels, BeLabels
<1>3. Forward  BY DEF Forward, TypeOK, Claimed, Over, LabelInv, HpLabels
<1>4. SegmentInv'  BY DEF SegmentInv, TypeOK, LabelInv, HpLabels
<1>5. WordInv'  BY <1>3, WordsUntouched
<1>6. HpInv'
  <2>1. \A g \in Hps : /\ pc'[g] = pc[g] /\ mapped'[g] = mapped[g]
                         /\ copies'[g] = copies[g] /\ active'[g] = active[g]
    BY DEF TypeOK
  <2> QED  BY <2>1, HpsUntouched
<1>7. BeInv'
  <2>1. \A q \in Bes \ {b} : Roused(q) /\ seen'[q] = seen[q]
    BY DEF TypeOK, Roused
  <2>2. BeFacts(b)'
    BY <1>3 DEF BeInv, BeFacts, Waiting, LabelInv, HpLabels, Forward, TypeOK
  <2> QED  BY <2>1, <2>2, <1>3, OtherBesUntouched
<1> QED  BY <1>1, <1>2, <1>4, <1>5, <1>6, <1>7

LEMMA OwnerReclaimStep ==
  ASSUME IInv, SingleHp \/ InTurn, NEW b \in Bes, OwnerReclaim(b)
  PROVE  IInv'
<1> USE Frame DEF IInv, OwnerReclaim, Goto
<1>0. mapped[b] # 0 /\ mapped[b] \in Segments /\ Word(b) \in Words
  BY WordOf DEF LabelInv
<1>a. /\ segs' \in [Segments -> Words]
      /\ \A n \in Segments : n # mapped[b] => segs'[n] = segs[n]
  BY <1>0, SetWord DEF Words, TypeOK
<1>b. \/ segs'[mapped[b]] = Word(b)
      \/ /\ segs'[mapped[b]].state = Word(b).state
         /\ segs'[mapped[b]].owner = NoOwner
         /\ segs'[mapped[b]].regs = Word(b).regs
  <2>1. [Word(b) EXCEPT !.owner = NoOwner] \in Words  BY <1>0 DEF Words
  <2> QED  BY <1>0, <2>1, SetWord DEF Words, Word
<1>c. Word(b)' = segs'[mapped[b]]  BY <1>0 DEF Word, TypeOK
<1>1. TypeOK'
  <2>1. segs' \in [Segments -> Words]  BY <1>a
  <2>2. copies' \in [Hps -> Nat]  BY DEF TypeOK
  <2> QED  BY <2>1, <2>2 DEF TypeOK, Words
<1>2. LabelInv'  BY DEF TypeOK, LabelInv, HpLabels, BeLabels
<1>3. Forward  BY DEF Forward, TypeOK, Claimed, Over, LabelInv, HpLabels
<1>4. SegmentInv'  BY DEF SegmentInv, TypeOK, LabelInv, HpLabels
<1>5. WordInv'
  <2>1. SUFFICES ASSUME NEW n \in Segments  PROVE WordFacts(n)'
    BY DEF WordInv, Segments
  <2>2. CASE n # mapped[b]  BY <2>2, <1>a, <1>3, WordKept
  <2>3. CASE n = mapped[b]
    BY <2>3, <1>0, <1>b, <1>3, WordKept DEF Word
  <2> QED  BY <2>2, <2>3
<1>6. HpInv'
  <2>1. \A g \in Hps : /\ pc'[g] = pc[g] /\ mapped'[g] = mapped[g]
                         /\ copies'[g] = copies[g] /\ active'[g] = active[g]
    BY DEF TypeOK
  <2>2. \A g \in Hps : Over(g) \/ mapped[g] = 0 \/ segs'[mapped[g]] = segs[mapped[g]]
    BY <1>a, <1>b DEF BeInv, BeFacts, Waiting, SegmentInv, Over, TypeOK, Segments, Word
  <2> QED  BY <2>1, <2>2, HpsUntouched
<1>7. BeInv'
  <2>1. \A q \in Bes \ {b} : Roused(q) /\ seen'[q] = seen[q]
    BY DEF TypeOK, Roused
  <2>2. BeFacts(b)'
    <3>1. /\ seen[b] # NoOwner /\ mapped[seen[b]] = mapped[b] /\ pc[seen[b]] = "dead"
          /\ seen' = seen /\ mapped' = mapped /\ seen[b] \in Hps
      BY DEF BeInv, BeFacts, TypeOK
    <3>2. Claimed(seen[b])'
      BY <1>0, <1>3, <3>1 DEF Forward, Claimed
    <3>3. pc'[b] \in {"reclaim_regs", "bypass", "state"}
      BY DEF TypeOK
    <3>4. pc'[seen[b]] = "dead"
      BY <1>3, <3>1 DEF Forward
    <3> QED  BY <1>0, <3>1, <3>2, <3>3, <3>4 DEF BeFacts, Waiting
  <2> QED  BY <2>1, <2>2, <1>3, OtherBesUntouched
<1> QED  BY <1>1, <1>2, <1>4, <1>5, <1>6, <1>7

LEMMA ReclaimRegsStep ==
  ASSUME IInv, SingleHp \/ InTurn, NEW b \in Bes, ReclaimRegs(b)
  PROVE  IInv'
<1> USE Frame DEF IInv, ReclaimRegs, Goto
<1>0. mapped[b] # 0 /\ mapped[b] \in Segments /\ Word(b) \in Words
  BY WordOf DEF LabelInv
<1>a. /\ segs' \in [Segments -> Words]
      /\ \A n \in Segments : n # mapped[b] => segs'[n] = segs[n]
  BY <1>0, SetWord DEF Words
<1>b. /\ segs'[mapped[b]].state = Word(b).state
      /\ segs'[mapped[b]].owner = Word(b).owner
      /\ segs'[mapped[b]].regs = 0
  <2>1. [Word(b) EXCEPT !.regs = 0] \in Words  BY <1>0 DEF Words
  <2> QED  BY <1>0, <2>1, SetWord DEF Words
<1>c. Word(b)' = segs'[mapped[b]]  BY <1>0 DEF Word, TypeOK
<1>1. TypeOK'
  <2>1. segs' \in [Segments -> Words]  BY <1>a
  <2>2. copies' \in [Hps -> Nat]  BY DEF TypeOK
  <2> QED  BY <2>1, <2>2 DEF TypeOK, Words
<1>2. LabelInv'  BY DEF TypeOK, LabelInv, HpLabels, BeLabels
<1>3. Forward  BY DEF Forward, TypeOK, Claimed, Over, LabelInv, HpLabels
<1>4. SegmentInv'  BY DEF SegmentInv, TypeOK, LabelInv, HpLabels
<1>5. WordInv'
  <2>1. SUFFICES ASSUME NEW n \in Segments  PROVE WordFacts(n)'
    BY DEF WordInv, Segments
  <2>2. CASE n # mapped[b]  BY <2>2, <1>a, <1>3, WordKept
  <2>3. CASE n = mapped[b]
    BY <2>3, <1>0, <1>b, <1>3, WordKept DEF Word
  <2> QED  BY <2>2, <2>3
<1>6. HpInv'
  <2>1. \A g \in Hps : /\ pc'[g] = pc[g] /\ mapped'[g] = mapped[g]
                         /\ copies'[g] = copies[g] /\ active'[g] = active[g]
    BY DEF TypeOK
  <2>2. \A g \in Hps : Over(g) \/ mapped[g] = 0 \/ segs'[mapped[g]] = segs[mapped[g]]
    BY <1>a, <1>b DEF BeInv, BeFacts, Waiting, SegmentInv, Over, TypeOK, Segments, Word
  <2> QED  BY <2>1, <2>2, HpsUntouched
<1>7. BeInv'
  <2>1. \A q \in Bes \ {b} : Roused(q) /\ seen'[q] = seen[q]
    BY DEF TypeOK, Roused
  <2>2. BeFacts(b)'
    BY <1>0, <1>b, <1>3 DEF BeInv, BeFacts, Waiting, Forward, TypeOK, Word
  <2> QED  BY <2>1, <2>2, <1>3, OtherBesUntouched
<1> QED  BY <1>1, <1>2, <1>4, <1>5, <1>6, <1>7

LEMMA ReclaimStateStep ==
  ASSUME IInv, SingleHp \/ InTurn, NEW b \in Bes, ReclaimState(b)
  PROVE  IInv'
<1> USE Frame DEF IInv, ReclaimState, WokenBy
<1>0. mapped[b] # 0 /\ mapped[b] \in Segments /\ Word(b) \in Words
  BY WordOf DEF LabelInv
<1>a. /\ segs' \in [Segments -> Words]
      /\ \A n \in Segments : n # mapped[b] => segs'[n] = segs[n]
  BY <1>0, SetWord DEF Words
<1>b. /\ segs'[mapped[b]].state = "IDLE"
      /\ segs'[mapped[b]].owner = Word(b).owner
      /\ segs'[mapped[b]].regs = Word(b).regs
  <2>1. [Word(b) EXCEPT !.state = "IDLE"] \in Words  BY <1>0 DEF Words
  <2> QED  BY <1>0, <2>1, SetWord DEF Words
<1>c. Word(b)' = segs'[mapped[b]]  BY <1>0 DEF Word, TypeOK
<1>1. TypeOK'
  <2>1. segs' \in [Segments -> Words]  BY <1>a
  <2>2. copies' \in [Hps -> Nat]  BY DEF TypeOK
  <2> QED  BY <2>1, <2>2 DEF TypeOK, Words
<1>2. LabelInv'  BY DEF TypeOK, LabelInv, HpLabels, BeLabels
<1>3. Forward  BY DEF Forward, TypeOK, Claimed, Over, LabelInv, HpLabels
<1>4. SegmentInv'  BY DEF SegmentInv, TypeOK, LabelInv, HpLabels
<1>5. WordInv'
  <2>1. SUFFICES ASSUME NEW n \in Segments  PROVE WordFacts(n)'
    BY DEF WordInv, Segments
  <2>2. CASE n # mapped[b]  BY <2>2, <1>a, <1>3, WordKept
  <2>3. CASE n = mapped[b]
    BY <2>3, <1>0, <1>b, <1>3, WordKept DEF Word
  <2> QED  BY <2>2, <2>3
<1>6. HpInv'
  <2>1. \A g \in Hps : /\ pc'[g] = pc[g] /\ mapped'[g] = mapped[g]
                         /\ copies'[g] = copies[g] /\ active'[g] = active[g]
    BY DEF TypeOK, LabelInv, HpLabels
  <2>2. \A g \in Hps : Over(g) \/ mapped[g] = 0 \/ segs'[mapped[g]] = segs[mapped[g]]
    BY <1>a, <1>b DEF BeInv, BeFacts, Waiting, SegmentInv, Over, TypeOK, Segments, Word
  <2> QED  BY <2>1, <2>2, HpsUntouched
<1>7. BeInv'
  <2>1. \A q \in Bes \ {b} : Roused(q) /\ seen'[q] = seen[q]
    BY DEF TypeOK, Roused
  <2>2. BeFacts(b)'
    BY <1>0, <1>b, <1>3 DEF BeInv, BeFacts, Waiting, Forward, TypeOK, Word
  <2> QED  BY <2>1, <2>2, <1>3, OtherBesUntouched
<1> QED  BY <1>1, <1>2, <1>4, <1>5, <1>6, <1>7

LEMMA StateLoadStep ==
  ASSUME IInv, SingleHp \/ InTurn, NEW b \in Bes, StateLoad(b)
  PROVE  IInv'
<1> USE Frame DEF IInv, StateLoad, Goto, memory
<1>0. mapped[b] # 0 /\ mapped[b] \in Segments /\ Word(b) \in Words
  BY WordOf DEF LabelInv
<1>1. TypeOK'  BY DEF TypeOK
<1>2. LabelInv'  BY DEF TypeOK, LabelInv, HpLabels, BeLabels
<1>3. Forward  BY DEF Forward, TypeOK, Claimed, Over, LabelInv, HpLabels
<1>4. SegmentInv'  BY DEF SegmentInv, TypeOK, LabelInv, HpLabels
<1>5. WordInv'  BY <1>3, WordsUntouched
<1>6. HpInv'
  <2>1. \A g \in Hps : /\ pc'[g] = pc[g] /\ mapped'[g] = mapped[g]
                         /\ copies'[g] = copies[g] /\ active'[g] = active[g]
    BY DEF TypeOK
  <2> QED  BY <2>1, HpsUntouched
<1>7. BeInv'
  <2>1. \A q \in Bes \ {b} : Roused(q) /\ seen'[q] = seen[q]
    BY DEF TypeOK, Roused
  <2>2. BeFacts(b)'
    BY <1>0, <1>3 DEF BeInv, BeFacts, Waiting, WordInv, WordFacts, Forward, TypeOK, Word
  <2> QED  BY <2>1, <2>2, <1>3, OtherBesUntouched
<1> QED  BY <1>1, <1>2, <1>4, <1>5, <1>6, <1>7

LEMMA WaitOwnerLoadStep ==
  ASSUME IInv, SingleHp \/ InTurn, NEW b \in Bes, WaitOwnerLoad(b)
  PROVE  IInv'
<1> USE Frame DEF IInv, WaitOwnerLoad, Goto, Loads, memory
<1>0. mapped[b] # 0 /\ mapped[b] \in Segments /\ Word(b) \in Words
  BY WordOf DEF LabelInv
<1>1. TypeOK'  BY <1>0 DEF TypeOK, Words
<1>2. LabelInv'  BY DEF TypeOK, LabelInv, HpLabels, BeLabels
<1>3. Forward  BY DEF Forward, TypeOK, Claimed, Over, LabelInv, HpLabels
<1>4. SegmentInv'  BY DEF SegmentInv, TypeOK, LabelInv, HpLabels
<1>5. WordInv'  BY <1>3, WordsUntouched
<1>6. HpInv'
  <2>1. \A g \in Hps : /\ pc'[g] = pc[g] /\ mapped'[g] = mapped[g]
                         /\ copies'[g] = copies[g] /\ active'[g] = active[g]
    BY DEF TypeOK
  <2> QED  BY <2>1, HpsUntouched
<1>7. BeInv'
  <2>1. \A q \in Bes \ {b} : Roused(q) /\ seen'[q] = seen[q]
    BY DEF TypeOK, Roused
  <2>2. BeFacts(b)'
    <3>1. PICK h \in Hps : mapped[h] = mapped[b] /\ Claimed(h)
      BY DEF BeInv, BeFacts, Waiting
    <3>2. /\ seen'[b] = segs[mapped[b]].owner /\ mapped' = mapped
          /\ pc'[b] = "wait_alive" /\ Word(h).owner = seen'[b]
      BY <3>1 DEF Word, TypeOK
    <3>3. seen'[b] # NoOwner => mapped[seen'[b]] = mapped[b]
      BY <1>0, <3>2 DEF WordInv, WordFacts
    <3>4. seen'[b] = NoOwner => Over(h)
     BY <3>1, <3>2
     DEF LabelInv, HpLabels, HpInv, HpFacts, Holding, Over, Claimed, TypeOK
    <3>5. Claimed(h)' /\ (Over(h) => Over(h)')  BY <1>3, <3>1 DEF Forward
    <3> QED  BY <1>0, <3>1, <3>2, <3>3, <3>4, <3>5 DEF BeFacts, Waiting
  <2> QED  BY <2>1, <2>2, <1>3, OtherBesUntouched
<1> QED  BY <1>1, <1>2, <1>4, <1>5, <1>6, <1>7

LEMMA WaitOwnerCheckStep ==
  ASSUME IInv, SingleHp \/ InTurn, NEW b \in Bes, WaitOwnerCheck(b)
  PROVE  IInv'
<1> USE Frame DEF IInv, WaitOwnerCheck, Goto, memory
<1>1. TypeOK'  BY DEF TypeOK
<1>2. LabelInv'  BY DEF TypeOK, LabelInv, HpLabels, BeLabels
<1>3. Forward  BY DEF Forward, TypeOK, Claimed, Over, LabelInv, HpLabels
<1>4. SegmentInv'  BY DEF SegmentInv, TypeOK, LabelInv, HpLabels
<1>5. WordInv'  BY <1>3, WordsUntouched
<1>6. HpInv'
  <2>1. \A g \in Hps : /\ pc'[g] = pc[g] /\ mapped'[g] = mapped[g]
                         /\ copies'[g] = copies[g] /\ active'[g] = active[g]
    BY DEF TypeOK
  <2> QED  BY <2>1, HpsUntouched
<1>7. BeInv'
  <2>1. \A q \in Bes \ {b} : Roused(q) /\ seen'[q] = seen[q]
    BY DEF TypeOK, Roused
  <2>2. BeFacts(b)'
    BY <1>3 DEF BeInv, BeFacts, Waiting, LabelInv, HpLabels, Forward, TypeOK, Over
  <2> QED  BY <2>1, <2>2, <1>3, OtherBesUntouched
<1> QED  BY <1>1, <1>2, <1>4, <1>5, <1>6, <1>7

LEMMA FutexWaitStep ==
  ASSUME IInv, SingleHp \/ InTurn, NEW b \in Bes, FutexWait(b)
  PROVE  IInv'
<1> USE Frame DEF IInv, FutexWait, Goto, memory
<1>0. mapped[b] # 0 /\ mapped[b] \in Segments /\ Word(b) \in Words
  BY WordOf DEF LabelInv
<1>1. TypeOK'  BY DEF TypeOK
<1>2. LabelInv'  BY DEF TypeOK, LabelInv, HpLabels, BeLabels
<1>3. Forward  BY DEF Forward, TypeOK, Claimed, Over, LabelInv, HpLabels
<1>4. SegmentInv'  BY DEF SegmentInv, TypeOK, LabelInv, HpLabels
<1>5. WordInv'  BY <1>3, WordsUntouched
<1>6. HpInv'
  <2>1. \A g \in Hps : /\ pc'[g] = pc[g] /\ mapped'[g] = mapped[g]
                         /\ copies'[g] = copies[g] /\ active'[g] = active[g]
    BY DEF TypeOK
  <2> QED  BY <2>1, HpsUntouched
<1>7. BeInv'
  <2>1. \A q \in Bes \ {b} : Roused(q) /\ seen'[q] = seen[q]
    BY DEF TypeOK, Roused
  <2>2. BeFacts(b)'
    BY <1>3 DEF BeInv, BeFacts, Waiting, Forward, TypeOK
  <2> QED  BY <2>1, <2>2, <1>3, OtherBesUntouched
<1> QED  BY <1>1, <1>2, <1>4, <1>5, <1>6, <1>7

LEMMA FutexTimeoutStep ==
  ASSUME IInv, SingleHp \/ InTurn, NEW b \in Bes, FutexTimeout(b)
  PROVE  IInv'
<1> USE Frame DEF IInv, FutexTimeout, Goto, memory
<1>1. TypeOK'  BY DEF TypeOK
<1>2. LabelInv'  BY DEF TypeOK, LabelInv, HpLabels, BeLabels
<1>3. Forward  BY DEF Forward, TypeOK, Claimed, Over, LabelInv, HpLabels
<1>4. SegmentInv'  BY DEF SegmentInv, TypeOK, LabelInv, HpLabels
<1>5. WordInv'  BY <1>3, WordsUntouched
<1>6. HpInv'
  <2>1. \A g \in Hps : /\ pc'[g] = pc[g] /\ mapped'[g] = mapped[g]
                         /\ copies'[g] = copies[g] /\ active'[g] = active[g]
    BY DEF TypeOK
  <2> QED  BY <2>1, HpsUntouched
<1>7. BeInv'
  <2>1. \A q \in Bes \ {b} : Roused(q) /\ seen'[q] = seen[q]
    BY DEF TypeOK, Roused
  <2>2. BeFacts(b)'
    BY <1>3 DEF BeInv, BeFacts, Waiting, Forward, TypeOK
  <2> QED  BY <2>1, <2>2, <1>3, OtherBesUntouched
<1> QED  BY <1>1, <1>2, <1>4, <1>5, <1>6, <1>7

LEMMA ReleaseStep ==
  ASSUME IInv, SingleHp \/ InTurn, NEW b \in Bes, Release(b)
  PROVE  IInv'
<1> USE Frame DEF IInv, Release, Goto
<1>0. mapped[b] # 0 /\ mapped[b] \in Segments /\ Word(b) \in Words
  BY WordOf DEF LabelInv
<1>a. /\ segs' \in [Segments -> Words]
      /\ \A n \in Segments : n # mapped[b] => segs'[n] = segs[n]
  BY <1>0, SetWord DEF Words, TypeOK
<1>b. \/ segs'[mapped[b]] = Word(b)
      \/ /\ segs'[mapped[b]].state = "IDLE"
         /\ segs'[mapped[b]].owner = Word(b).owner
         /\ segs'[mapped[b]].regs = Word(b).regs
  <2>1. [Word(b) EXCEPT !.state = "IDLE"] \in Words  BY <1>0 DEF Words
  <2> QED  BY <1>0, <2>1, SetWord DEF Words, Word
<1>c. Word(b)' = segs'[mapped[b]]  BY <1>0 DEF Word, TypeOK
<1>1. TypeOK'
  <2>1. segs' \in [Segments -> Words]  BY <1>a
  <2>2. copies' \in [Hps -> Nat]  BY DEF TypeOK
  <2> QED  BY <2>1, <2>2 DEF TypeOK, Words
<1>2. LabelInv'  BY DEF TypeOK, LabelInv, HpLabels, BeLabels
<1>3. Forward  BY DEF Forward, TypeOK, Claimed, Over, LabelInv, HpLabels
<1>4. SegmentInv'  BY DEF SegmentInv, TypeOK, LabelInv, HpLabels
<1>5. WordInv'
  <2>1. SUFFICES ASSUME NEW n \in Segments  PROVE WordFacts(n)'
    BY DEF WordInv, Segments
  <2>2. CASE n # mapped[b]  BY <2>2, <1>a, <1>3, WordKept
  <2>3. CASE n = mapped[b]
    BY <2>3, <1>0, <1>b, <1>3, WordKept DEF Word
  <2> QED  BY <2>2, <2>3
<1>6. HpInv'
  <2>1. \A g \in Hps : /\ pc'[g] = pc[g] /\ mapped'[g] = mapped[g]
                         /\ copies'[g] = copies[g] /\ active'[g] = active[g]
    BY DEF TypeOK
  <2>2. \A g \in Hps : Over(g) \/ mapped[g] = 0 \/ segs'[mapped[g]] = segs[mapped[g]]
    BY <1>a, <1>b DEF BeInv, BeFacts, Waiting, SegmentInv, Over, TypeOK, Segments, Word
  <2> QED  BY <2>1, <2>2, HpsUntouched
<1>7. BeInv'
  <2>1. \A q \in Bes \ {b} : Roused(q) /\ seen'[q] = seen[q]
    BY DEF TypeOK, Roused
  <2>2. BeFacts(b)'
    BY <1>0, <1>b, <1>3 DEF BeInv, BeFacts, Waiting, Forward, TypeOK, Word
  <2> QED  BY <2>1, <2>2, <1>3, OtherBesUntouched
<1> QED  BY <1>1, <1>2, <1>4, <1>5, <1>6, <1>7

LEMMA ReleaseOwnerStep ==
  ASSUME IInv, SingleHp \/ InTurn, NEW b \in Bes, ReleaseOwner(b)
  PROVE  IInv'
<1> USE Frame DEF IInv, ReleaseOwner, WokenBy
<1>0. mapped[b] # 0 /\ mapped[b] \in Segments /\ Word(b) \in Words
  BY WordOf DEF LabelInv
<1>a. /\ segs' \in [Segments -> Words]
      /\ \A n \in Segments : n # mapped[b] => segs'[n] = segs[n]
  BY <1>0, SetWord DEF Words
<1>b. /\ segs'[mapped[b]].state = Word(b).state
      /\ segs'[mapped[b]].owner = NoOwner
      /\ segs'[mapped[b]].regs = Word(b).regs
  <2>1. [Word(b) EXCEPT !.owner = NoOwner] \in Words  BY <1>0 DEF Words
  <2> QED  BY <1>0, <2>1, SetWord DEF Words
<1>c. Word(b)' = segs'[mapped[b]]  BY <1>0 DEF Word, TypeOK
<1>1. TypeOK'
  <2>1. segs' \in [Segments -> Words]  BY <1>a
  <2>2. copies' \in [Hps -> Nat]  BY DEF TypeOK
  <2> QED  BY <2>1, <2>2 DEF TypeOK, Words
<1>2. LabelInv'  BY DEF TypeOK, LabelInv, HpLabels, BeLabels
<1>3. Forward  BY DEF Forward, TypeOK, Claimed, Over, LabelInv, HpLabels
<1>4. SegmentInv'  BY DEF SegmentInv, TypeOK, LabelInv, HpLabels
<1>5. WordInv'
  <2>1. SUFFICES ASSUME NEW n \in Segments  PROVE WordFacts(n)'
    BY DEF WordInv, Segments
  <2>2. CASE n # mapped[b]  BY <2>2, <1>a, <1>3, WordKept
  <2>3. CASE n = mapped[b]
    BY <2>3, <1>0, <1>b, <1>3, WordKept DEF Word
  <2> QED  BY <2>2, <2>3
<1>6. HpInv'
  <2>1. \A g \in Hps : /\ pc'[g] = pc[g] /\ mapped'[g] = mapped[g]
                         /\ copies'[g] = copies[g] /\ active'[g] = active[g]
    BY DEF TypeOK, LabelInv, HpLabels
  <2>2. \A g \in Hps : Over(g) \/ mapped[g] = 0 \/ segs'[mapped[g]] = segs[mapped[g]]
    BY <1>a, <1>b DEF BeInv, BeFacts, Waiting, SegmentInv, Over, TypeOK, Segments, Word
  <2> QED  BY <2>1, <2>2, HpsUntouched
<1>7. BeInv'
  <2>1. \A q \in Bes \ {b} : Roused(q) /\ seen'[q] = seen[q]
    BY DEF TypeOK, Roused
  <2>2. BeFacts(b)'
    BY <1>0, <1>b, <1>3 DEF BeInv, BeFacts, Waiting, Forward, TypeOK, Word
  <2> QED  BY <2>1, <2>2, <1>3, OtherBesUntouched
<1> QED  BY <1>1, <1>2, <1>4, <1>5, <1>6, <1>7

LEMMA BeLaunchStep ==
  ASSUME IInv, SingleHp \/ InTurn, NEW b \in Bes, BeLaunch(b)
  PROVE  IInv'
<1> USE Frame DEF IInv, BeLaunch, Goto, memory
<1>1. TypeOK'  BY DEF TypeOK
<1>2. LabelInv'  BY DEF TypeOK, LabelInv, HpLabels, BeLabels
<1>3. Forward  BY DEF Forward, TypeOK, Claimed, Over, LabelInv, HpLabels
<1>4. SegmentInv'  BY DEF SegmentInv, TypeOK, LabelInv, HpLabels
<1>5. WordInv'  BY <1>3, WordsUntouched
<1>6. HpInv'
  <2>1. \A g \in Hps : /\ pc'[g] = pc[g] /\ mapped'[g] = mapped[g]
                         /\ copies'[g] = copies[g] /\ active'[g] = active[g]
    BY DEF TypeOK
  <2> QED  BY <2>1, HpsUntouched
<1>7. BeInv'
  <2>1. \A q \in Bes \ {b} : Roused(q) /\ seen'[q] = seen[q]
    BY DEF TypeOK, Roused
  <2>2. BeFacts(b)'
    BY <1>3 DEF BeInv, BeFacts, Waiting, Forward, TypeOK
  <2> QED  BY <2>1, <2>2, <1>3, OtherBesUntouched
<1> QED  BY <1>1, <1>2, <1>4, <1>5, <1>6, <1>7

LEMMA CrashStep ==
  ASSUME IInv, SingleHp \/ InTurn, NEW p \in Processes, Crash(p)
  PROVE  IInv'
<1> USE Frame DEF IInv, Crash, Goto, memory
<1>0. p \in Hps => SingleHp  BY DEF InTurn
<1>1. TypeOK'  BY DEF TypeOK
<1>2. LabelInv'  BY DEF TypeOK, LabelInv, HpLabels, BeLabels
<1>3. Forward  BY DEF Forward, TypeOK, LabelInv, Claimed, Over, HpLabels
<1>4. SegmentInv'
  <2>1. CASE p \in Hps  BY <1>0, <2>1 DEF SegmentInv, SingleHp
  <2>2. CASE p \notin Hps
    <3>1. \A g \in Hps : pc'[g] = pc[g]  BY <2>2 DEF TypeOK
    <3> QED  BY <3>1 DEF SegmentInv
  <2> QED  BY <2>1, <2>2
<1>5. WordInv'
  <2>1. SUFFICES ASSUME NEW n \in Segments  PROVE WordFacts(n)'  BY DEF WordInv, Segments
  <2> QED  BY <1>3, WordKept
<1>6. HpInv'
  <2>1. SUFFICES ASSUME NEW h \in Hps  PROVE HpFacts(h)'  BY DEF HpInv
  <2>2. CASE h = p  BY <2>2 DEF HpFacts, TypeOK
  <2>3. CASE h # p
    <3>1. /\ pc'[h] = pc[h] /\ mapped'[h] = mapped[h] /\ copies'[h] = copies[h]
          /\ active'[h] = active[h] /\ segs' = segs
      BY <2>3 DEF TypeOK
    <3> QED  BY <3>1, HpUntouched
  <2> QED  BY <2>2, <2>3
<1>7. BeInv'
  <2>1. SUFFICES ASSUME NEW b \in Bes  PROVE BeFacts(b)'  BY DEF BeInv
  <2>2. (pc'[b] = pc[b] \/ pc'[b] = "dead") /\ seen'[b] = seen[b]  BY DEF TypeOK
  <2> QED  BY <2>2, <1>3, BeUntouched DEF Watching, Waiting
<1> QED BY <1>1, <1>2, <1>4, <1>5, <1>6, <1>7

LEMMA InitInv == Init => IInv
<1> SUFFICES ASSUME Init PROVE IInv  OBVIOUS
<1> USE Frame, ProcessAssumption, BoundAssumption DEF Init, NewSegment
<1>1. TypeOK  BY DEF TypeOK, Segments, Processes
<1>2. LabelInv  BY DEF LabelInv, HpLabels, BeLabels
<1>3. SegmentInv  BY DEF SegmentInv
<1>4. WordInv  BY DEF WordInv, WordFacts
<1>5. HpInv  BY DEF HpInv, HpFacts
<1>6. BeInv  BY DEF BeInv, BeFacts, Waiting
<1> QED  BY <1>1, <1>2, <1>3, <1>4, <1>5, <1>6 DEF IInv

LEMMA StutterInv == ASSUME IInv, UNCHANGED vars PROVE IInv'
<1> USE DEF vars, IInv
<1>1. TypeOK'  BY DEF TypeOK
<1>2. LabelInv'  BY DEF LabelInv
<1>3. SegmentInv'  BY DEF SegmentInv
<1>4. WordInv'  BY DEF WordInv, WordFacts, Claimed
<1>5. HpInv'  BY DEF HpInv, HpFacts, Holding, Word
<1>6. BeInv'  BY DEF BeInv, BeFacts, Claimed, Over
<1> QED  BY <1>1, <1>2, <1>3, <1>4, <1>5, <1>6

LEMMA NextInv == ASSUME IInv, SingleHp \/ InTurn, [Next]_vars PROVE IInv'
<1>1. CASE UNCHANGED vars  BY <1>1, StutterInv
<1>2. ASSUME NEW h \in Hps, HpStep(h) PROVE IInv'
  BY <1>2, Frame, HpOpensStep, OpenFailsStep, RegisterLoadStep, RegisterCountStep, RegisterOwnerStep, RegisterStateStep,
     UnregisterCountStep, UnregisterStateStep, UnregisterOwnerStep, UnlinkStep, HpExitStep
  DEF HpStep, HpOpen
<1>3. ASSUME NEW h \in Hps, HpChoice(h) PROVE IInv'
  BY <1>3, Frame, HpStartStep, HpOpensStep, OpenFailsStep, RegisterAgainStep, MarkActiveStep,
     MarkIdleStep, UnregisterLoadStep
  DEF HpChoice, HpOpenLate
<1>4. ASSUME NEW b \in Bes, BeCall(b) \/ BeStep(b) PROVE IInv'
  BY <1>4, Frame, BeCallStep, BeOpensStep, OpenFailsStep, OwnerLoadStep, OwnerCheckStep, OwnerReclaimStep, ReclaimRegsStep,
     ReclaimStateStep, StateLoadStep, WaitOwnerLoadStep, WaitOwnerCheckStep, FutexWaitStep,
     FutexTimeoutStep, ReleaseStep, ReleaseOwnerStep, BeLaunchStep
  DEF BeStep, BeOpen
<1> QED  BY <1>1, <1>2, <1>3, <1>4, CrashStep DEF Next

\* A registered HP stays the owner with its registrations counted, and ACTIVE
\* stays ACTIVE until it marks itself idle (activity_tracker.c: hp_register,
\* hp_unregister, and the repairs of hp_owner and be_wait_until_idle).
THEOREM PublicationStays ==
  ASSUME SingleHp \/ InTurn
  PROVE  Spec => []PublicationKept
<1>1. IInv => PublicationKept
  BY DEF IInv, PublicationKept, HpStaysPublished, Registered, HpInv, HpFacts, Holding
<1>2. IInv /\ [Next]_vars => IInv'  BY NextInv
<1> QED  BY <1>1, <1>2, InitInv, PTL DEF Spec

---------------------------------------------------------------------------
\* Until the one HP has unlinked the name, every mapping is of the segment that
\* the name leads to.
SameInv ==
  \A h \in Hps : pc[h] \notin {"exit", "dead"} =>
    \A p \in Processes : mapped[p] \in {0, named}

\* An HP that has unlinked the name and exits does not come back.
LEMMA LastLabels ==
  ASSUME IInv, NEW h \in Hps, [Next]_vars, pc[h] \in {"exit", "dead"}
  PROVE  pc'[h] \in {"exit", "dead"}
<1> USE Frame DEF IInv, TypeOK, Goto, WokenBy, Loads, memory
<1>1. CASE UNCHANGED vars  BY <1>1 DEF vars
<1>2. ASSUME NEW g \in Hps, HpStep(g) PROVE pc'[h] \in {"exit", "dead"}
  BY <1>2 DEF HpStep, HpOpen, Open, OpenFails, RegisterLoad, RegisterCount, RegisterOwner, RegisterState,
     UnregisterCount, UnregisterState, UnregisterOwner, Unlink, HpExit
<1>3. ASSUME NEW g \in Hps, HpChoice(g)
      PROVE  pc'[h] \in {"exit", "dead"}
  BY <1>3 DEF HpChoice, HpStart, HpOpenLate, Open, OpenFails, RegisterAgain, MarkActive, MarkIdle,
     UnregisterLoad
<1>4. ASSUME NEW b \in Bes, BeCall(b) \/ BeStep(b) PROVE pc'[h] \in {"exit", "dead"}
  BY <1>4 DEF BeStep, BeCall, BeOpen, Open, OpenFails, OwnerLoad, OwnerCheck, OwnerReclaim, ReclaimRegs,
     ReclaimState, StateLoad, WaitOwnerLoad, WaitOwnerCheck, FutexWait,
     FutexTimeout, Release, ReleaseOwner, BeLaunch
<1>5. ASSUME NEW p \in Processes, Crash(p) PROVE pc'[h] \in {"exit", "dead"}
  BY <1>5 DEF Crash
<1> QED  BY <1>1, <1>2, <1>3, <1>4, <1>5 DEF Next

\* The steps that change a mapping or the name.
LEMMA MapSteps ==
  ASSUME [Next]_vars
  PROVE  \/ UNCHANGED <<mapped, named>>
         \/ \E q \in Processes, next \in {"register", "ready", "owner", "bypass"} :
              Open(q, next) \/ OpenFails(q, next)
         \/ \E g \in Hps : Unlink(g)
<1> USE Frame DEF memory
<1>1. CASE UNCHANGED vars  BY <1>1 DEF vars
<1>2. ASSUME NEW g \in Hps, HpStep(g), ~HpOpen(g), ~Unlink(g) PROVE UNCHANGED <<mapped, named>>
  BY <1>2 DEF HpStep, RegisterLoad, RegisterCount, RegisterOwner, RegisterState,
     UnregisterCount, UnregisterState, UnregisterOwner, HpExit
<1>3. ASSUME NEW g \in Hps, HpChoice(g), ~HpOpenLate(g) PROVE UNCHANGED <<mapped, named>>
  BY <1>3 DEF HpChoice, HpStart, RegisterAgain, MarkActive, MarkIdle, UnregisterLoad
<1>4. ASSUME NEW b \in Bes, BeCall(b) \/ BeStep(b), ~BeOpen(b) PROVE UNCHANGED <<mapped, named>>
  BY <1>4 DEF BeStep, BeCall, OwnerLoad, OwnerCheck, OwnerReclaim, ReclaimRegs,
     ReclaimState, StateLoad, WaitOwnerLoad, WaitOwnerCheck, FutexWait,
     FutexTimeout, Release, ReleaseOwner, BeLaunch
<1>5. ASSUME NEW p \in Processes, Crash(p) PROVE UNCHANGED <<mapped, named>>
  BY <1>5 DEF Crash
<1>6. ASSUME NEW q \in Processes, NEW next \in {"register", "ready", "owner", "bypass"},
             Open(q, next) \/ OpenFails(q, next)
      PROVE  \E p \in Processes, goal \in {"register", "ready", "owner", "bypass"} :
               Open(p, goal) \/ OpenFails(p, goal)
  BY <1>6
<1>7. CASE \E g \in Hps : HpOpen(g) \/ HpOpenLate(g)
  BY <1>6, <1>7 DEF HpOpen, HpOpenLate
<1>8. CASE \E b \in Bes : BeOpen(b)
  BY <1>6, <1>8 DEF BeOpen
<1> QED  BY <1>1, <1>2, <1>3, <1>4, <1>5, <1>7, <1>8 DEF Next

LEMMA SameNext == ASSUME IInv, SingleHp, SameInv, [Next]_vars PROVE SameInv'
<1> USE Frame DEF IInv
<1>1. SUFFICES ASSUME NEW h \in Hps, pc'[h] \notin {"exit", "dead"}, NEW p \in Processes
               PROVE  mapped'[p] \in {0, named'}
  BY DEF SameInv
<1>2. \A g \in Hps : g = h  BY DEF SingleHp
<1>3. pc[h] \notin {"exit", "dead"}  BY <1>1, LastLabels
<1>4. \A q \in Processes : mapped[q] \in {0, named}  BY <1>3 DEF SameInv
<1>5. CASE UNCHANGED <<mapped, named>>
  BY <1>4, <1>5
<1>6. ASSUME NEW q \in Processes, NEW next, Open(q, next) \/ OpenFails(q, next)
      PROVE  mapped'[p] \in {0, named'}
  BY <1>4, <1>6 DEF Open, OpenFails, TypeOK
<1>7. ASSUME NEW g \in Hps, Unlink(g) PROVE FALSE
  <2>1. pc[h] = "unlink" /\ copies[h] = 0  BY <1>2, <1>7 DEF Unlink, HpInv, HpFacts
  <2>2. pc'[h] = "exit"  BY <1>2, <1>7, <2>1 DEF Unlink, Goto, TypeOK
  <2> QED  BY <1>1, <2>2
<1> QED BY <1>5, <1>6, <1>7, MapSteps

\* The six steps that let a BE through, one by one.
LEMMA PassStep ==
  ASSUME IInv, SingleHp, SameInv, [Next]_vars, NEW b \in Bes,
         LetThrough(b), mapped'[b] # 0, NEW h \in Hps, Registered(h)
  PROVE  ~active[h]
<1> USE Frame DEF IInv
<1>1. pc[b] \notin {"bypass", "launch"} /\ pc'[b] \in {"bypass", "launch"}  BY DEF LetThrough
<1>2. OwnerLoad(b) \/ OwnerReclaim(b) \/ ReclaimState(b) \/ StateLoad(b) \/ Release(b) \/ ReleaseOwner(b)
  <2> USE <1>1 DEF TypeOK, Goto, WokenBy, Loads, memory
  <2>1. CASE UNCHANGED vars  BY <2>1 DEF vars
  <2>2. ASSUME NEW g \in Hps, HpStep(g) PROVE FALSE
    BY <2>2 DEF HpStep, HpOpen, Open, OpenFails, RegisterLoad, RegisterCount, RegisterOwner, RegisterState,
       UnregisterCount, UnregisterState, UnregisterOwner, Unlink, HpExit
  <2>3. ASSUME NEW g \in Hps, HpChoice(g)
        PROVE  FALSE
    BY <2>3 DEF HpChoice, HpStart, HpOpenLate, Open, OpenFails, RegisterAgain, MarkActive, MarkIdle,
     UnregisterLoad
  <2>4. ASSUME NEW q \in Bes \ {b}, BeCall(q) \/ BeStep(q) PROVE FALSE
    BY <2>4 DEF BeStep, BeCall, BeOpen, Open, OpenFails, OwnerLoad, OwnerCheck, OwnerReclaim, ReclaimRegs,
       ReclaimState, StateLoad, WaitOwnerLoad, WaitOwnerCheck, FutexWait,
       FutexTimeout, Release, ReleaseOwner, BeLaunch
  <2>5. ASSUME BeCall(b) \/ BeOpen(b) \/ OwnerCheck(b) \/ ReclaimRegs(b) \/ WaitOwnerLoad(b)
               \/ WaitOwnerCheck(b) \/ FutexWait(b) \/ FutexTimeout(b) \/ BeLaunch(b)  PROVE FALSE
    BY <2>5 DEF BeCall, BeOpen, Open, OpenFails, OwnerCheck, ReclaimRegs,
       WaitOwnerLoad, WaitOwnerCheck, FutexWait, FutexTimeout, BeLaunch
  <2>6. ASSUME NEW p \in Processes, Crash(p) PROVE FALSE
    BY <2>6 DEF Crash
  <2> QED  BY <2>1, <2>2, <2>3, <2>4, <2>5, <2>6 DEF Next, BeStep
<1>3. mapped[b] # 0 /\ mapped[h] # 0  BY <1>2 DEF OwnerLoad, OwnerReclaim, ReclaimState, StateLoad, Release, ReleaseOwner, LabelInv, Registered
<1>4. mapped[b] = mapped[h] /\ Word(b) = Word(h)  BY <1>3 DEF SameInv, Registered, Word
<1>5. Word(h).owner = h /\ (active[h] => Word(h).state = "ACTIVE") /\ h # NoOwner
  BY ProcessAssumption DEF Registered, HpInv, HpFacts, Holding
<1>6. \A g \in Hps : pc[g] # "dead" /\ ~Over(g)  BY DEF SingleHp, Over, Registered
<1>7. CASE OwnerLoad(b)  BY <1>1, <1>4, <1>5, <1>7 DEF OwnerLoad, Goto, TypeOK
<1>8. CASE OwnerReclaim(b)  BY <1>1, <1>4, <1>5, <1>8 DEF OwnerReclaim, Goto, TypeOK
<1>9. CASE ReclaimState(b)  BY <1>6, <1>9 DEF ReclaimState, BeInv, BeFacts, TypeOK
<1>10. CASE StateLoad(b)  BY <1>1, <1>4, <1>5, <1>10 DEF StateLoad, Goto, TypeOK
<1>11. CASE Release(b) \/ ReleaseOwner(b)  BY <1>6, <1>11 DEF Release, ReleaseOwner, BeInv, BeFacts
<1> QED  BY <1>2, <1>7, <1>8, <1>9, <1>10, <1>11

\* A BE that has the segment mapped is let through to its launch only at a moment
\* when no registered HP is active (activity_tracker.c: lilt_event_hp_owner,
\* lilt_event_be_wait_until_idle); HP and BEs may fail to map it at any call.
THEOREM NoPass ==
  ASSUME SingleHp
  PROVE  Spec => NoPassWhileActive
<1>1. Init => SameInv  BY Frame DEF Init, SameInv
<1>2. IInv /\ [Next]_vars => IInv'  BY NextInv
<1>3. IInv /\ SameInv /\ [Next]_vars => SameInv'  BY SameNext
<1>4. IInv /\ SameInv /\ [Next]_vars =>
        [\A b \in Bes :
           LetThrough(b) /\ mapped'[b] # 0 => \A h \in Hps : Registered(h) => ~active[h]]_vars
  BY PassStep
<1> QED  BY <1>1, <1>2, <1>3, <1>4, InitInv, PTL DEF Spec, NoPassWhileActive

\* lilt_event_hp_owner returns no owner only while no HP is registered, given one
\* HP process and BEs that can map the segment: the comment on the function is
\* right there, and it takes a second HP (ActivityRestart) or a failed mapping to
\* refute it.
THEOREM ZeroOwner ==
  ASSUME SingleHp, MayFailOpen \cap Bes = {}
  PROVE  Spec => ZeroMeansNoHp
<1>1. Init => SameInv  BY Frame DEF Init, SameInv
<1>2. IInv /\ [Next]_vars => IInv'  BY NextInv
<1>3. IInv /\ SameInv /\ [Next]_vars => SameInv'  BY SameNext
<1>4. IInv /\ SameInv =>
        \A b \in Bes :
          (OwnerLoad(b) \/ BeOpen(b)) /\ pc'[b] = "bypass" => \A h \in Hps : ~Registered(h)
  <2> SUFFICES ASSUME IInv, SameInv, NEW b \in Bes, OwnerLoad(b) \/ BeOpen(b),
                      pc'[b] = "bypass", NEW h \in Hps, Registered(h)
               PROVE  FALSE
    OBVIOUS
  <2>1. OwnerLoad(b)
    <3>1. pc[b] = "open" => Open(b, "owner") \/ OwnerLoad(b)
      BY DEF BeOpen, OpenFails, OwnerLoad
    <3>2. ~Open(b, "owner")
      BY Frame DEF Open, Goto, IInv, TypeOK
    <3> QED  BY <3>1, <3>2 DEF BeOpen
  <2>2. Word(b).owner = NoOwner
    BY <2>1 DEF OwnerLoad, Goto, IInv, TypeOK
  <2>3. mapped[b] # 0 /\ mapped[h] # 0
    BY <2>1 DEF OwnerLoad, IInv, LabelInv, Registered
  <2>4. Word(b) = Word(h)
    BY <2>1, <2>3, Frame DEF SameInv, Registered, Word
  <2>5. Word(h).owner = h
    BY <2>1 DEF Registered, IInv, HpInv, HpFacts, Holding
  <2> QED  BY <2>2, <2>4, <2>5, Frame
<1>5. IInv /\ SameInv /\ [Next]_vars =>
        [\A b \in Bes :
          (OwnerLoad(b) \/ BeOpen(b)) /\ pc'[b] = "bypass" =>
            \A h \in Hps : ~Registered(h)]_vars
  BY <1>4
<1> QED  BY <1>1, <1>2, <1>3, <1>5, InitInv, PTL DEF Spec, ZeroMeansNoHp
============================================================================
