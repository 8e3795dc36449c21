------------------------ MODULE RateControl_proofs ------------------------
(***************************************************************************)
(* Theorems about RateControl: for every number of threads and HPs, every  *)
(* launch size and every report, launches that are held to a limit exceed  *)
(* it by at most one launch of each thread, and the rate a manager takes   *)
(* for the HP's is within what that HP has reported.                       *)
(***************************************************************************)
EXTENDS RateControl, SumTheorems, FiniteSetTheorems, TLAPS

\* The assumptions, one by one.
LEMMA Consts ==
  /\ WindowSize \in Nat /\ WindowSize >= 2 /\ ProfileTime \in Nat /\ ProfileTime >= 3
  /\ Sizes \subseteq Nat /\ Sizes # {} /\ IsFiniteSet(Sizes)
  /\ IsFiniteSet(Threads) /\ Cardinality(Threads) \in Nat
  /\ NoHp \notin Hps
  /\ SettleSamples \in Nat /\ Patience \in Nat /\ Patience > 0
  /\ Initializer \in 1 .. UpperLimit /\ RateMin \in 1 .. UpperLimit
  /\ SlowCeiling \in Nat /\ AvoidCeiling \in Nat /\ UpperLimit \in Nat
  /\ QuietRate \in Nat /\ ZeroTolerance \in Nat
  /\ RateThreshold \in Nat /\ ReprofileThreshold \in Nat
  BY SizeAssumption, LimitAssumption, WindowAssumption, FS_CardinalityType

---------------------------------------------------------------------------
(* Greatest and least elements. *)

\* A finite set of integers has a greatest element.
LEMMA HasGreatest ==
  ASSUME NEW S, IsFiniteSet(S), S \subseteq Int, S # {}
  PROVE  \E x \in S : \A y \in S : x >= y
  <1> DEFINE G == {T \in SUBSET S : T = {} \/ \E x \in T : \A y \in T : x >= y}
  <1>1. {} \in G
    OBVIOUS
  <1>2. ASSUME NEW T \in SUBSET S, NEW z \in S, z \in T, T \ {z} \in G
        PROVE  T \in G
    <2>1. CASE T \ {z} = {}
      <3>1. T = {z}
        BY <1>2, <2>1
      <3> QED
        BY <3>1
    <2>2. CASE \E x \in T \ {z} : \A y \in T \ {z} : x >= y
      <3>1. PICK x \in T \ {z} : \A y \in T \ {z} : x >= y
        BY <2>2
      <3>2. CASE x >= z
        BY <3>1, <3>2
      <3>3. CASE ~(x >= z)
        <4>1. \A y \in T : z >= y
          BY <3>1, <3>3
        <4> QED
          BY <1>2, <4>1
      <3> QED
        BY <3>2, <3>3
    <2> QED
      BY <1>2, <2>1, <2>2
  <1>3. S \in G
    <2> HIDE DEF G
    <2> QED
      BY <1>1, <1>2, SubsetInduction
  <1> QED
    BY <1>3

\* A set of naturals has a least element.
LEMMA HasLeast ==
  ASSUME NEW S, S \subseteq Nat, S # {}
  PROVE  \E x \in S : \A y \in S : x <= y
  <1> DEFINE R == OpToRel(<, Nat)
  <1>1. PICK x \in S : \A y \in S : <<y, x>> \notin R
    <2>1. IsWellFoundedOn(R, Nat)
      BY NatLessThanWellFounded
    <2> HIDE DEF R
    <2> QED
      BY <2>1, WFMin
  <1>2. \A y \in S : ~(y < x)
    BY <1>1 DEF OpToRel
  <1> QED
    BY <1>2

\* The values of a function on a finite set are finitely many.
LEMMA ImageFinite ==
  ASSUME NEW S, IsFiniteSet(S), NEW f
  PROVE  IsFiniteSet({f[i] : i \in S})
  <1> DEFINE T == {f[i] : i \in S}
             g == [i \in S |-> f[i]]
  <1>1. g \in Surjection(S, T)
    BY DEF Surjection
  <1> QED
    BY <1>1, FS_Surjection

\* The library's maximum and minimum.
LEMMA MaxOf ==
  ASSUME NEW S, IsFiniteSet(S), S \subseteq Int, S # {}
  PROVE  Max(S) \in S /\ \A y \in S : Max(S) >= y
  BY HasGreatest DEF Max

LEMMA MinOf ==
  ASSUME NEW S, S \subseteq Nat, S # {}
  PROVE  Min(S) \in S /\ \A y \in S : Min(S) <= y
  BY HasLeast DEF Min

LEMMA LargestOf ==
  ASSUME NEW S, IsFiniteSet(S), S \subseteq Int, S # {}
  PROVE  Largest(S) \in S /\ \A y \in S : y <= Largest(S)
  <1>1. \E x \in S : \A y \in S : y <= x
    BY HasGreatest
  <1> QED
    BY <1>1 DEF Largest

\* No launch is larger than the largest.
LEMMA MaxSize == Max(Sizes) \in Nat /\ \A s \in Sizes : s <= Max(Sizes)
  <1>1. Sizes \subseteq Int /\ Sizes # {} /\ IsFiniteSet(Sizes)
    BY Consts
  <1> QED
    BY <1>1, Consts, MaxOf

\* The largest mean of two neighbours in a window.
LEMMA SeenWindow ==
  ASSUME NEW w \in [1 .. WindowSize -> Nat], NEW m, manager[m].window = w
  PROVE  /\ Seen(m) \in Nat
         /\ Seen(m) = 0 \/ \E i \in 2 .. WindowSize : Seen(m) = (w[i] + w[i - 1]) \div 2
         /\ \A i \in 2 .. WindowSize : Seen(m) >= (w[i] + w[i - 1]) \div 2
  <1> DEFINE f == [i \in 2 .. WindowSize |-> (w[i] + w[i - 1]) \div 2]
  <1>0. WindowSize \in Nat
    BY Consts
  <1>1. \A i \in 2 .. WindowSize : f[i] \in Nat /\ f[i] = (w[i] + w[i - 1]) \div 2
    <2> SUFFICES ASSUME NEW i \in 2 .. WindowSize
                 PROVE  f[i] \in Nat /\ f[i] = (w[i] + w[i - 1]) \div 2
      OBVIOUS
    <2>1. i \in 1 .. WindowSize /\ i - 1 \in 1 .. WindowSize
      BY <1>0
    <2>2. w[i] \in Nat /\ w[i - 1] \in Nat
      BY <2>1
    <2> QED
      BY <2>2
  <1>2. Means(w) = {f[i] : i \in 2 .. WindowSize}
    BY <1>1 DEF Means
  <1>3. IsFiniteSet(2 .. WindowSize)
    BY <1>0, FS_Interval
  <1>4. IsFiniteSet({f[i] : i \in 2 .. WindowSize})
    <2> HIDE DEF f
    <2> QED
      BY <1>3, ImageFinite
  <1>5. IsFiniteSet({0} \cup Means(w))
    BY <1>2, <1>4, FS_Union, FS_Singleton
  <1>6. {0} \cup Means(w) \subseteq Nat
    BY <1>1, <1>2
  <1>7. Seen(m) = Largest({0} \cup Means(w))
    BY DEF Seen
  <1>8. /\ Seen(m) \in {0} \cup Means(w)
        /\ \A y \in {0} \cup Means(w) : y <= Seen(m)
    <2> DEFINE T == {0} \cup Means(w)
    <2>1. IsFiniteSet(T) /\ T \subseteq Int /\ T # {} /\ Seen(m) = Largest(T)
      BY <1>5, <1>6, <1>7
    <2> HIDE DEF T
    <2>2. Seen(m) \in T /\ \A y \in T : y <= Seen(m)
      BY <2>1, LargestOf
    <2> QED
      BY <2>2 DEF T
  <1> HIDE DEF f
  <1>9. \A i \in 2 .. WindowSize : f[i] \in Means(w)
    BY <1>2
  <1>10. Seen(m) = 0 \/ \E i \in 2 .. WindowSize : Seen(m) = f[i]
    BY <1>2, <1>8
  <1> QED
    BY <1>1, <1>6, <1>8, <1>9, <1>10

---------------------------------------------------------------------------
(* The inductive invariant. *)


Starting == {t \in Threads : call[t].pc = "initialize"}
Adding   == {t \in Threads : call[t].pc = "add"}
Started  == {i \in Helpers : watcher[i].pc # "none"}

\* There is a helper left for each thread that is past the test of
\* g_active_gpu.
HelpersLeft ==
  /\ ~active => Started = {}
  /\ Cardinality(Started) + Cardinality(Starting) <= Cardinality(Threads)

\* The managers that have a connection of the HP.
With(h) == {m \in Helpers : manager[m].hp = h \/ h \in ToSet(backlog[m])}

OneConnection ==
  \A h \in Hps : /\ \A m, n \in With(h) : m = n
                 /\ hp[h].pc = "new" => With(h) = {}

\* A thread that passed the test has yet to add its blocks.
AddersWithin ==
  allowed # Free =>
    counter + Cardinality(Adding) * Max(Sizes) <= allowed + Cardinality(Threads) * Max(Sizes)

Reads(m) == manager[m].pc \in {"hello", "profile", "control"}

\* A manager reads what the HP of its connection has sent.
ReadsSent ==
  /\ \A h \in Hps : hp[h].sent <= Len(hp[h].trace)
  /\ \A m \in Helpers : Reads(m) =>
       manager[m].hp \in Hps /\ manager[m].read <= hp[manager[m].hp].sent

\* A profile and a control have a window.
WindowsFull == \A m \in Helpers : Serving(m) => manager[m].window \in [1 .. WindowSize -> Nat]

RInv == TypeOK /\ HelpersLeft /\ OneConnection /\ AddersWithin /\ ReadsSent /\ WindowsFull

\* v is at most 1 or one of the reports in f from 2 to n.
Reported(v, f, n) == v <= 1 \/ \E i \in 2 .. n : v <= f[i]

\* The reports a profile of s samples has read are the newest.
EstimateOf(c, f) ==
  /\ c.read >= c.sample + 1
  /\ \A i \in 1 .. WindowSize : Reported(c.window[i], f, c.read)
  /\ c.sample > 0 => Reported(c.maxRate, f, c.read)
  /\ c.pc = "profile" => c.sample < ProfileTime
  /\ c.pc = "profile" /\ c.sample = 0 => c.window = EmptyWindow
  /\ c.pc = "profile" /\ c.sample >= 1 => c.window[1] = Most(f[c.read], 1)
  /\ c.pc = "profile" /\ c.sample >= 2 => c.window[2] = Most(f[c.read - 1], 1)
  /\ c.pc = "control" => c.sample = ProfileTime
  /\ c.pc = "control" /\ c.cnt = 0 =>
       \E i \in c.read - ProfileTime + 1 .. c.read : 1000 * (c.maxRate + 1) >= 975 * f[i]

EInv == \A m \in Helpers :
          /\ Serving(m) => EstimateOf(manager[m], hp[manager[m].hp].trace)
          /\ manager[m].pc = "hello" => manager[m].read = 0


---------------------------------------------------------------------------
(* The limit. *)

\* A limit is capped from above.
LEMMA CappedType ==
  ASSUME current \in Nat, NEW v \in Int, NEW c \in Nat
  PROVE  /\ Capped(v, c) \in Int /\ Capped(v, c) <= UpperLimit /\ Capped(v, c) <= v
         /\ v >= 0 => Capped(v, c) >= 0
  <1>1. UpperLimit \in Nat
    BY Consts
  <1> DEFINE top == Least(UpperLimit, Most(3 * current, c))
  <1>2. top \in Nat /\ top <= UpperLimit
    BY <1>1 DEF Least, Most
  <1>3. Capped(v, c) = Least(v, top)
    BY DEF Capped
  <1> HIDE DEF top
  <1> QED
    BY <1>1, <1>2, <1>3 DEF Least

States == {"slow", "avoidance"}
Signs  == {-1, 0, 1}

\* The switch on the state gives a limit that is not too large.
LEMMA SwitchedType ==
  ASSUME current \in Nat, limit \in 0 .. UpperLimit, sign \in Signs,
         NEW state \in States \cup {"none"}, NEW rate, NEW maxRate \in Nat
  PROVE  /\ Switched(state, rate, maxRate).limit \in Int
         /\ Switched(state, rate, maxRate).limit <= UpperLimit
         /\ Switched(state, rate, maxRate).state \in States
         /\ Switched(state, rate, maxRate).sign \in Signs
  <1> DEFINE far  == Far(rate, maxRate, 1)
             grow == (sign = -1 /\ far <= 0) \/ (sign = 1 /\ far < 0)
             more == Capped(limit + Most(maxRate \div 4000, RateMin), AvoidCeiling)
             less == Capped(limit - Most((limit * 8) \div 100, RateMin), AvoidCeiling)
             step == IF grow THEN [limit |-> more, state |-> "avoidance", sign |-> 1]
                             ELSE [limit |-> less, state |-> "avoidance", sign |-> -1]
             fast == Capped((limit * 3) \div 2 + 1, SlowCeiling)
             next == Switched(state, rate, maxRate)
  <1> SUFFICES /\ next.limit \in Int /\ next.limit <= UpperLimit
               /\ next.state \in States /\ next.sign \in Signs
    OBVIOUS
  <1>0. /\ limit \in Nat /\ limit <= UpperLimit /\ UpperLimit \in Nat
        /\ RateMin \in Nat /\ AvoidCeiling \in Nat /\ SlowCeiling \in Nat
    BY Consts
  <1>1. more \in Int /\ more <= UpperLimit
    <2>1. maxRate \div 4000 \in Nat
      OBVIOUS
    <2> DEFINE v == limit + Most(maxRate \div 4000, RateMin)
    <2>2. v \in Int /\ more = Capped(v, AvoidCeiling)
      BY <1>0, <2>1 DEF Most
    <2> HIDE DEF v, more
    <2> QED
      BY <1>0, <2>2, CappedType
  <1>2. less \in Int /\ less <= UpperLimit
    <2>1. (limit * 8) \div 100 \in Nat
      BY <1>0
    <2>2. limit - Most((limit * 8) \div 100, RateMin) \in Int
      BY <1>0, <2>1 DEF Most
    <2> QED
      BY <1>0, <2>2, CappedType
  <1>3. fast \in Int /\ fast <= UpperLimit
    <2>1. (limit * 3) \div 2 + 1 \in Int
      BY <1>0
    <2> QED
      BY <1>0, <2>1, CappedType
  <1>4. (limit * 2) \div 3 \in Int /\ (limit * 2) \div 3 <= UpperLimit
    BY <1>0
  <1>5. \/ next = [limit |-> fast, state |-> "slow", sign |-> sign]
        \/ next = [limit |-> (limit * 2) \div 3, state |-> "avoidance", sign |-> -1]
        \/ next = [step EXCEPT !.limit = @ \div 10, !.state = "slow"]
        \/ next = step
    BY DEF Switched
  <1> HIDE DEF more, less, fast, next
  <1>6. /\ step.limit \in Int /\ step.limit <= UpperLimit
        /\ step.state \in States /\ step.sign \in Signs
    BY <1>1, <1>2 DEF States, Signs
  <1>7. step = [limit |-> step.limit, state |-> step.state, sign |-> step.sign]
    OBVIOUS
  <1> HIDE DEF step
  <1>8. step.limit \div 10 \in Int /\ step.limit \div 10 <= UpperLimit
    BY <1>0, <1>6
  <1>9. CASE next = [step EXCEPT !.limit = @ \div 10, !.state = "slow"]
    <2>1. next = [limit |-> step.limit \div 10, state |-> "slow", sign |-> step.sign]
      BY <1>7, <1>9
    <2> QED
      BY <1>6, <1>8, <2>1 DEF States
  <1>10. CASE next = [limit |-> fast, state |-> "slow", sign |-> sign]
    BY <1>3, <1>10 DEF States, Signs
  <1>11. CASE next = [limit |-> (limit * 2) \div 3, state |-> "avoidance", sign |-> -1]
    BY <1>4, <1>11 DEF States, Signs
  <1> QED
    BY <1>5, <1>6, <1>9, <1>10, <1>11


\* So does the whole update, which clamps it from below.
LEMMA UpdatedType ==
  ASSUME current \in Nat, limit \in 0 .. UpperLimit, sign \in Signs,
         diffs \in 0 .. Patience - 1,
         NEW state \in States \cup {"none"}, NEW rate, NEW maxRate \in Nat
  PROVE  /\ Updated(state, rate, maxRate).limit \in 0 .. UpperLimit
         /\ Updated(state, rate, maxRate).state \in States
         /\ Updated(state, rate, maxRate).sign \in Signs
         /\ Updated(state, rate, maxRate).diffs \in 0 .. Patience - 1
         /\ Updated(state, rate, maxRate).maxRate \in Nat
         /\ Updated(state, rate, maxRate).maxRate <= maxRate
  <1> DEFINE next  == Switched(state, rate, maxRate)
             far   == Far(rate, maxRate, 4) >= 0
             count == IF far THEN diffs + 1 ELSE 0
             all   == Updated(state, rate, maxRate)
             low   == Most(next.limit \div 2, 0)
             top   == Most(next.limit, 0)
             less  == (maxRate * 4) \div 5
  <1> SUFFICES /\ all.limit \in 0 .. UpperLimit /\ all.state \in States /\ all.sign \in Signs
               /\ all.diffs \in 0 .. Patience - 1
               /\ all.maxRate \in Nat /\ all.maxRate <= maxRate
    OBVIOUS
  <1>1. /\ next.limit \in Int /\ next.limit <= UpperLimit
        /\ next.state \in States /\ next.sign \in Signs
    BY SwitchedType
  <1>2. UpperLimit \in Nat /\ Patience \in Nat /\ Patience > 0
    BY Consts
  <1>3. \/ /\ count >= Patience
           /\ all = [limit |-> low, state |-> "slow", sign |-> next.sign, diffs |-> 0,
                     maxRate |-> less]
        \/ /\ ~(count >= Patience)
           /\ all = [limit |-> top, state |-> next.state, sign |-> next.sign,
                     diffs |-> count, maxRate |-> maxRate]
    BY DEF Updated
  <1> HIDE DEF next, far, all
  <1>4. count \in Nat
    BY <1>2
  <1>5. low \in 0 .. UpperLimit /\ top \in 0 .. UpperLimit
    BY <1>1, <1>2 DEF Most
  <1>6. less \in Nat /\ less <= maxRate
    OBVIOUS
  <1> HIDE DEF count, low, top, less
  <1> QED
    BY <1>1, <1>2, <1>3, <1>4, <1>5, <1>6 DEF States

\* And so does what a sample makes of it.
LEMMA ControlledType ==
  ASSUME current \in Nat, limit \in 0 .. UpperLimit, sign \in Signs,
         diffs \in 0 .. Patience - 1,
         NEW m, manager[m].state \in States \cup {"none"}, NEW maxRate \in Nat, NEW window
  PROVE  /\ Controlled(m, maxRate, window).limit \in 0 .. UpperLimit
         /\ Controlled(m, maxRate, window).state \in States
         /\ Controlled(m, maxRate, window).sign \in Signs
         /\ Controlled(m, maxRate, window).diffs \in 0 .. Patience - 1
         /\ Controlled(m, maxRate, window).maxRate \in Nat
         /\ Controlled(m, maxRate, window).maxRate <= maxRate
  <1> DEFINE all    == Controlled(m, maxRate, window)
             update == Updated(manager[m].state, Rate(m), maxRate)
             top    == Capped(UpperLimit, AvoidCeiling)
             R(v)   == [limit |-> v, state |-> "slow", sign |-> sign, diffs |-> diffs,
                        maxRate |-> maxRate]
  <1> SUFFICES /\ all.limit \in 0 .. UpperLimit /\ all.state \in States /\ all.sign \in Signs
               /\ all.diffs \in 0 .. Patience - 1
               /\ all.maxRate \in Nat /\ all.maxRate <= maxRate
    OBVIOUS
  <1>1. UpperLimit \in Nat /\ AvoidCeiling \in Nat /\ Initializer \in 0 .. UpperLimit
    BY Consts
  <1>2. top \in 0 .. UpperLimit
    <2>1. UpperLimit \in Int /\ UpperLimit >= 0
      BY <1>1
    <2>2. /\ top \in Int /\ top <= UpperLimit
          /\ UpperLimit >= 0 => top >= 0
      BY <1>1, <2>1, CappedType
    <2> HIDE DEF top
    <2> QED
      BY <2>1, <2>2
  <1>3. \/ all = R(Initializer)
        \/ all = R(top)
        \/ all = update
    BY DEF Controlled
  <1>4. /\ update.limit \in 0 .. UpperLimit /\ update.state \in States
        /\ update.sign \in Signs /\ update.diffs \in 0 .. Patience - 1
        /\ update.maxRate \in Nat /\ update.maxRate <= maxRate
    <2> DEFINE state == manager[m].state
               rate  == Rate(m)
    <2>1. state \in States \cup {"none"} /\ update = Updated(state, rate, maxRate)
      OBVIOUS
    <2> HIDE DEF state, rate, update
    <2> QED
      BY <2>1, UpdatedType
  <1> HIDE DEF all, update, top
  <1>5. ASSUME NEW v \in 0 .. UpperLimit, all = R(v)
        PROVE  /\ all.limit \in 0 .. UpperLimit /\ all.state \in States /\ all.sign \in Signs
               /\ all.diffs \in 0 .. Patience - 1
               /\ all.maxRate \in Nat /\ all.maxRate <= maxRate
    BY <1>5 DEF States
  <1> QED
    BY <1>1, <1>2, <1>3, <1>4, <1>5

---------------------------------------------------------------------------
(* The estimate. *)

\* Of a sample without a mean before it a profile takes nothing over; of others
\* its estimate is between what it was and what was seen, and never far below
\* what was seen.
LEMMA ProfileEstimateBounds ==
  ASSUME NEW maxRate \in Nat, NEW seen \in Nat
  PROVE  /\ ProfileEstimate(maxRate, seen) \in Nat
         /\ \/ ProfileEstimate(maxRate, seen) <= maxRate
            \/ ProfileEstimate(maxRate, seen) <= seen
         /\ seen = 0 => ProfileEstimate(maxRate, seen) = 0
         /\ 1000 * (ProfileEstimate(maxRate, seen) + 1) >= 975 * seen
  <1> DEFINE up   == (seen * 975) \div 1000
             down == (seen * 1025) \div 1000
             e    == ProfileEstimate(maxRate, seen)
  <1> SUFFICES /\ e \in Nat
               /\ e <= maxRate \/ e <= seen
               /\ seen = 0 => e = 0
               /\ 1000 * (e + 1) >= 975 * seen
    OBVIOUS
  <1>1. /\ up \in Nat /\ up <= seen /\ 1000 * (up + 1) >= 975 * seen
        /\ down \in Nat /\ down >= seen
        /\ seen = 0 => up = 0 /\ down = 0
    OBVIOUS
  <1>2. \/ Above(seen, maxRate, 0) /\ e = Most(maxRate, up)
        \/ ~Above(seen, maxRate, 0) /\ e = Least(maxRate, down)
        \/ ~Above(seen, maxRate, 5) /\ ~Below(seen, maxRate, 5) /\ e = Most(maxRate, seen)
    BY DEF ProfileEstimate, Reestimate
  <1> HIDE DEF up, down, e
  <1>3. Above(seen, maxRate, 0) <=> seen > maxRate
    BY DEF Above
  <1>4. ~Above(seen, maxRate, 5) /\ ~Below(seen, maxRate, 5) => (seen = 0 => maxRate = 0)
    BY DEF Above, Below
  <1>5. CASE Above(seen, maxRate, 0) /\ e = Most(maxRate, up)
    BY <1>1, <1>3, <1>5 DEF Most
  <1>6. CASE ~Above(seen, maxRate, 0) /\ e = Least(maxRate, down)
    BY <1>1, <1>3, <1>6 DEF Least
  <1>7. CASE ~Above(seen, maxRate, 5) /\ ~Below(seen, maxRate, 5) /\ e = Most(maxRate, seen)
    BY <1>4, <1>7 DEF Most
  <1> QED
    BY <1>2, <1>5, <1>6, <1>7

\* The control raises the estimate no further than to what was seen.
LEMMA ControlEstimateBounds ==
  ASSUME NEW maxRate \in Nat, NEW seen \in Nat
  PROVE  /\ ControlEstimate(maxRate, seen) \in Nat
         /\ \/ ControlEstimate(maxRate, seen) <= maxRate
            \/ ControlEstimate(maxRate, seen) <= seen
  <1> DEFINE up   == (seen * 975) \div 1000
             down == (seen * 1025) \div 1000
             e    == ControlEstimate(maxRate, seen)
  <1>1. up \in Nat /\ up <= seen /\ down \in Nat
    OBVIOUS
  <1>2. e \in {Most(maxRate, up), Least(maxRate, down), maxRate, Most(maxRate, seen)}
    BY DEF ControlEstimate
  <1> HIDE DEF up, down, e
  <1>3. e \in Nat /\ (e <= maxRate \/ e <= seen)
    BY <1>1, <1>2 DEF Most, Least
  <1> QED
    BY <1>3 DEF e

---------------------------------------------------------------------------
(* The steps of a manager. *)

\* What a manager is after one of its steps.
ManagerMoves(m) ==
  /\ manager[m].pc # "none"
  /\ UNCHANGED <<launcherVars, countVars, hp>>
  /\ manager' \in [Helpers -> ManagerType]
  /\ \A n \in Helpers : n # m => manager'[n] = manager[n] /\ backlog'[n] = backlog[n]
  /\ manager'[m].pc \notin {"none", "listen"}
  /\ limit' \in 0 .. UpperLimit /\ sign' \in Signs /\ diffs' \in 0 .. Patience - 1
  /\ flag' \in BOOLEAN
  /\ path' = path \/ path' = m
  /\ backlog' \in [Helpers -> Seq(Hps)]
  /\ \A h \in Hps : m \in With(h)' => m \in With(h)
  /\ Reads(m)' => manager'[m].hp \in Hps /\ manager'[m].read <= hp[manager'[m].hp].sent
  /\ Serving(m)' => manager'[m].window \in [1 .. WindowSize -> Nat]

\* One field or another of a manager changes.
LEMMA BecomesFacts ==
  ASSUME manager \in [Helpers -> ManagerType], NEW m \in Helpers,
         NEW next \in ManagerType, Becomes(m, next)
  PROVE  /\ manager' \in [Helpers -> ManagerType] /\ manager'[m] = next
         /\ \A n \in Helpers : n # m => manager'[n] = manager[n]
  BY DEF Becomes

\* With one manager the connections do not change, or one is gone.
LEMMA SameWith ==
  ASSUME NEW m \in Helpers, NEW h \in Hps, backlog' = backlog,
         manager'[m].hp = manager[m].hp \/ manager'[m].hp = NoHp,
         m \in With(h)'
  PROVE  m \in With(h)
  BY Consts DEF With

\* Each step of a manager is such a move.
LEMMA ListenMoves ==
  ASSUME RInv, NEW m \in Helpers, Listen(m)
  PROVE  ManagerMoves(m)
  <1> DEFINE next == [manager[m] EXCEPT !.pc = "accept"]
  <1>1. /\ manager \in [Helpers -> ManagerType] /\ manager[m] \in ManagerType
        /\ manager[m].pc = "listen" /\ path' = m /\ Becomes(m, next)
        /\ UNCHANGED <<launcherVars, countVars, hp, backlog, limit, flag, sign, diffs>>
    BY DEF RInv, TypeOK, Listen, Manage
  <1>2. next \in ManagerType /\ next.pc = "accept" /\ next.hp = manager[m].hp
    BY <1>1 DEF ManagerType
  <1> HIDE DEF next
  <1>3. /\ manager' \in [Helpers -> ManagerType] /\ manager'[m] = next
        /\ \A n \in Helpers : n # m => manager'[n] = manager[n]
    BY <1>1, <1>2, BecomesFacts
  <1>4. \A h \in Hps : m \in With(h)' => m \in With(h)
    BY <1>1, <1>2, <1>3, SameWith
  <1> QED
    BY <1>1, <1>2, <1>3, <1>4 DEF ManagerMoves, RInv, TypeOK, Signs, Reads, Serving

LEMMA AcceptMoves ==
  ASSUME RInv, NEW m \in Helpers, Accept(m)
  PROVE  ManagerMoves(m)
  <1> DEFINE first == Head(backlog[m])
             next  == [manager[m] EXCEPT !.pc = "hello", !.hp = first, !.read = 0]
  <1>1. /\ manager \in [Helpers -> ManagerType] /\ manager[m] \in ManagerType
        /\ manager[m].pc = "accept" /\ Becomes(m, next)
        /\ backlog \in [Helpers -> Seq(Hps)] /\ backlog[m] \in Seq(Hps) /\ backlog[m] # << >>
        /\ backlog' = [backlog EXCEPT ![m] = Tail(@)]
        /\ UNCHANGED <<launcherVars, countVars, hp, path, limit, flag, sign, diffs>>
    BY DEF RInv, TypeOK, Accept, Manage
  <1>2. first \in Hps /\ first = backlog[m][1] /\ 1 \in DOMAIN backlog[m]
    BY <1>1
  <1>3. Tail(backlog[m]) \in Seq(Hps)
    BY <1>1
  <1>4. ASSUME NEW i \in DOMAIN Tail(backlog[m])
        PROVE  i + 1 \in DOMAIN backlog[m] /\ Tail(backlog[m])[i] = backlog[m][i + 1]
    BY <1>1
  <1>5. next \in ManagerType /\ next.pc = "hello" /\ next.hp = first /\ next.read = 0
    <2> HIDE DEF first
    <2> QED
      BY <1>1, <1>2 DEF ManagerType
  <1> HIDE DEF next, first
  <1>6. /\ manager' \in [Helpers -> ManagerType] /\ manager'[m] = next
        /\ \A n \in Helpers : n # m => manager'[n] = manager[n]
    BY <1>1, <1>5, BecomesFacts
  <1>7. /\ backlog' \in [Helpers -> Seq(Hps)] /\ backlog'[m] = Tail(backlog[m])
        /\ \A n \in Helpers : n # m => backlog'[n] = backlog[n]
    BY <1>1, <1>3
  <1>8. \A h \in Hps : m \in With(h)' => m \in With(h)
    <2> SUFFICES ASSUME NEW h \in Hps, h = first \/ h \in ToSet(Tail(backlog[m]))
                 PROVE  h \in ToSet(backlog[m])
      BY <1>5, <1>6, <1>7 DEF With
    <2> QED
      BY <1>2, <1>4 DEF ToSet
  <1>9. next.read <= hp[next.hp].sent
    BY <1>2, <1>5 DEF RInv, TypeOK
  <1> QED
    BY <1>1, <1>2, <1>5, <1>6, <1>7, <1>8, <1>9 DEF ManagerMoves, RInv, TypeOK, Signs, Reads, Serving

LEMMA NewManagerType ==
  LET next == [NewManager EXCEPT !.pc = "accept"] IN
  next \in ManagerType /\ next.pc = "accept" /\ next.hp = NoHp
  BY DEF NewManager, ManagerType

LEMMA NoHelloMoves ==
  ASSUME RInv, NEW m \in Helpers, NoHello(m) \/ EndControl(m)
  PROVE  ManagerMoves(m)
  <1> DEFINE next == [NewManager EXCEPT !.pc = "accept"]
  <1>1. /\ manager \in [Helpers -> ManagerType]
        /\ manager[m].pc # "none" /\ Becomes(m, next) /\ flag' \in BOOLEAN
        /\ UNCHANGED <<launcherVars, countVars, hp, path, backlog, limit, sign, diffs>>
    BY DEF RInv, TypeOK, NoHello, EndControl, Manage
  <1>2. next \in ManagerType /\ next.pc = "accept" /\ next.hp = NoHp
    BY NewManagerType
  <1> HIDE DEF next
  <1>3. /\ manager' \in [Helpers -> ManagerType] /\ manager'[m] = next
        /\ \A n \in Helpers : n # m => manager'[n] = manager[n]
    BY <1>1, <1>2, BecomesFacts
  <1>4. \A h \in Hps : m \in With(h)' => m \in With(h)
    BY <1>1, <1>2, <1>3, SameWith
  <1> QED
    BY <1>1, <1>2, <1>3, <1>4 DEF ManagerMoves, RInv, TypeOK, Signs, Reads, Serving

LEMMA DisconnectMoves ==
  ASSUME RInv, NEW m \in Helpers, Disconnect(m)
  PROVE  ManagerMoves(m)
  <1> DEFINE next == [manager[m] EXCEPT !.pc = "prefetch"]
  <1>1. /\ manager \in [Helpers -> ManagerType] /\ manager[m] \in ManagerType
        /\ manager[m].pc # "none" /\ limit' = 0 /\ Becomes(m, next)
        /\ UNCHANGED <<launcherVars, countVars, hp, path, backlog, flag, sign, diffs>>
    BY DEF RInv, TypeOK, Disconnect, Manage
  <1>2. next \in ManagerType /\ next.pc = "prefetch" /\ next.hp = manager[m].hp
    BY <1>1 DEF ManagerType
  <1> HIDE DEF next
  <1>3. /\ manager' \in [Helpers -> ManagerType] /\ manager'[m] = next
        /\ \A n \in Helpers : n # m => manager'[n] = manager[n]
    BY <1>1, <1>2, BecomesFacts
  <1>4. \A h \in Hps : m \in With(h)' => m \in With(h)
    BY <1>1, <1>2, <1>3, SameWith
  <1>5. 0 \in 0 .. UpperLimit
    BY Consts
  <1> QED
    BY <1>1, <1>2, <1>3, <1>4, <1>5 DEF ManagerMoves, RInv, TypeOK, Signs, Reads, Serving

\* The counters of a manager can be counted up.
LEMMA ManagerFields ==
  ASSUME NEW c \in ManagerType
  PROVE  c.read + 1 \in Nat /\ c.round + 1 \in Nat /\ c.sample + 1 \in Nat /\ c.cnt + 1 \in Nat
  BY DEF ManagerType

\* A profile starts with an empty window.
LEMMA StartProfileFields ==
  ASSUME RInv, NEW m \in Helpers, NEW maxRate \in Nat, StartProfile(m, maxRate)
  PROVE  /\ manager' \in [Helpers -> ManagerType]
         /\ \A n \in Helpers : n # m => manager'[n] = manager[n]
         /\ manager'[m].pc = "profile" /\ manager'[m].hp = manager[m].hp
         /\ manager'[m].read = manager[m].read + 1
         /\ manager'[m].window = EmptyWindow /\ manager'[m].sample = 0
         /\ EmptyWindow \in [1 .. WindowSize -> Nat]
         /\ limit' \in 0 .. UpperLimit
         /\ UNCHANGED <<sign, diffs>>
  <1> DEFINE c     == manager[m]
             round == c.round + 1
             next  == [c EXCEPT
               !.pc = "profile", !.read = @ + 1, !.window = EmptyWindow, !.maxRate = maxRate,
               !.round = round, !.sample = 0, !.cnt = 0, !.state = "none"]
  <1>1. /\ manager \in [Helpers -> ManagerType] /\ manager[m] \in ManagerType
        /\ Becomes(m, next) /\ limit' = ProfileLimit(round)
        /\ UNCHANGED <<sign, diffs>>
    BY DEF RInv, TypeOK, StartProfile
  <1>2. limit' \in 0 .. UpperLimit
    BY <1>1, Consts DEF ProfileLimit, RInv, TypeOK
  <1>3. EmptyWindow \in [1 .. WindowSize -> Nat]
    BY DEF EmptyWindow
  <1>4. round \in Nat
    BY <1>1 DEF ManagerType
  <1>5. /\ next \in ManagerType /\ next.pc = "profile" /\ next.hp = manager[m].hp
        /\ next.read = manager[m].read + 1 /\ next.window = EmptyWindow /\ next.sample = 0
    <2>1. c \in ManagerType /\ c.read + 1 \in Nat
      BY <1>1, ManagerFields
    <2> HIDE DEF round, c
    <2>2. next \in ManagerType
      BY <1>3, <1>4, <2>1 DEF ManagerType
    <2>3. /\ next.pc = "profile" /\ next.hp = c.hp /\ next.read = c.read + 1
          /\ next.window = EmptyWindow /\ next.sample = 0
      BY <2>1 DEF ManagerType
    <2> QED
      BY <2>2, <2>3 DEF c
  <1> HIDE DEF next
  <1>6. /\ manager' \in [Helpers -> ManagerType] /\ manager'[m] = next
        /\ \A n \in Helpers : n # m => manager'[n] = manager[n]
    BY <1>1, <1>5, BecomesFacts
  <1> QED
    BY <1>1, <1>2, <1>3, <1>5, <1>6

\* What a manager reads next has been sent.
LEMMA ReadFacts ==
  ASSUME RInv, NEW m \in Helpers, Reads(m), CanRead(m)
  PROVE  /\ manager[m].hp \in Hps /\ manager[m].read \in Nat
         /\ manager[m].read + 1 <= hp[manager[m].hp].sent
         /\ manager[m].read + 1 \in 1 .. Len(hp[manager[m].hp].trace)
         /\ Report(m) \in Nat /\ Rate(m) \in Nat /\ Rate(m) >= 1
         /\ Rate(m) = Most(hp[manager[m].hp].trace[manager[m].read + 1], 1)
  <1> DEFINE h == manager[m].hp
             k == manager[m].read
             f == hp[h].trace
  <1>1. /\ h \in Hps /\ k \in Nat /\ f \in Seq(Nat) /\ hp[h].sent \in Nat
        /\ hp[h].sent <= Len(f) /\ k < hp[h].sent
    BY DEF RInv, TypeOK, ReadsSent, ManagerType, CanRead
  <1>2. Report(m) = f[k + 1] /\ Rate(m) = Most(f[k + 1], 1)
    BY DEF Report, Rate
  <1> HIDE DEF h, k, f
  <1>3. k + 1 <= hp[h].sent /\ k + 1 \in 1 .. Len(f)
    BY <1>1
  <1>4. f[k + 1] \in Nat
    BY <1>1, <1>3
  <1>5. Most(f[k + 1], 1) \in Nat /\ Most(f[k + 1], 1) >= 1
    BY <1>4 DEF Most
  <1> QED
    BY <1>1, <1>2, <1>3, <1>4, <1>5 DEF h, k, f

LEMMA HelloMoves ==
  ASSUME RInv, NEW m \in Helpers, Hello(m)
  PROVE  ManagerMoves(m)
  <1>1. /\ manager[m].pc = "hello" /\ CanRead(m) /\ flag' = TRUE
        /\ StartProfile(m, Report(m))
        /\ UNCHANGED <<launcherVars, countVars, hp, path, backlog>>
    BY DEF Hello, Receive, Manage
  <1>2. /\ manager[m].hp \in Hps /\ Report(m) \in Nat
        /\ manager[m].read + 1 <= hp[manager[m].hp].sent
    BY <1>1, ReadFacts DEF Reads
  <1>3. /\ manager' \in [Helpers -> ManagerType]
        /\ \A n \in Helpers : n # m => manager'[n] = manager[n]
        /\ manager'[m].pc = "profile" /\ manager'[m].hp = manager[m].hp
        /\ manager'[m].read = manager[m].read + 1
        /\ manager'[m].window \in [1 .. WindowSize -> Nat]
        /\ limit' \in 0 .. UpperLimit
        /\ UNCHANGED <<sign, diffs>>
    BY <1>1, <1>2, StartProfileFields
  <1>4. \A h \in Hps : m \in With(h)' => m \in With(h)
    BY <1>1, <1>3, SameWith
  <1> QED
    BY <1>1, <1>2, <1>3, <1>4 DEF ManagerMoves, RInv, TypeOK, Signs, Reads, Serving

\* A sample shifts the window.
LEMMA ShiftType ==
  ASSUME NEW w \in [1 .. WindowSize -> Nat], NEW rate \in Nat
  PROVE  /\ Shift(w, rate) \in [1 .. WindowSize -> Nat]
         /\ Shift(w, rate)[1] = rate
         /\ \A i \in 2 .. WindowSize : Shift(w, rate)[i] = w[i - 1] /\ i - 1 \in 1 .. WindowSize
  <1>1. WindowSize \in Nat /\ WindowSize >= 2
    BY Consts
  <1>2. ASSUME NEW i \in 2 .. WindowSize PROVE i - 1 \in 1 .. WindowSize
    BY <1>1
  <1>3. \A i \in 1 .. WindowSize : i = 1 \/ i \in 2 .. WindowSize
    BY <1>1
  <1> QED
    BY <1>1, <1>2, <1>3 DEF Shift

\* What a sample of a profile makes of its manager.
LEMMA ProfileFields ==
  ASSUME RInv, NEW m \in Helpers, ProfileSample(m)
  PROVE  LET last == manager[m].sample + 1 = ProfileTime
             e    == ProfileEstimate(manager[m].maxRate, Seen(m))
         IN  /\ manager[m].pc = "profile" /\ CanRead(m)
             /\ UNCHANGED <<launcherVars, countVars, hp, path, backlog, limit, flag, sign, diffs>>
             /\ manager' \in [Helpers -> ManagerType]
             /\ \A n \in Helpers : n # m => manager'[n] = manager[n]
             /\ manager'[m].pc = (IF last THEN "control" ELSE "profile")
             /\ manager'[m].hp = manager[m].hp
             /\ manager'[m].read = manager[m].read + 1
             /\ manager'[m].sample = manager[m].sample + 1
             /\ manager'[m].window = Shift(manager[m].window, Rate(m))
             /\ manager'[m].window \in [1 .. WindowSize -> Nat]
             /\ manager'[m].maxRate = (IF last THEN Most(e, 1) ELSE e)
             /\ manager'[m].cnt = manager[m].cnt
  <1> DEFINE last == manager[m].sample + 1 = ProfileTime
             e    == ProfileEstimate(manager[m].maxRate, Seen(m))
             w    == Shift(manager[m].window, Rate(m))
             top  == IF last THEN Most(e, 1) ELSE e
             pc   == IF last THEN "control" ELSE "profile"
             c    == manager[m]
             next == [c EXCEPT
               !.pc = pc, !.read = @ + 1, !.sample = @ + 1, !.window = w, !.maxRate = top]
  <1>1. /\ manager \in [Helpers -> ManagerType] /\ manager[m] \in ManagerType
        /\ manager[m].window \in [1 .. WindowSize -> Nat]
        /\ manager[m].pc = "profile" /\ CanRead(m) /\ Becomes(m, next)
        /\ UNCHANGED <<launcherVars, countVars, hp, path, backlog, limit, flag, sign, diffs>>
    BY DEF RInv, TypeOK, WindowsFull, Serving, ProfileSample, Receive, Manage
  <1>2. w \in [1 .. WindowSize -> Nat]
    BY <1>1, ReadFacts, ShiftType DEF Reads
  <1>3. e \in Nat
    <2>1. manager[m].maxRate \in Nat
      BY <1>1 DEF ManagerType
    <2>2. Seen(m) \in Nat
      BY <1>1, SeenWindow
    <2> DEFINE x == manager[m].maxRate
               s == Seen(m)
    <2>3. x \in Nat /\ s \in Nat /\ e = ProfileEstimate(x, s)
      BY <2>1, <2>2
    <2> HIDE DEF x, s, e
    <2> QED
      BY <2>3, ProfileEstimateBounds
  <1>4. top \in Nat /\ pc \in {"control", "profile"}
    BY <1>3 DEF Most
  <1>5. /\ next \in ManagerType /\ next.pc = pc /\ next.hp = manager[m].hp
        /\ next.read = manager[m].read + 1 /\ next.sample = manager[m].sample + 1
        /\ next.window = w /\ next.maxRate = top /\ next.cnt = manager[m].cnt
    <2>1. c \in ManagerType /\ c.read + 1 \in Nat /\ c.sample + 1 \in Nat
      BY <1>1, ManagerFields
    <2> HIDE DEF w, top, pc, c
    <2>2. next \in ManagerType
      BY <1>2, <1>4, <2>1 DEF ManagerType
    <2>3. /\ next.pc = pc /\ next.hp = c.hp /\ next.read = c.read + 1
          /\ next.sample = c.sample + 1 /\ next.window = w /\ next.maxRate = top
          /\ next.cnt = c.cnt
      BY <2>1 DEF ManagerType
    <2> QED
      BY <2>2, <2>3 DEF c
  <1> HIDE DEF next
  <1>6. /\ manager' \in [Helpers -> ManagerType] /\ manager'[m] = next
        /\ \A n \in Helpers : n # m => manager'[n] = manager[n]
    BY <1>1, <1>5, BecomesFacts
  <1> QED
    BY <1>1, <1>2, <1>5, <1>6

LEMMA ProfileMoves ==
  ASSUME RInv, NEW m \in Helpers, ProfileSample(m)
  PROVE  ManagerMoves(m)
  <1>1. /\ manager[m].pc = "profile" /\ CanRead(m)
        /\ UNCHANGED <<launcherVars, countVars, hp, path, backlog, limit, flag, sign, diffs>>
        /\ manager' \in [Helpers -> ManagerType]
        /\ \A n \in Helpers : n # m => manager'[n] = manager[n]
        /\ manager'[m].pc \in {"control", "profile"}
        /\ manager'[m].hp = manager[m].hp
        /\ manager'[m].read = manager[m].read + 1
        /\ manager'[m].window \in [1 .. WindowSize -> Nat]
    BY ProfileFields
  <1>2. manager[m].hp \in Hps /\ manager[m].read + 1 <= hp[manager[m].hp].sent
    BY <1>1, ReadFacts DEF Reads
  <1>3. \A h \in Hps : m \in With(h)' => m \in With(h)
    BY <1>1, SameWith
  <1> QED
    BY <1>1, <1>2, <1>3 DEF ManagerMoves, RInv, TypeOK, Signs, Reads, Serving

\* What a sample of the control makes of its manager, without a new profile.
LEMMA ControlFields ==
  ASSUME RInv, NEW m \in Helpers, ControlSample(m),
         ~NeedsProfile(manager[m].maxRate, Seen(m))
  PROVE  LET e == ControlEstimate(manager[m].maxRate, Seen(m)) IN
         /\ manager[m].pc = "control" /\ CanRead(m)
         /\ UNCHANGED <<launcherVars, countVars, hp, path, backlog, flag>>
         /\ limit' \in 0 .. UpperLimit /\ sign' \in Signs /\ diffs' \in 0 .. Patience - 1
         /\ manager' \in [Helpers -> ManagerType]
         /\ \A n \in Helpers : n # m => manager'[n] = manager[n]
         /\ manager'[m].pc = "control" /\ manager'[m].hp = manager[m].hp
         /\ manager'[m].read = manager[m].read + 1
         /\ manager'[m].sample = manager[m].sample
         /\ manager'[m].cnt = manager[m].cnt + 1
         /\ manager'[m].window = Shift(manager[m].window, Rate(m))
         /\ manager'[m].window \in [1 .. WindowSize -> Nat]
         /\ manager'[m].maxRate <= e
  <1> DEFINE e    == ControlEstimate(manager[m].maxRate, Seen(m))
             w    == Shift(manager[m].window, Rate(m))
             new  == Controlled(m, e, w)
             c    == manager[m]
             next == [c EXCEPT
               !.read = @ + 1, !.window = w, !.cnt = @ + 1, !.maxRate = new.maxRate,
               !.state = new.state]
  <1>1. /\ manager \in [Helpers -> ManagerType] /\ manager[m] \in ManagerType
        /\ manager[m].window \in [1 .. WindowSize -> Nat]
        /\ manager[m].pc = "control"
    BY DEF RInv, TypeOK, WindowsFull, Serving, ControlSample, Receive, Manage
  <1>2. /\ CanRead(m) /\ Becomes(m, next)
        /\ limit' = new.limit /\ sign' = new.sign /\ diffs' = new.diffs
        /\ UNCHANGED <<launcherVars, countVars, hp, path, backlog, flag>>
    BY DEF ControlSample, Receive, Manage
  <1>3. w \in [1 .. WindowSize -> Nat]
    BY <1>1, <1>2, ReadFacts, ShiftType DEF Reads
  <1>4. e \in Nat
    <2>1. manager[m].maxRate \in Nat
      BY <1>1 DEF ManagerType
    <2>2. Seen(m) \in Nat
      BY <1>1, SeenWindow
    <2> DEFINE x == manager[m].maxRate
               s == Seen(m)
    <2>3. x \in Nat /\ s \in Nat /\ e = ControlEstimate(x, s)
      BY <2>1, <2>2
    <2> HIDE DEF x, s, e
    <2> QED
      BY <2>3, ControlEstimateBounds
  <1>5. /\ new.limit \in 0 .. UpperLimit /\ new.state \in States /\ new.sign \in Signs
        /\ new.diffs \in 0 .. Patience - 1 /\ new.maxRate \in Nat /\ new.maxRate <= e
    <2>1. /\ current \in Nat /\ limit \in 0 .. UpperLimit /\ sign \in Signs
          /\ diffs \in 0 .. Patience - 1
      BY DEF RInv, TypeOK, Signs
    <2>2. manager[m].state \in States \cup {"none"}
      BY <1>1 DEF ManagerType, States
    <2> HIDE DEF e, w
    <2> QED
      BY <1>4, <2>1, <2>2, ControlledType
  <1>6. /\ next \in ManagerType /\ next.pc = "control" /\ next.hp = manager[m].hp
        /\ next.read = manager[m].read + 1 /\ next.sample = manager[m].sample
        /\ next.cnt = manager[m].cnt + 1
        /\ next.window = w /\ next.maxRate = new.maxRate
    <2>1. c \in ManagerType /\ c.read + 1 \in Nat /\ c.cnt + 1 \in Nat /\ c.pc = "control"
      BY <1>1, ManagerFields
    <2> HIDE DEF w, new, c
    <2>2. next \in ManagerType
      BY <1>3, <1>5, <2>1 DEF ManagerType, States
    <2>3. /\ next.pc = c.pc /\ next.hp = c.hp /\ next.read = c.read + 1
          /\ next.sample = c.sample /\ next.cnt = c.cnt + 1 /\ next.window = w
          /\ next.maxRate = new.maxRate
      BY <2>1 DEF ManagerType
    <2> QED
      BY <2>1, <2>2, <2>3 DEF c
  <1> HIDE DEF next, new
  <1>7. /\ manager' \in [Helpers -> ManagerType] /\ manager'[m] = next
        /\ \A n \in Helpers : n # m => manager'[n] = manager[n]
    BY <1>1, <1>2, <1>6, BecomesFacts
  <1> QED
    BY <1>1, <1>2, <1>3, <1>5, <1>6, <1>7

LEMMA ControlMoves ==
  ASSUME RInv, NEW m \in Helpers, ControlSample(m)
  PROVE  ManagerMoves(m)
  <1>1. /\ manager[m].pc = "control" /\ CanRead(m)
        /\ UNCHANGED <<launcherVars, countVars, hp, path, backlog, flag>>
    BY DEF ControlSample, Receive, Manage
  <1>2. /\ manager[m].hp \in Hps /\ manager[m].read + 1 <= hp[manager[m].hp].sent
    BY <1>1, ReadFacts DEF Reads
  <1>3. /\ limit' \in 0 .. UpperLimit /\ sign' \in Signs /\ diffs' \in 0 .. Patience - 1
        /\ manager' \in [Helpers -> ManagerType]
        /\ \A n \in Helpers : n # m => manager'[n] = manager[n]
        /\ manager'[m].pc \in {"control", "profile"}
        /\ manager'[m].hp = manager[m].hp
        /\ manager'[m].read = manager[m].read + 1
        /\ manager'[m].window \in [1 .. WindowSize -> Nat]
    <2>1. CASE ~NeedsProfile(manager[m].maxRate, Seen(m))
      BY <2>1, ControlFields
    <2>2. CASE NeedsProfile(manager[m].maxRate, Seen(m))
      <3> DEFINE e == ControlEstimate(manager[m].maxRate, Seen(m))
      <3>1. StartProfile(m, e)
        BY <2>2 DEF ControlSample
      <3>2. manager[m].maxRate \in Nat /\ manager[m].window \in [1 .. WindowSize -> Nat]
        BY <1>1 DEF RInv, TypeOK, ManagerType, WindowsFull, Serving
      <3>3. e \in Nat
        BY <3>2, SeenWindow, ControlEstimateBounds
      <3> HIDE DEF e
      <3>4. sign \in Signs /\ diffs \in 0 .. Patience - 1
        BY DEF RInv, TypeOK, Signs
      <3> QED
        BY <3>1, <3>3, <3>4, StartProfileFields
    <2> QED
      BY <2>1, <2>2
  <1>4. \A h \in Hps : m \in With(h)' => m \in With(h)
    BY <1>1, <1>3, SameWith
  <1> QED
    BY <1>1, <1>2, <1>3, <1>4 DEF ManagerMoves, RInv, TypeOK, Reads, Serving

LEMMA ManagerStepMoves ==
  ASSUME RInv, NEW m \in Helpers, ManagerStep(m)
  PROVE  ManagerMoves(m)
  BY ListenMoves, AcceptMoves, NoHelloMoves, DisconnectMoves, HelloMoves, ProfileMoves,
     ControlMoves DEF ManagerStep

---------------------------------------------------------------------------
(* Preservation. *)

LEMMA AtMostOne ==
  ASSUME NEW S, \A a, b \in S : a = b
  PROVE  Cardinality(S) <= 1
  <1>1. CASE S = {}
    BY <1>1, FS_EmptySet
  <1>2. CASE S # {}
    <2>1. PICK a \in S : TRUE
      BY <1>2
    <2>2. S = {a}
      BY <2>1
    <2> QED
      BY <2>2, FS_Singleton
  <1> QED
    BY <1>1, <1>2

\* The threads are finitely many, and so are the helpers.
LEMMA Counts ==
  ASSUME NEW S, S \subseteq Threads \/ S \subseteq Helpers
  PROVE  IsFiniteSet(S) /\ Cardinality(S) \in Nat /\ Cardinality(S) <= Cardinality(Threads)
  <1>1. Cardinality(Threads) \in Nat /\ IsFiniteSet(Threads)
    BY Consts
  <1>2. IsFiniteSet(Helpers) /\ Cardinality(Helpers) = Cardinality(Threads)
    BY <1>1, FS_Interval DEF Helpers
  <1> QED
    BY <1>1, <1>2, FS_Subset, FS_CardinalityType

\* A factor keeps an order.
LEMMA TimesMono ==
  ASSUME NEW a \in Nat, NEW b \in Nat, NEW k \in Nat, a <= b
  PROVE  a * k \in Nat /\ b * k \in Nat /\ a * k <= b * k
  <1>1. PICK d \in Nat : b = a + d
    <2>1. b - a \in Nat /\ b = a + (b - a)
      OBVIOUS
    <2> QED
      BY <2>1
  <1>2. b * k = a * k + d * k
    BY <1>1
  <1>3. d * k \in Nat /\ a * k \in Nat
    OBVIOUS
  <1> QED
    BY <1>2, <1>3

\* A manager has no part in the counts of the launches.
LEMMA ManagerKeeps ==
  ASSUME RInv, NEW m \in Helpers, ManagerMoves(m)
  PROVE  RInv'
  <1>1. OneConnection'
    <2>1. \A h \in Hps : With(h)' \subseteq With(h)
      BY DEF ManagerMoves, With
    <2>2. hp' = hp
      BY DEF ManagerMoves
    <2> QED
      BY <2>1, <2>2 DEF OneConnection, RInv
  <1>2. HelpersLeft'
    BY DEF ManagerMoves, RInv, HelpersLeft, Started, Starting, launcherVars, countVars
  <1>3. AddersWithin'
    BY DEF ManagerMoves, RInv, AddersWithin, Adding, launcherVars, countVars
  <1>4. ReadsSent'
    BY DEF ManagerMoves, RInv, ReadsSent, Reads
  <1>5. WindowsFull'
    BY DEF ManagerMoves, RInv, WindowsFull, Serving
  <1>6. TypeOK'
    <2>1. \A i \in Helpers : watcher'[i].pc = "none" <=> manager'[i].pc = "none"
      BY DEF ManagerMoves, RInv, TypeOK, countVars
    <2>2. path' \in {0} \union {i \in Helpers : manager'[i].pc \notin {"none", "listen"}}
      BY DEF ManagerMoves, RInv, TypeOK
    <2>3. /\ active' \in BOOLEAN /\ flag' \in BOOLEAN
          /\ call' \in [Threads -> [pc : {"idle", "initialize", "test", "add"}, size : {0} \union Sizes]]
          /\ launches' \in [Threads -> Nat]
          /\ {counter', current'} \subseteq Nat
          /\ watcher' \in [Helpers -> [pc : {"none", "start", "read", "clear"}, count : Nat]]
          /\ allowed' \in {Free} \union 0 .. UpperLimit
          /\ hp' \in [Hps -> [pc : {"new", "connected", "gone"}, trace : Seq(Nat), sent : Nat]]
      BY DEF ManagerMoves, RInv, TypeOK, launcherVars, countVars
    <2>4. /\ limit' \in 0 .. UpperLimit /\ sign' \in {-1, 0, 1} /\ diffs' \in 0 .. Patience - 1
          /\ manager' \in [Helpers -> ManagerType] /\ backlog' \in [Helpers -> Seq(Hps)]
      BY DEF ManagerMoves, Signs
    <2>5. \A h \in Hps :
            Cardinality({i \in Helpers : manager'[i].hp = h \/ h \in ToSet(backlog'[i])}) <= 1
      <3> SUFFICES ASSUME NEW h \in Hps PROVE Cardinality(With(h)') <= 1
        BY DEF With
      <3>1. \A a, b \in With(h)' : a = b
        BY <1>1 DEF OneConnection
      <3> HIDE DEF With
      <3> QED
        BY <3>1, AtMostOne
    <2> QED
      BY <2>1, <2>2, <2>3, <2>4, <2>5 DEF TypeOK
  <1> QED
    BY <1>1, <1>2, <1>3, <1>4, <1>5, <1>6 DEF RInv

\* What a step that leaves the managers and the connections alone has to show.
LEMMA LauncherKeeps ==
  ASSUME RInv, UNCHANGED <<controlVars, socketVars>>, HelpersLeft', AddersWithin',
         active' \in BOOLEAN,
         call' \in [Threads -> [pc : {"idle", "initialize", "test", "add"}, size : {0} \union Sizes]],
         launches' \in [Threads -> Nat], counter' \in Nat, current' \in Nat,
         watcher' \in [Helpers -> [pc : {"none", "start", "read", "clear"}, count : Nat]],
         \A i \in Helpers : watcher'[i].pc = "none" <=> watcher[i].pc = "none",
         allowed' \in {Free} \union 0 .. UpperLimit
  PROVE  RInv'
  <1>1. UNCHANGED <<manager, backlog, hp, path, limit, flag, sign, diffs>>
    BY DEF controlVars, socketVars
  <1>2. OneConnection' /\ ReadsSent' /\ WindowsFull'
    BY <1>1 DEF RInv, OneConnection, With, ReadsSent, Reads, WindowsFull, Serving
  <1>3. TypeOK'
    BY <1>1 DEF RInv, TypeOK
  <1> QED
    BY <1>2, <1>3 DEF RInv

\* The clearing of the counter leaves room for one launch of each thread.
LEMMA Cleared ==
  ASSUME NEW S, S \subseteq Threads
  PROVE  0 + Cardinality(S) * Max(Sizes) <= 0 + Cardinality(Threads) * Max(Sizes)
  <1> DEFINE k == Cardinality(S)
             n == Cardinality(Threads)
             x == Max(Sizes)
  <1>1. k \in Nat /\ n \in Nat /\ x \in Nat /\ k <= n
    BY Counts, Consts, MaxSize
  <1> HIDE DEF k, n, x
  <1>2. k * x \in Nat /\ n * x \in Nat /\ k * x <= n * x
    BY <1>1, TimesMono
  <1>3. 0 + k * x <= 0 + n * x
    BY <1>2
  <1> QED
    BY <1>3 DEF k, n, x

CallType == [pc : {"idle", "initialize", "test", "add"}, size : {0} \union Sizes]

LEMMA BeginLaunchKeeps ==
  ASSUME RInv, NEW t \in Threads, BeginLaunch(t)
  PROVE  RInv'
  <1>1. /\ call \in [Threads -> CallType] /\ call[t].pc = "idle" /\ launches[t] > 0
        /\ launches' = [launches EXCEPT ![t] = @ - 1]
        /\ UNCHANGED <<active, counter, current, watcher, allowed, controlVars, socketVars>>
    BY DEF RInv, TypeOK, CallType, BeginLaunch, countVars
  <1>2. PICK size \in Sizes :
          call' = [call EXCEPT ![t] = [pc |-> IF active THEN "test" ELSE "initialize", size |-> size]]
    BY DEF BeginLaunch
  <1> DEFINE c == [pc |-> IF active THEN "test" ELSE "initialize", size |-> size]
  <1>3. c \in CallType /\ c.pc = IF active THEN "test" ELSE "initialize"
    BY DEF CallType
  <1>4. /\ call' \in [Threads -> CallType] /\ call'[t] = c
        /\ \A u \in Threads : u # t => call'[u] = call[u]
    <2> HIDE DEF CallType
    <2> QED
      BY <1>1, <1>2, <1>3
  <1> HIDE DEF c
  <1>5. Adding' = Adding /\ Started' = Started
    BY <1>1, <1>3, <1>4 DEF Adding, Started
  <1>6. HelpersLeft'
    <2>1. CASE active
      <3>1. Starting' = Starting
        BY <1>1, <1>3, <1>4, <2>1 DEF Starting
      <3> QED
        BY <1>1, <1>5, <2>1, <3>1 DEF RInv, HelpersLeft
    <2>2. CASE ~active
      <3>1. Started = {} /\ Started' = {} /\ active' = active
        BY <1>1, <1>5, <2>2 DEF RInv, HelpersLeft
      <3>2. Starting' \subseteq Threads
        BY DEF Starting
      <3>3. Cardinality(Started') = 0
        BY <3>1, FS_EmptySet
      <3>4. Cardinality(Starting') \in Nat /\ Cardinality(Starting') <= Cardinality(Threads)
        BY <3>2, Counts
      <3>5. Cardinality(Started)' = 0 /\ Cardinality(Starting)' = Cardinality(Starting')
        BY <3>3
      <3> QED
        BY <3>1, <3>4, <3>5 DEF HelpersLeft
    <2> QED
      BY <2>1, <2>2
  <1>7. AddersWithin'
    BY <1>1, <1>5 DEF RInv, AddersWithin
  <1>8. launches' \in [Threads -> Nat]
    <2>1. launches \in [Threads -> Nat]
      BY DEF RInv, TypeOK
    <2>2. launches[t] - 1 \in Nat
      BY <1>1, <2>1
    <2> QED
      BY <1>1, <2>1, <2>2
  <1>9. /\ active' \in BOOLEAN /\ counter' \in Nat /\ current' \in Nat
        /\ watcher' \in [Helpers -> [pc : {"none", "start", "read", "clear"}, count : Nat]]
        /\ \A i \in Helpers : watcher'[i].pc = "none" <=> watcher[i].pc = "none"
        /\ allowed' \in {Free} \union 0 .. UpperLimit
    BY <1>1 DEF RInv, TypeOK
  <1> QED
    BY <1>1, <1>4, <1>6, <1>7, <1>8, <1>9, LauncherKeeps DEF CallType

\* A thread goes on in its launch.
LEMMA GotoFacts ==
  ASSUME call \in [Threads -> CallType], NEW t \in Threads,
         NEW pc \in {"idle", "initialize", "test", "add"}, Goto(t, pc)
  PROVE  /\ call' \in [Threads -> CallType] /\ call'[t].pc = pc
         /\ \A u \in Threads : u # t => call'[u] = call[u]
  <1> DEFINE c == call[t]
             d == [c EXCEPT !.pc = pc]
  <1>1. c \in CallType /\ call' = [call EXCEPT ![t] = d]
    BY DEF Goto
  <1> HIDE DEF c
  <1>2. d \in CallType /\ d.pc = pc
    BY <1>1 DEF CallType
  <1> HIDE DEF d
  <1> QED
    BY <1>1, <1>2

LEMMA PassTestKeeps ==
  ASSUME RInv, NEW t \in Threads, PassTest(t)
  PROVE  RInv'
  <1>1. /\ call \in [Threads -> CallType] /\ call[t].pc = "test" /\ ~Limited /\ Goto(t, "add")
        /\ allowed' = (IF flag /\ allowed # Free THEN Most(allowed, limit) ELSE Free)
        /\ UNCHANGED <<active, launches, counter, current, watcher, controlVars, socketVars>>
    BY DEF RInv, TypeOK, CallType, PassTest
  <1>2. /\ call' \in [Threads -> CallType] /\ call'[t].pc = "add"
        /\ \A u \in Threads : u # t => call'[u] = call[u]
    BY <1>1, GotoFacts
  <1>3. /\ counter \in Nat /\ limit \in 0 .. UpperLimit /\ UpperLimit \in Nat
        /\ allowed \in {Free} \cup 0 .. UpperLimit
    BY Consts DEF RInv, TypeOK
  <1>4. HelpersLeft'
    <2>1. Starting' = Starting /\ Started' = Started
      BY <1>1, <1>2 DEF Starting, Started
    <2> QED
      BY <1>1, <2>1 DEF RInv, HelpersLeft
  <1>5. AddersWithin'
    <2> SUFFICES ASSUME allowed' # Free
                 PROVE  counter' + Cardinality(Adding') * Max(Sizes)
                          <= allowed' + Cardinality(Threads) * Max(Sizes)
      BY DEF AddersWithin
    <2>1. flag /\ allowed # Free /\ allowed' = Most(allowed, limit)
      BY <1>1
    <2>2. counter' = counter /\ counter <= limit
      BY <1>1, <1>3, <2>1 DEF Limited
    <2>3. limit <= allowed' /\ allowed' \in Nat /\ limit \in Nat
      BY <1>3, <2>1 DEF Most, Free
    <2>4. Adding' \subseteq Threads
      BY DEF Adding
    <2> DEFINE k == Cardinality(Adding')
               n == Cardinality(Threads)
               x == Max(Sizes)
    <2>5. k \in Nat /\ n \in Nat /\ x \in Nat /\ k <= n
      BY <2>4, Counts, Consts, MaxSize
    <2> HIDE DEF k, n, x
    <2>6. k * x \in Nat /\ n * x \in Nat /\ k * x <= n * x
      BY <2>5, TimesMono
    <2>7. counter' + k * x <= allowed' + n * x
      BY <1>3, <2>2, <2>3, <2>6
    <2> QED
      BY <2>7 DEF k, n, x
  <1>6. allowed' \in {Free} \cup 0 .. UpperLimit
    BY <1>1, <1>3 DEF Most, Free
  <1>7. /\ active' \in BOOLEAN /\ launches' \in [Threads -> Nat] /\ counter' \in Nat
        /\ current' \in Nat
        /\ watcher' \in [Helpers -> [pc : {"none", "start", "read", "clear"}, count : Nat]]
        /\ \A i \in Helpers : watcher'[i].pc = "none" <=> watcher[i].pc = "none"
    BY <1>1 DEF RInv, TypeOK
  <1> QED
    BY <1>1, <1>2, <1>4, <1>5, <1>6, <1>7, LauncherKeeps DEF CallType

LEMMA AddBlocksKeeps ==
  ASSUME RInv, NEW t \in Threads, AddBlocks(t)
  PROVE  RInv'
  <1>1. /\ call \in [Threads -> CallType] /\ call[t].pc = "add" /\ Goto(t, "idle")
        /\ counter' = counter + call[t].size
        /\ UNCHANGED <<active, launches, current, watcher, allowed, controlVars, socketVars>>
    BY DEF RInv, TypeOK, CallType, AddBlocks
  <1>2. /\ call' \in [Threads -> CallType] /\ call'[t].pc = "idle"
        /\ \A u \in Threads : u # t => call'[u] = call[u]
    BY <1>1, GotoFacts
  <1>3. /\ counter \in Nat /\ call[t].size \in Nat /\ call[t].size <= Max(Sizes)
    <2>1. counter \in Nat
      BY DEF RInv, TypeOK
    <2> DEFINE s == call[t].size
    <2>2. s \in {0} \cup Sizes
      BY <1>1 DEF CallType
    <2> HIDE DEF s
    <2>3. s \in Nat /\ s <= Max(Sizes)
      BY <2>2, MaxSize, Consts
    <2> QED
      BY <2>1, <2>3 DEF s
  <1>4. HelpersLeft'
    <2>1. Starting' = Starting /\ Started' = Started
      BY <1>1, <1>2 DEF Starting, Started
    <2> QED
      BY <1>1, <2>1 DEF RInv, HelpersLeft
  <1>5. AddersWithin'
    <2> SUFFICES ASSUME allowed # Free
                 PROVE  counter' + Cardinality(Adding') * Max(Sizes)
                          <= allowed + Cardinality(Threads) * Max(Sizes)
      BY <1>1 DEF AddersWithin
    <2>1. Adding' = Adding \ {t} /\ t \in Adding
      BY <1>1, <1>2 DEF Adding
    <2>2. Adding \subseteq Threads /\ Adding' \subseteq Threads
      BY DEF Adding
    <2> DEFINE k == Cardinality(Adding')
               l == Cardinality(Adding)
               n == Cardinality(Threads)
               x == Max(Sizes)
               s == call[t].size
    <2>3. k \in Nat /\ l \in Nat /\ l = k + 1 /\ n \in Nat /\ x \in Nat
      <3>1. IsFiniteSet(Adding) /\ k \in Nat /\ l \in Nat
        BY <2>2, Counts
      <3>2. k = l - 1
        BY <2>1, <3>1, FS_RemoveElement
      <3> QED
        BY <3>1, <3>2, Consts, MaxSize
    <2>4. counter + l * x <= allowed + n * x
      BY DEF RInv, AddersWithin
    <2>5. allowed \in Nat
      BY Consts DEF RInv, TypeOK
    <2>6. s \in Nat /\ s <= x /\ counter' = counter + s
      BY <1>1, <1>3
    <2> HIDE DEF k, l, n, x, s
    <2>7. l * x = k * x + x /\ k * x \in Nat /\ n * x \in Nat
      BY <2>3
    <2>8. counter' + k * x <= allowed + n * x
      BY <1>3, <2>3, <2>4, <2>5, <2>6, <2>7
    <2> QED
      BY <2>8 DEF k, n, x
  <1>6. /\ active' \in BOOLEAN /\ launches' \in [Threads -> Nat] /\ counter' \in Nat
        /\ current' \in Nat
        /\ watcher' \in [Helpers -> [pc : {"none", "start", "read", "clear"}, count : Nat]]
        /\ \A i \in Helpers : watcher'[i].pc = "none" <=> watcher[i].pc = "none"
        /\ allowed' \in {Free} \cup 0 .. UpperLimit
    BY <1>1, <1>3 DEF RInv, TypeOK
  <1> QED
    BY <1>1, <1>2, <1>4, <1>5, <1>6, LauncherKeeps DEF CallType

\* There is a helper left, and the thread that takes it is past its test.
LEMMA InitializeKeeps ==
  ASSUME RInv, NEW t \in Threads, Initialize(t)
  PROVE  RInv'
  <1> DEFINE Unstarted == {j \in Helpers : watcher[j].pc = "none"}
             i == Min(Unstarted)
             ManagerPc == {"none", "listen", "accept", "hello", "profile", "control", "prefetch"}
             WatcherType == [pc : {"none", "start", "read", "clear"}, count : Nat]
  <1>1. /\ call \in [Threads -> CallType] /\ call[t].pc = "initialize" /\ Goto(t, "test")
        /\ active' = TRUE
        /\ watcher' = [watcher EXCEPT ![i].pc = "start"]
        /\ manager' = [manager EXCEPT ![i].pc = "listen"]
        /\ UNCHANGED <<launches, counter, current, allowed, limit, flag, sign, diffs, path,
                       backlog, hp>>
    BY DEF RInv, TypeOK, CallType, Initialize, socketVars
  <1>2. /\ call' \in [Threads -> CallType] /\ call'[t].pc = "test"
        /\ \A u \in Threads : u # t => call'[u] = call[u]
    BY <1>1, GotoFacts
  <1>3. /\ Started \subseteq Helpers /\ Starting \subseteq Threads /\ t \in Starting
        /\ Starting' = Starting \ {t} /\ Adding' = Adding
    BY <1>1, <1>2 DEF Started, Starting, Adding
  <1>4. /\ IsFiniteSet(Started) /\ IsFiniteSet(Starting)
        /\ Cardinality(Started) \in Nat /\ Cardinality(Starting) \in Nat
        /\ Cardinality(Threads) \in Nat
        /\ Cardinality(Started) + Cardinality(Starting) <= Cardinality(Threads)
        /\ Cardinality(Starting \ {t}) = Cardinality(Starting) - 1
    BY <1>3, Counts, Consts, FS_RemoveElement DEF RInv, HelpersLeft
  <1>5. i \in Helpers /\ watcher[i].pc = "none"
    <2>1. Started # Helpers
      <3>1. Cardinality(Helpers) = Cardinality(Threads)
        BY <1>4, FS_Interval DEF Helpers
      <3>2. Cardinality(Starting) # 0
        BY <1>3, <1>4, FS_EmptySet
      <3> QED
        BY <1>4, <3>1, <3>2
    <2>2. Unstarted # {}
      BY <1>3, <2>1 DEF Started
    <2>3. Unstarted \subseteq Nat
      BY DEF Helpers
    <2>4. i \in Unstarted
      <3> HIDE DEF Unstarted
      <3> QED
        BY <2>2, <2>3, MinOf
    <2> QED
      BY <2>4
  <1> HIDE DEF i, Unstarted
  <1>6. /\ watcher' \in [Helpers -> WatcherType] /\ watcher'[i].pc = "start"
        /\ \A j \in Helpers : j # i => watcher'[j] = watcher[j]
    <2> DEFINE c == watcher[i]
               d == [c EXCEPT !.pc = "start"]
    <2>1. watcher \in [Helpers -> WatcherType] /\ watcher' = [watcher EXCEPT ![i] = d]
      BY <1>1 DEF RInv, TypeOK
    <2>2. c \in WatcherType
      BY <1>5, <2>1
    <2> HIDE DEF c
    <2>3. d \in WatcherType /\ d.pc = "start"
      BY <2>2
    <2> HIDE DEF d, WatcherType
    <2> QED
      BY <1>5, <2>1, <2>3
  <1>7. /\ manager' \in [Helpers -> ManagerType] /\ manager'[i].pc = "listen"
        /\ manager'[i].hp = manager[i].hp
        /\ \A j \in Helpers : j # i => manager'[j] = manager[j]
    <2> DEFINE c == manager[i]
               d == [c EXCEPT !.pc = "listen"]
    <2>1. manager \in [Helpers -> ManagerType] /\ manager' = [manager EXCEPT ![i] = d]
      BY <1>1 DEF RInv, TypeOK
    <2>2. c \in ManagerType
      BY <1>5, <2>1
    <2> HIDE DEF c
    <2>3. d \in ManagerType /\ d.pc = "listen" /\ d.hp = c.hp
      BY <2>2 DEF ManagerType
    <2> HIDE DEF d
    <2> QED
      BY <1>5, <2>1, <2>3 DEF c
  <1>8. manager[i].pc = "none"
    BY <1>5 DEF RInv, TypeOK
  <1>9. OneConnection'
    <2>1. \A h \in Hps : With(h)' = With(h)
      BY <1>1, <1>5, <1>7 DEF With
    <2> QED
      BY <1>1, <2>1 DEF RInv, OneConnection
  <1>10. HelpersLeft'
    <2>1. Started' = Started \cup {i} /\ i \notin Started
      BY <1>5, <1>6 DEF Started
    <2>2. Cardinality(Started') = Cardinality(Started) + 1
      BY <1>4, <2>1, FS_AddElement
    <2>3. Cardinality(Started') + Cardinality(Starting') <= Cardinality(Threads)
      BY <1>3, <1>4, <2>2
    <2> QED
      BY <1>1, <2>3 DEF HelpersLeft
  <1>11. AddersWithin'
    BY <1>1, <1>3 DEF RInv, AddersWithin
  <1>12. ReadsSent' /\ WindowsFull'
    BY <1>1, <1>7 DEF RInv, ReadsSent, WindowsFull, Reads, Serving
  <1>13. TypeOK'
    <2>1. \A j \in Helpers : watcher'[j].pc = "none" <=> manager'[j].pc = "none"
      <3>1. \A j \in Helpers : watcher[j].pc = "none" <=> manager[j].pc = "none"
        BY DEF RInv, TypeOK
      <3>2. watcher'[i].pc = "start" /\ manager'[i].pc = "listen"
        BY <1>6, <1>7
      <3>3. \A j \in Helpers : j # i => watcher'[j] = watcher[j] /\ manager'[j] = manager[j]
        BY <1>6, <1>7
      <3> QED
        BY <3>1, <3>2, <3>3
    <2>2. path' \in {0} \union {j \in Helpers : manager'[j].pc \notin {"none", "listen"}}
      BY <1>1, <1>7, <1>8 DEF RInv, TypeOK
    <2>3. /\ active' \in BOOLEAN /\ flag' \in BOOLEAN
          /\ launches' \in [Threads -> Nat]
          /\ {counter', current'} \subseteq Nat
          /\ limit' \in 0 .. UpperLimit /\ sign' \in {-1, 0, 1} /\ diffs' \in 0 .. Patience - 1
          /\ allowed' \in {Free} \union 0 .. UpperLimit
          /\ backlog' \in [Helpers -> Seq(Hps)]
          /\ hp' \in [Hps -> [pc : {"new", "connected", "gone"}, trace : Seq(Nat), sent : Nat]]
      BY <1>1 DEF RInv, TypeOK
    <2>4. \A h \in Hps :
            Cardinality({j \in Helpers : manager'[j].hp = h \/ h \in ToSet(backlog'[j])}) <= 1
      <3> SUFFICES ASSUME NEW h \in Hps PROVE Cardinality(With(h)') <= 1
        BY DEF With
      <3>1. \A a, b \in With(h)' : a = b
        BY <1>9 DEF OneConnection
      <3> HIDE DEF With
      <3> QED
        BY <3>1, AtMostOne
    <2> QED
      BY <1>2, <1>6, <1>7, <2>1, <2>2, <2>3, <2>4 DEF TypeOK, CallType
  <1> QED
    BY <1>9, <1>10, <1>11, <1>12, <1>13 DEF RInv

LEMMA WatcherKeeps ==
  ASSUME RInv, NEW w \in Helpers, WatcherStep(w)
  PROVE  RInv'
  <1> DEFINE WatcherType == [pc : {"none", "start", "read", "clear"}, count : Nat]
  <1>1. /\ watcher \in [Helpers -> WatcherType] /\ watcher[w].pc # "none"
        /\ watcher[w].count \in Nat
        /\ UNCHANGED <<launcherVars, controlVars, socketVars>>
        /\ counter \in Nat /\ current \in Nat /\ allowed \in {Free} \cup 0 .. UpperLimit
    BY DEF RInv, TypeOK, WatcherStep, StartWatcher, ReadCounter, ClearCounter, Watch
  <1>2. \E d \in WatcherType : d.pc # "none" /\ watcher' = [watcher EXCEPT ![w] = d]
    <2>1. CASE StartWatcher(w)
      <3> DEFINE c == watcher[w]
                 d == [c EXCEPT !.pc = "read"]
      <3>1. c \in WatcherType /\ watcher' = [watcher EXCEPT ![w] = d]
        BY <1>1, <2>1 DEF StartWatcher
      <3> HIDE DEF c
      <3>2. d \in WatcherType /\ d.pc # "none"
        BY <3>1
      <3> QED
        BY <3>1, <3>2
    <2>2. CASE ReadCounter(w)
      BY <1>1, <2>2 DEF ReadCounter
    <2>3. CASE ClearCounter(w)
      BY <1>1, <2>3 DEF ClearCounter
    <2> QED
      BY <2>1, <2>2, <2>3 DEF WatcherStep
  <1>3. /\ watcher' \in [Helpers -> WatcherType]
        /\ \A i \in Helpers : watcher'[i].pc = "none" <=> watcher[i].pc = "none"
    <2>1. PICK d \in WatcherType : d.pc # "none" /\ watcher' = [watcher EXCEPT ![w] = d]
      BY <1>2
    <2> HIDE DEF WatcherType
    <2> QED
      BY <1>1, <2>1
  <1>4. Started' = Started /\ Starting' = Starting /\ Adding' = Adding /\ active' = active
    BY <1>1, <1>3 DEF Started, Starting, Adding, launcherVars
  <1>5. HelpersLeft'
    BY <1>4 DEF RInv, HelpersLeft
  <1>6. \/ counter' = 0 /\ allowed' = 0
        \/ counter' = counter /\ allowed' = allowed
    BY DEF WatcherStep, StartWatcher, ReadCounter, ClearCounter
  <1>7. AddersWithin'
    <2>1. CASE counter' = 0 /\ allowed' = 0
      <3>1. Adding' \subseteq Threads
        BY DEF Adding
      <3>2. 0 + Cardinality(Adding') * Max(Sizes) <= 0 + Cardinality(Threads) * Max(Sizes)
        BY <3>1, Cleared
      <3> QED
        BY <2>1, <3>2 DEF AddersWithin
    <2>2. CASE counter' = counter /\ allowed' = allowed
      BY <1>4, <2>2 DEF RInv, AddersWithin
    <2> QED
      BY <1>6, <2>1, <2>2
  <1>8. counter' \in Nat /\ allowed' \in {Free} \cup 0 .. UpperLimit
    BY <1>1, <1>6, Consts
  <1>9. current' \in Nat
    BY <1>1 DEF WatcherStep, StartWatcher, ReadCounter, ClearCounter
  <1>10. active' \in BOOLEAN /\ call' \in [Threads -> CallType] /\ launches' \in [Threads -> Nat]
    BY <1>1 DEF RInv, TypeOK, CallType, launcherVars
  <1> QED
    BY <1>1, <1>3, <1>5, <1>7, <1>8, <1>9, <1>10, LauncherKeeps DEF CallType

\* An HP connects once, and sends what it has to report.
LEMMA HpKeeps ==
  ASSUME RInv, NEW h \in Hps, HpConnect(h) \/ HpReport(h) \/ HpExit(h)
  PROVE  RInv'
  <1> DEFINE HpType == [pc : {"new", "connected", "gone"}, trace : Seq(Nat), sent : Nat]
  <1>1. /\ UNCHANGED <<launcherVars, countVars, controlVars, path>>
        /\ hp \in [Hps -> HpType] /\ backlog \in [Helpers -> Seq(Hps)]
        /\ path \in {0} \cup Helpers
    BY DEF RInv, TypeOK, HpConnect, HpReport, HpExit, HpStep
  <1>2. /\ hp' \in [Hps -> HpType]
        /\ \A g \in Hps : g # h => hp'[g] = hp[g]
        /\ hp'[h].pc # "new" /\ hp'[h].trace = hp[h].trace
        /\ hp'[h].sent >= hp[h].sent /\ hp'[h].sent <= Len(hp[h].trace)
    <2> DEFINE c == hp[h]
    <2>1. /\ c \in HpType /\ c.sent <= Len(c.trace)
      BY <1>1 DEF RInv, ReadsSent
    <2>2. \/ hp' = [hp EXCEPT ![h] = [c EXCEPT !.pc = "connected"]]
          \/ hp' = [hp EXCEPT ![h] = [c EXCEPT !.pc = "gone"]]
          \/ /\ hp' = [hp EXCEPT ![h] = [c EXCEPT !.sent = c.sent + 1]]
             /\ c.sent < Len(c.trace) /\ c.pc = "connected"
      BY DEF HpConnect, HpReport, HpExit, HpStep
    <2> HIDE DEF c
    <2> DEFINE A == [c EXCEPT !.pc = "connected"]
               B == [c EXCEPT !.pc = "gone"]
               C == [c EXCEPT !.sent = c.sent + 1]
               OK(d) == /\ d \in HpType /\ d.pc # "new" /\ d.trace = c.trace
                        /\ d.sent >= c.sent /\ d.sent <= Len(c.trace)
    <2>3. OK(A) /\ OK(B)
      BY <2>1
    <2>4. c.sent < Len(c.trace) /\ c.pc = "connected" => OK(C)
      BY <2>1
    <2>5. PICK d : OK(d) /\ hp' = [hp EXCEPT ![h] = d]
      BY <2>2, <2>3, <2>4
    <2> HIDE DEF HpType
    <2> QED
      BY <1>1, <2>5 DEF c
  <1>3. /\ backlog' \in [Helpers -> Seq(Hps)]
        /\ \/ backlog' = backlog
           \/ /\ hp[h].pc = "new" /\ path \in Helpers
              /\ backlog' = [backlog EXCEPT ![path] = Append(backlog[path], h)]
    <2>1. CASE HpConnect(h)
      <3>1. /\ hp[h].pc = "new" /\ path \in Helpers
            /\ backlog' = [backlog EXCEPT ![path] = Append(backlog[path], h)]
        BY <1>1, <2>1 DEF HpConnect, HpStep
      <3>2. Append(backlog[path], h) \in Seq(Hps)
        BY <1>1, <3>1
      <3>3. backlog' \in [Helpers -> Seq(Hps)]
        BY <1>1, <3>1, <3>2
      <3> QED
        BY <3>1, <3>3
    <2>2. CASE HpReport(h) \/ HpExit(h)
      BY <1>1, <2>2 DEF HpReport, HpExit
    <2> QED
      BY <2>1, <2>2
  <1>4. OneConnection'
    <2>1. manager' = manager
      BY <1>1 DEF controlVars
    <2>2. \A g \in Hps : g # h => With(g)' \subseteq With(g)
      <3> SUFFICES ASSUME NEW g \in Hps, g # h, NEW m \in Helpers, g \in ToSet(backlog'[m])
                   PROVE  g \in ToSet(backlog[m])
        BY <2>1 DEF With
      <3>1. CASE backlog'[m] = backlog[m]
        BY <3>1
      <3>2. CASE backlog'[m] = Append(backlog[m], h)
        <4>1. backlog[m] \in Seq(Hps)
          BY <1>1
        <4>2. PICK i \in 1 .. Len(backlog[m]) + 1 : Append(backlog[m], h)[i] = g
          BY <3>2, <4>1 DEF ToSet
        <4>3. i \in 1 .. Len(backlog[m]) /\ backlog[m][i] = g
          BY <4>1, <4>2
        <4> QED
          BY <4>1, <4>3 DEF ToSet
      <3> QED
        BY <1>1, <1>3, <3>1, <3>2
    <2>3. \A m, n \in With(h)' : m = n
      <3>1. CASE backlog' = backlog
        BY <2>1, <3>1 DEF With, RInv, OneConnection
      <3>2. CASE hp[h].pc = "new" /\ path \in Helpers
                 /\ backlog' = [backlog EXCEPT ![path] = Append(backlog[path], h)]
        <4>1. With(h) = {}
          BY <3>2 DEF RInv, OneConnection
        <4>2. With(h)' \subseteq {path}
          BY <1>1, <2>1, <3>2, <4>1 DEF With
        <4> QED
          BY <4>2
      <3> QED
        BY <1>3, <3>1, <3>2
    <2> QED
      BY <1>2, <2>2, <2>3 DEF RInv, OneConnection
  <1>5. /\ active' = active /\ call' = call /\ launches' = launches /\ counter' = counter
        /\ current' = current /\ watcher' = watcher /\ allowed' = allowed /\ manager' = manager
        /\ limit' = limit /\ flag' = flag /\ sign' = sign /\ diffs' = diffs /\ path' = path
    BY <1>1 DEF launcherVars, countVars, controlVars
  <1>6. HelpersLeft' /\ AddersWithin' /\ WindowsFull'
    BY <1>5 DEF RInv, HelpersLeft, AddersWithin, WindowsFull, Started, Starting, Adding, Serving
  <1>7. ReadsSent'
    <2>1. \A g \in Hps : /\ hp[g].sent \in Nat /\ hp'[g].sent \in Nat
                         /\ hp'[g].sent >= hp[g].sent /\ hp'[g].sent <= Len(hp'[g].trace)
      <3> SUFFICES ASSUME NEW g \in Hps
                   PROVE  /\ hp[g].sent \in Nat /\ hp'[g].sent \in Nat
                          /\ hp'[g].sent >= hp[g].sent /\ hp'[g].sent <= Len(hp'[g].trace)
        OBVIOUS
      <3>1. hp[g].sent \in Nat /\ hp'[g].sent \in Nat
        BY <1>1, <1>2
      <3>2. hp[g].sent <= Len(hp[g].trace)
        BY DEF RInv, ReadsSent
      <3>3. g # h => hp'[g] = hp[g]
        BY <1>2
      <3> QED
        BY <1>2, <3>1, <3>2, <3>3
    <2>2. \A m \in Helpers : manager[m].read \in Nat
      BY DEF RInv, TypeOK, ManagerType
    <2>3. \A m \in Helpers : Reads(m)' <=> Reads(m)
      BY <1>5 DEF Reads
    <2>4. ASSUME NEW m \in Helpers, Reads(m)
          PROVE  manager[m].hp \in Hps /\ manager[m].read <= hp'[manager[m].hp].sent
      <3>1. manager[m].hp \in Hps /\ manager[m].read <= hp[manager[m].hp].sent
        BY <2>4 DEF RInv, ReadsSent
      <3> QED
        BY <2>1, <2>2, <3>1
    <2> QED
      BY <1>5, <2>1, <2>3, <2>4 DEF ReadsSent
  <1>8. TypeOK'
    <2>1. \A g \in Hps :
            Cardinality({j \in Helpers : manager'[j].hp = g \/ g \in ToSet(backlog'[j])}) <= 1
      <3> SUFFICES ASSUME NEW g \in Hps PROVE Cardinality(With(g)') <= 1
        BY DEF With
      <3>1. \A a, b \in With(g)' : a = b
        BY <1>4 DEF OneConnection
      <3> HIDE DEF With
      <3> QED
        BY <3>1, AtMostOne
    <2> QED
      BY <1>2, <1>3, <1>5, <2>1 DEF RInv, TypeOK
  <1> QED
    BY <1>4, <1>6, <1>7, <1>8 DEF RInv

LEMMA InitKeeps == Init => RInv
  <1> SUFFICES ASSUME Init PROVE RInv
    OBVIOUS
  <1>1. PICK w \in Workloads :
          /\ launches = w.launches
          /\ hp = [h \in Hps |->
                     [pc |-> IF w.reports[h] = << >> THEN "gone" ELSE "new",
                      trace |-> w.reports[h], sent |-> 0]]
    BY DEF Init
  <1>2. w.launches \in [Threads -> Nat] /\ w.reports \in [Hps -> Seq(Nat)]
    BY SizeAssumption
  <1>3. /\ hp \in [Hps -> [pc : {"new", "connected", "gone"}, trace : Seq(Nat), sent : Nat]]
        /\ \A h \in Hps : hp[h].sent = 0 /\ hp[h].trace \in Seq(Nat)
    BY <1>1, <1>2
  <1>4. NewManager \in ManagerType /\ NewManager.pc = "none" /\ NewManager.hp = NoHp
    BY DEF NewManager, ManagerType
  <1>5. /\ active = FALSE /\ flag = FALSE /\ counter = 0 /\ current = 0
        /\ limit = 0 /\ sign = 0 /\ diffs = 0 /\ path = 0 /\ allowed = 0
        /\ call = [t \in Threads |-> [pc |-> "idle", size |-> 0]]
        /\ watcher = [i \in Helpers |-> [pc |-> "none", count |-> 0]]
        /\ manager = [m \in Helpers |-> NewManager]
        /\ backlog = [m \in Helpers |-> << >>]
    BY DEF Init
  <1>6. \A h \in Hps : With(h) = {}
    BY <1>4, <1>5, Consts DEF With, ToSet
  <1>7. Started = {} /\ Starting = {} /\ Adding = {}
    BY <1>5 DEF Started, Starting, Adding
  <1>8. OneConnection
    BY <1>6 DEF OneConnection
  <1>9. HelpersLeft
    BY <1>7, FS_EmptySet, Consts DEF HelpersLeft
  <1>10. AddersWithin
    <2>1. Adding \subseteq Threads
      BY <1>7
    <2>2. 0 + Cardinality(Adding) * Max(Sizes) <= 0 + Cardinality(Threads) * Max(Sizes)
      BY <2>1, Cleared
    <2> QED
      BY <1>5, <2>2 DEF AddersWithin
  <1>11. ReadsSent
    <2>1. \A h \in Hps : hp[h].sent <= Len(hp[h].trace)
      BY <1>3
    <2>2. \A m \in Helpers : ~Reads(m)
      BY <1>4, <1>5 DEF Reads
    <2> QED
      BY <2>1, <2>2 DEF ReadsSent
  <1>12. WindowsFull
    BY <1>4, <1>5 DEF WindowsFull, Serving
  <1>13. TypeOK
    <2>1. call \in [Threads -> [pc : {"idle", "initialize", "test", "add"}, size : {0} \union Sizes]]
      BY <1>5
    <2>2. watcher \in [Helpers -> [pc : {"none", "start", "read", "clear"}, count : Nat]]
      BY <1>5
    <2>3. manager \in [Helpers -> ManagerType]
      BY <1>4, <1>5
    <2>4. \A i \in Helpers : (watcher[i].pc = "none") <=> (manager[i].pc = "none")
      BY <1>4, <1>5
    <2>5. backlog \in [Helpers -> Seq(Hps)]
      BY <1>5
    <2>6. \A h \in Hps :
            Cardinality({m \in Helpers : manager[m].hp = h \/ h \in ToSet(backlog[m])}) <= 1
      <3> SUFFICES ASSUME NEW h \in Hps PROVE Cardinality(With(h)) <= 1
        BY DEF With
      <3>1. Cardinality(With(h)) = 0
        BY <1>6, FS_EmptySet
      <3> QED
        BY <3>1
    <2>7. 0 \in 0 .. UpperLimit /\ 0 \in 0 .. Patience - 1
      BY Consts
    <2>8. launches \in [Threads -> Nat]
      BY <1>1, <1>2
    <2>9. path \in {0} \union {i \in Helpers : manager[i].pc \notin {"none", "listen"}}
      BY <1>5
    <2>10. limit \in 0 .. UpperLimit /\ diffs \in 0 .. Patience - 1
           /\ allowed \in {Free} \union 0 .. UpperLimit
      <3>1. limit = 0 /\ diffs = 0 /\ allowed = 0
        BY <1>5
      <3> QED
        BY <2>7, <3>1
    <2>11. active \in BOOLEAN /\ flag \in BOOLEAN /\ {counter, current} \subseteq Nat
           /\ sign \in {-1, 0, 1}
      <3>1. active = FALSE /\ flag = FALSE
        BY <1>5
      <3>2. counter = 0 /\ current = 0 /\ sign = 0
        BY <1>5
      <3>3. active \in BOOLEAN /\ flag \in BOOLEAN
        BY <3>1
      <3>4. {counter, current} \subseteq Nat /\ sign \in {-1, 0, 1}
        BY <3>2
      <3> QED
        BY <3>3, <3>4
    <2> QED
      BY <1>3, <2>1, <2>2, <2>3, <2>4, <2>5, <2>6, <2>8, <2>9, <2>10, <2>11 DEF TypeOK
  <1> QED
    BY <1>8, <1>9, <1>10, <1>11, <1>12, <1>13 DEF RInv

LEMMA StutterKeeps == RInv /\ UNCHANGED vars => RInv'
  <1> SUFFICES ASSUME RInv, UNCHANGED vars PROVE RInv'
    OBVIOUS
  <1>1. /\ UNCHANGED <<controlVars, socketVars>>
        /\ active' = active /\ call' = call /\ launches' = launches /\ counter' = counter
        /\ current' = current /\ watcher' = watcher /\ allowed' = allowed
    BY DEF vars, launcherVars, countVars
  <1>2. HelpersLeft' /\ AddersWithin'
    BY <1>1 DEF RInv, HelpersLeft, AddersWithin, Started, Starting, Adding
  <1>3. /\ active \in BOOLEAN
        /\ call \in [Threads -> [pc : {"idle", "initialize", "test", "add"}, size : {0} \union Sizes]]
        /\ launches \in [Threads -> Nat] /\ counter \in Nat /\ current \in Nat
        /\ watcher \in [Helpers -> [pc : {"none", "start", "read", "clear"}, count : Nat]]
        /\ allowed \in {Free} \union 0 .. UpperLimit
    BY DEF RInv, TypeOK
  <1> QED
    BY <1>1, <1>2, <1>3, LauncherKeeps

LEMMA NextKeeps == RInv /\ [Next]_vars => RInv'
  <1> SUFFICES ASSUME RInv, [Next]_vars PROVE RInv'
    OBVIOUS
  <1>1. CASE UNCHANGED vars
    BY <1>1, StutterKeeps
  <1>2. ASSUME NEW t \in Threads, BeginLaunch(t) \/ LaunchStep(t) PROVE RInv'
    BY <1>2, BeginLaunchKeeps, PassTestKeeps, AddBlocksKeeps, InitializeKeeps DEF LaunchStep
  <1>3. ASSUME NEW i \in Helpers, WatcherStep(i) \/ ManagerStep(i) PROVE RInv'
    BY <1>3, WatcherKeeps, ManagerStepMoves, ManagerKeeps
  <1>4. ASSUME NEW h \in Hps, HpConnect(h) \/ HpReport(h) \/ HpExit(h) PROVE RInv'
    BY <1>4, HpKeeps
  <1> QED
    BY <1>1, <1>2, <1>3, <1>4 DEF Next

LEMMA Invariance == Spec => []RInv
  <1>1. Init => RInv
    BY InitKeeps
  <1>2. RInv /\ [Next]_vars => RInv'
    BY NextKeeps
  <1> QED
    BY <1>1, <1>2, PTL DEF Spec

\* rate_limiter tests the counter and adds to it without a lock, while
\* rate_watcher clears it and limit_manager changes the limit: however they
\* interleave, launches held to a limit exceed it by at most one launch of
\* each thread, for every number of threads and every launch size.
THEOREM HeldToLimit == Spec => []RateHeld
  <1>1. RInv => RateHeld
    <2> SUFFICES ASSUME RInv, allowed # Free
                 PROVE  counter <= allowed + Cardinality(Threads) * Max(Sizes)
      BY DEF RateHeld, OvershootBounded, RInv
    <2>1. Adding \subseteq Threads
      BY DEF Adding
    <2> DEFINE k == Cardinality(Adding)
               x == Max(Sizes)
               n == Cardinality(Threads)
    <2>2. k \in Nat /\ x \in Nat /\ n \in Nat
      BY <2>1, Counts, MaxSize, Consts
    <2>3. counter + k * x <= allowed + n * x
      BY DEF RInv, AddersWithin
    <2>4. counter \in Nat /\ allowed \in Int
      BY Consts DEF RInv, TypeOK, Free
    <2> HIDE DEF k, x, n
    <2>5. k * x \in Nat /\ n * x \in Nat
      BY <2>2
    <2>6. counter <= allowed + n * x
      BY <2>3, <2>4, <2>5
    <2> QED
      BY <2>6 DEF x, n
  <1> QED
    BY <1>1, Invariance, PTL

---------------------------------------------------------------------------
(* The estimate stays within the reports. *)

LEMMA ReportedLess ==
  ASSUME NEW u \in Nat, NEW v \in Nat, u <= v, NEW f, NEW n \in Nat, NEW k \in Nat, n <= k,
         \A i \in 1 .. n : f[i] \in Nat, Reported(v, f, n)
  PROVE  Reported(u, f, k)
  <1>1. CASE v <= 1
    BY <1>1 DEF Reported
  <1>2. CASE \E i \in 2 .. n : v <= f[i]
    <2>1. PICK i \in 2 .. n : v <= f[i]
      BY <1>2
    <2>2. i \in 1 .. n /\ i \in 2 .. k /\ f[i] \in Nat
      BY <2>1
    <2>3. u <= f[i]
      BY <2>1, <2>2
    <2> QED
      BY <2>2, <2>3 DEF Reported
  <1> QED
    BY <1>1, <1>2 DEF Reported

\* The reports that a manager has read.
LEMMA Traces ==
  ASSUME RInv, NEW m \in Helpers, Reads(m)
  PROVE  /\ manager[m].hp \in Hps /\ manager[m].read \in Nat
         /\ \A i \in 1 .. manager[m].read : hp[manager[m].hp].trace[i] \in Nat
  <1> DEFINE h == manager[m].hp
             f == hp[h].trace
             k == manager[m].read
  <1>1. h \in Hps /\ f \in Seq(Nat) /\ k \in Nat /\ k <= hp[h].sent /\ hp[h].sent <= Len(f)
        /\ hp[h].sent \in Nat
    BY DEF RInv, TypeOK, ReadsSent, ManagerType
  <1>2. \A i \in 1 .. k : f[i] \in Nat
    <2> HIDE DEF h, f, k
    <2>1. Len(f) \in Nat /\ \A i \in 1 .. Len(f) : f[i] \in Nat
      BY <1>1
    <2> QED
      BY <1>1, <2>1
  <1> QED
    BY <1>1, <1>2

\* What was seen is no more than a report, if that is so of the window.
LEMMA SeenReported ==
  ASSUME NEW w \in [1 .. WindowSize -> Nat], NEW m, manager[m].window = w,
         NEW f, NEW n \in Nat, \A i \in 1 .. n : f[i] \in Nat,
         \A i \in 1 .. WindowSize : Reported(w[i], f, n)
  PROVE  Reported(Seen(m), f, n)
  <1>1. Seen(m) \in Nat
    BY SeenWindow
  <1>2. CASE Seen(m) = 0
    BY <1>2 DEF Reported
  <1>3. CASE \E i \in 2 .. WindowSize : Seen(m) = (w[i] + w[i - 1]) \div 2
    <2>1. PICK i \in 2 .. WindowSize : Seen(m) = (w[i] + w[i - 1]) \div 2
      BY <1>3
    <2>2. i \in 1 .. WindowSize /\ i - 1 \in 1 .. WindowSize
      BY Consts
    <2> DEFINE a == w[i]
               b == w[i - 1]
    <2>3. a \in Nat /\ b \in Nat /\ Reported(a, f, n) /\ Reported(b, f, n)
      BY <2>2
    <2>4. Seen(m) = (a + b) \div 2
      BY <2>1
    <2> HIDE DEF a, b
    <2>5. Seen(m) <= a \/ Seen(m) <= b
      BY <1>1, <2>3, <2>4
    <2> QED
      BY <1>1, <2>3, <2>5, ReportedLess
  <1> QED
    BY <1>2, <1>3, SeenWindow

\* A new report keeps a window within the reports.
LEMMA ShiftReported ==
  ASSUME NEW w \in [1 .. WindowSize -> Nat], NEW f, NEW n \in Nat, n >= 1,
         \A i \in 1 .. n + 1 : f[i] \in Nat,
         \A i \in 1 .. WindowSize : Reported(w[i], f, n)
  PROVE  \A i \in 1 .. WindowSize : Reported(Shift(w, Most(f[n + 1], 1))[i], f, n + 1)
  <1> DEFINE r == Most(f[n + 1], 1)
             v == Shift(w, r)
  <1>1. n + 1 \in 1 .. n + 1 /\ n + 1 \in 2 .. n + 1
    OBVIOUS
  <1>2. f[n + 1] \in Nat
    BY <1>1
  <1>3. r \in Nat /\ Reported(r, f, n + 1)
    BY <1>1, <1>2 DEF Most, Reported
  <1> HIDE DEF r
  <1>4. v[1] = r /\ \A i \in 2 .. WindowSize : v[i] = w[i - 1] /\ i - 1 \in 1 .. WindowSize
    BY <1>3, ShiftType
  <1> HIDE DEF v
  <1> SUFFICES ASSUME NEW i \in 1 .. WindowSize PROVE Reported(v[i], f, n + 1)
    BY DEF v, r
  <1>5. CASE i = 1
    BY <1>3, <1>4, <1>5
  <1>6. CASE i \in 2 .. WindowSize
    <2> DEFINE u == w[i - 1]
    <2>1. u \in Nat /\ Reported(u, f, n) /\ v[i] = u
      BY <1>4, <1>6
    <2>2. \A j \in 1 .. n : f[j] \in Nat
      OBVIOUS
    <2> HIDE DEF u
    <2> QED
      BY <2>1, <2>2, ReportedLess
  <1> QED
    BY <1>5, <1>6, Consts

LEMMA ProfileKeepsEstimate ==
  ASSUME RInv, EInv, NEW m \in Helpers, ProfileSample(m), RInv'
  PROVE  EstimateOf(manager'[m], hp[manager[m].hp].trace)
  <1> DEFINE c == manager[m]
             d == manager'[m]
             f == hp[c.hp].trace
             n == c.read
             last == c.sample + 1 = ProfileTime
             s == Seen(m)
             e == ProfileEstimate(c.maxRate, s)
             w == c.window
  <1>1. /\ c.pc = "profile" /\ CanRead(m)
        /\ d.pc = (IF last THEN "control" ELSE "profile")
        /\ d.read = n + 1 /\ d.sample = c.sample + 1 /\ d.cnt = c.cnt
        /\ d.window = Shift(w, Rate(m))
        /\ d.maxRate = (IF last THEN Most(e, 1) ELSE e)
    BY ProfileFields
  <1>2. Rate(m) = Most(f[n + 1], 1)
    BY <1>1, ReadFacts DEF Reads
  <1>3. /\ c.maxRate \in Nat /\ c.sample \in Nat /\ n \in Nat /\ w \in [1 .. WindowSize -> Nat]
    BY <1>1 DEF RInv, TypeOK, ManagerType, WindowsFull, Serving
  <1>4. \A i \in 1 .. n + 1 : f[i] \in Nat
    <2>1. d.hp = c.hp /\ d.pc \in {"profile", "control"} /\ hp' = hp
      BY ProfileFields
    <2>2. Reads(m)'
      BY <2>1 DEF Reads
    <2>3. /\ c.hp \in Hps /\ hp[c.hp].trace \in Seq(Nat) /\ hp[c.hp].sent \in Nat
          /\ n + 1 <= hp[c.hp].sent /\ hp[c.hp].sent <= Len(hp[c.hp].trace)
      BY SMTT(30), <1>1, <2>1, <2>2 DEF RInv, TypeOK, ReadsSent
    <2> HIDE DEF c, n
    <2> DEFINE g == hp[c.hp].trace
    <2>4. g \in Seq(Nat) /\ Len(g) \in Nat /\ n + 1 <= Len(g)
      BY <1>3, <2>3
    <2> HIDE DEF g
    <2>5. \A i \in 1 .. n + 1 : g[i] \in Nat
      BY <1>3, <2>4
    <2> QED
      BY <2>5 DEF g
  <1>5. EstimateOf(c, f)
    BY <1>1 DEF EInv, Serving
  <1>6. /\ n >= c.sample + 1 /\ \A i \in 1 .. WindowSize : Reported(w[i], f, n)
        /\ c.sample > 0 => Reported(c.maxRate, f, n)
        /\ c.sample < ProfileTime
        /\ c.sample = 0 => w = EmptyWindow
        /\ c.sample >= 1 => w[1] = Most(f[n], 1)
        /\ c.sample >= 2 => w[2] = Most(f[n - 1], 1)
    <2> HIDE DEF f
    <2> QED
      BY <1>1, <1>5 DEF EstimateOf
  <1>7. /\ s \in Nat /\ Reported(s, f, n)
        /\ \A i \in 2 .. WindowSize : s >= (w[i] + w[i - 1]) \div 2
        /\ s = 0 \/ \E i \in 2 .. WindowSize : s = (w[i] + w[i - 1]) \div 2
    <2>1. manager[m].window = w /\ \A i \in 1 .. n : f[i] \in Nat
      BY <1>3, <1>4
    <2> HIDE DEF w, f, n
    <2> QED
      BY <1>3, <1>6, <2>1, SeenWindow, SeenReported
  <1> DEFINE x == c.maxRate
             k == c.sample
             y == d.maxRate
  <1>8. /\ e \in Nat /\ (e <= x \/ e <= s) /\ (s = 0 => e = 0) /\ 1000 * (e + 1) >= 975 * s
    <2>1. e = ProfileEstimate(x, s) /\ x \in Nat /\ s \in Nat
      BY <1>3, <1>7
    <2> HIDE DEF e, x, s
    <2> QED
      BY <2>1, ProfileEstimateBounds
  <1> HIDE DEF s, e
  <1>9. n >= 1 /\ n + 1 >= k + 1 + 1
    BY <1>3, <1>6
  <1>10. \A i \in 1 .. WindowSize : Reported(d.window[i], f, n + 1)
    <2>1. d.window = Shift(w, Most(f[n + 1], 1))
      BY <1>1, <1>2
    <2> HIDE DEF d, w, f, n
    <2> QED
      BY <1>3, <1>4, <1>6, <1>9, <2>1, ShiftReported
  <1>11. k = 0 => e = 0
    <2> SUFFICES ASSUME k = 0 PROVE s = 0
      BY <1>8
    <2>1. \A i \in 1 .. WindowSize : w[i] = 0
      BY <1>6 DEF EmptyWindow
    <2>2. \A i \in 2 .. WindowSize : w[i] = 0 /\ w[i - 1] = 0
      BY <2>1, Consts
    <2> QED
      BY <1>7, <2>2
  <1>12. Reported(e, f, n + 1)
    <2>1. CASE k = 0
      BY <1>11, <2>1 DEF Reported
    <2>2. CASE k # 0
      <3>1. Reported(x, f, n)
        BY <1>3, <1>6, <2>2
      <3> HIDE DEF x, f, n
      <3>2. x \in Nat /\ n \in Nat /\ \A i \in 1 .. n : f[i] \in Nat
        BY <1>3, <1>4 DEF x
      <3> QED
        BY <1>7, <1>8, <3>1, <3>2, ReportedLess
    <2> QED
      BY <2>1, <2>2
  <1>13. Reported(y, f, n + 1) /\ y >= e /\ y \in Nat
    <2>1. y = e \/ y = Most(e, 1)
      BY <1>1
    <2> HIDE DEF y
    <2> QED
      BY <1>8, <1>12, <2>1 DEF Most, Reported
  <1>14. /\ d.window[1] = Most(f[n + 1], 1)
         /\ d.window[2] = w[1]
    <2> DEFINE r == Most(f[n + 1], 1)
               v == Shift(w, r)
    <2>1. d.window = v /\ r \in Nat /\ w \in [1 .. WindowSize -> Nat]
      <3>1. f[n + 1] \in Nat
        BY <1>3, <1>4
      <3> QED
        BY <1>1, <1>2, <1>3, <3>1 DEF Most
    <2>2. 2 \in 2 .. WindowSize /\ 2 - 1 = 1
      BY Consts
    <2> HIDE DEF d, w, f, n, r
    <2>3. v[1] = r /\ \A i \in 2 .. WindowSize : v[i] = w[i - 1]
      BY <2>1, ShiftType
    <2> HIDE DEF v
    <2>4. v[2] = w[2 - 1]
      BY <2>2, <2>3
    <2> QED
      BY <2>1, <2>2, <2>3, <2>4 DEF r
  <1>0. k \in Nat /\ ProfileTime \in Nat /\ ProfileTime >= 3 /\ (last <=> k + 1 = ProfileTime)
        /\ k < ProfileTime
    BY <1>3, <1>6, Consts
  <1>15. last => \E i \in n + 1 - ProfileTime + 1 .. n + 1 : 1000 * (y + 1) >= 975 * f[i]
    <2> SUFFICES ASSUME last
                 PROVE  \E i \in n + 1 - ProfileTime + 1 .. n + 1 : 1000 * (y + 1) >= 975 * f[i]
      OBVIOUS
    <2>1. ProfileTime \in Nat /\ ProfileTime >= 3 /\ k >= 2
      <3> HIDE DEF k, last
      <3> QED
        BY <1>0
    <2>2. w[1] = Most(f[n], 1) /\ w[2] = Most(f[n - 1], 1)
      <3>1. k >= 1 /\ k >= 2
        BY <2>1, <1>0
      <3> QED
        BY <1>6, <3>1
    <2>3. f[n] \in Nat /\ f[n - 1] \in Nat
      <3>1. n \in 1 .. n + 1 /\ n - 1 \in 1 .. n + 1
        BY <1>3, <1>6, <2>1
      <3> QED
        BY <1>4, <3>1
    <2>4. s >= (w[2] + w[1]) \div 2
      <3>1. 2 \in 2 .. WindowSize /\ 2 - 1 = 1
        BY Consts
      <3> QED
        BY <1>7, <3>1
    <2> DEFINE a == f[n]
               b == f[n - 1]
    <2>5. a \in Nat /\ b \in Nat /\ s >= (Most(b, 1) + Most(a, 1)) \div 2
      BY <2>2, <2>3, <2>4
    <2>6. n \in n + 1 - ProfileTime + 1 .. n + 1 /\ n - 1 \in n + 1 - ProfileTime + 1 .. n + 1
      BY SMTT(30), <1>3, <2>1
    <2> HIDE DEF a, b, y
    <2>7. s >= a \/ s >= b
      BY <1>7, <2>5 DEF Most
    <2>8. 1000 * (y + 1) >= 975 * a \/ 1000 * (y + 1) >= 975 * b
      BY <1>7, <1>8, <1>13, <2>5, <2>7
    <2> QED
      BY <2>6, <2>8 DEF a, b
  <1>16. d.pc = "profile" => k + 1 < ProfileTime
    <2>1. d.pc = "profile" => ~last
      BY <1>1
    <2> HIDE DEF k, last, d
    <2> QED
      BY <1>0, <2>1
  <1>17. d.pc = "control" => k + 1 = ProfileTime
    BY <1>1
  <1>18. k + 1 # 0 /\ (k + 1 >= 2 => k >= 1) /\ k \in Nat
    BY <1>3
  <1>19. d.pc = "profile" /\ k + 1 >= 2 => d.window[2] = Most(f[n + 1 - 1], 1)
    BY <1>3, <1>6, <1>14, <1>18
  <1>20. d.pc = "control" /\ d.cnt = 0 =>
           \E i \in n + 1 - ProfileTime + 1 .. n + 1 : 1000 * (y + 1) >= 975 * f[i]
    BY <1>15, <1>17
  <1>21. d.read = n + 1 /\ d.sample = k + 1 /\ d.maxRate = y
    BY <1>1
  <1>23. d.pc = "profile" \/ d.pc = "control"
    BY <1>1
  <1>24. n \in Nat /\ k \in Nat /\ y \in Nat
    BY <1>3, <1>13
  <1> HIDE DEF c, d, f, n, k, y, last, w
  <1>22. EstimateOf(d, f)
    <2>1. d.read >= d.sample + 1
      BY <1>9, <1>21
    <2>2. \A i \in 1 .. WindowSize : Reported(d.window[i], f, d.read)
      BY <1>10, <1>21
    <2>3. d.sample > 0 => Reported(d.maxRate, f, d.read)
      BY <1>13, <1>21
    <2>4. /\ d.pc = "profile" => d.sample < ProfileTime
          /\ d.pc = "control" => d.sample = ProfileTime
      BY <1>16, <1>17, <1>21
    <2>5. d.pc = "profile" /\ d.sample = 0 => d.window = EmptyWindow
      BY <1>18, <1>21
    <2>6. d.pc = "profile" /\ d.sample >= 1 => d.window[1] = Most(f[d.read], 1)
      BY <1>14, <1>21
    <2>7. d.pc = "profile" /\ d.sample >= 2 => d.window[2] = Most(f[d.read - 1], 1)
      <3>1. d.read - 1 = n + 1 - 1 /\ (d.sample >= 2 <=> k + 1 >= 2)
        BY <1>21, <1>24
      <3> QED
        BY <1>19, <3>1
    <2>8. d.pc = "control" /\ d.cnt = 0 =>
            \E i \in d.read - ProfileTime + 1 .. d.read : 1000 * (d.maxRate + 1) >= 975 * f[i]
      <3>1. d.read - ProfileTime + 1 = n + 1 - ProfileTime + 1
        BY <1>0, <1>21, <1>24
      <3> QED
        BY <1>20, <1>21, <3>1
    <2> QED
      BY <2>1, <2>2, <2>3, <2>4, <2>5, <2>6, <2>7, <2>8 DEF EstimateOf
  <1> QED
    BY <1>22 DEF d, f, c

LEMMA ControlKeepsEstimate ==
  ASSUME RInv, EInv, NEW m \in Helpers, ControlSample(m), RInv',
         ~NeedsProfile(manager[m].maxRate, Seen(m))
  PROVE  EstimateOf(manager'[m], hp[manager[m].hp].trace)
  <1> DEFINE c == manager[m]
             d == manager'[m]
             f == hp[c.hp].trace
             n == c.read
             s == Seen(m)
             x == c.maxRate
             e == ControlEstimate(x, s)
             w == c.window
             k == c.sample
             y == d.maxRate
  <1>1. /\ c.pc = "control" /\ CanRead(m) /\ d.pc = "control" /\ hp' = hp
        /\ d.hp = c.hp /\ d.read = n + 1 /\ d.sample = k /\ d.cnt = c.cnt + 1
        /\ d.window = Shift(w, Rate(m)) /\ y <= e
    BY ControlFields
  <1>2. Rate(m) = Most(f[n + 1], 1)
    BY <1>1, ReadFacts DEF Reads
  <1>3. /\ x \in Nat /\ k \in Nat /\ n \in Nat /\ w \in [1 .. WindowSize -> Nat]
        /\ c.cnt \in Nat /\ y \in Nat
    <2>1. c \in ManagerType /\ d \in ManagerType
      BY DEF RInv, TypeOK
    <2>2. w \in [1 .. WindowSize -> Nat]
      BY <1>1 DEF RInv, WindowsFull, Serving
    <2> HIDE DEF c, d, w
    <2> QED
      BY <2>1, <2>2 DEF ManagerType
  <1>4. \A i \in 1 .. n + 1 : f[i] \in Nat
    <2>1. Reads(m)'
      BY <1>1 DEF Reads
    <2>2. /\ c.hp \in Hps /\ hp[c.hp].trace \in Seq(Nat) /\ hp[c.hp].sent \in Nat
          /\ n + 1 <= hp[c.hp].sent /\ hp[c.hp].sent <= Len(hp[c.hp].trace)
      BY SMTT(30), <1>1, <2>1 DEF RInv, TypeOK, ReadsSent
    <2> HIDE DEF c, n
    <2> DEFINE g == hp[c.hp].trace
    <2>3. g \in Seq(Nat) /\ Len(g) \in Nat /\ n + 1 <= Len(g)
      BY <1>3, <2>2
    <2> HIDE DEF g
    <2>4. \A i \in 1 .. n + 1 : g[i] \in Nat
      BY <1>3, <2>3
    <2> QED
      BY <2>4 DEF g
  <1>5. EstimateOf(c, f)
    BY <1>1 DEF EInv, Serving
  <1>6. /\ n >= k + 1 /\ \A i \in 1 .. WindowSize : Reported(w[i], f, n)
        /\ k > 0 => Reported(x, f, n)
        /\ k = ProfileTime
    <2> HIDE DEF f
    <2> QED
      BY <1>1, <1>5 DEF EstimateOf
  <1>7. /\ s \in Nat /\ Reported(s, f, n)
    <2>1. manager[m].window = w /\ \A i \in 1 .. n : f[i] \in Nat
      BY <1>3, <1>4
    <2> HIDE DEF w, f, n
    <2> QED
      BY <1>3, <1>6, <2>1, SeenWindow, SeenReported
  <1>8. e \in Nat /\ (e <= x \/ e <= s)
    <2>1. e = ControlEstimate(x, s) /\ x \in Nat /\ s \in Nat
      BY <1>3, <1>7
    <2> HIDE DEF e, x, s
    <2> QED
      BY <2>1, ControlEstimateBounds
  <1>9. k > 0 /\ n >= 1
    BY <1>3, <1>6, Consts
  <1>10. \A i \in 1 .. WindowSize : Reported(d.window[i], f, n + 1)
    <2>1. d.window = Shift(w, Most(f[n + 1], 1))
      BY <1>1, <1>2
    <2> HIDE DEF d, w, f, n
    <2> QED
      BY <1>3, <1>4, <1>6, <1>9, <2>1, ShiftReported
  <1>11. Reported(y, f, n + 1)
    <2>1. y \in Nat /\ x \in Nat /\ e \in Nat /\ s \in Nat /\ y <= e /\ (e <= x \/ e <= s)
      BY <1>1, <1>3, <1>7, <1>8
    <2>2. Reported(x, f, n) /\ Reported(s, f, n) /\ n \in Nat /\ n <= n + 1
      BY <1>3, <1>6, <1>7, <1>9
    <2>3. \A i \in 1 .. n : f[i] \in Nat
      BY <1>3, <1>4
    <2> HIDE DEF y, x, e, s, n, f
    <2>4. y <= x \/ y <= s
      BY <2>1
    <2>5. n + 1 \in Nat
      BY <2>2
    <2> QED
      BY <2>1, <2>2, <2>3, <2>4, <2>5, ReportedLess
  <1>12. n + 1 >= k + 1 /\ c.cnt + 1 # 0
    BY <1>3, <1>6
  <1>13. d.read = n + 1 /\ d.sample = k /\ d.maxRate = y /\ d.cnt = c.cnt + 1
    BY <1>1
  <1> HIDE DEF c, d, f, n, k, y
  <1>14. EstimateOf(d, f)
    <2>1. d.read >= d.sample + 1
      BY <1>12, <1>13
    <2>2. \A i \in 1 .. WindowSize : Reported(d.window[i], f, d.read)
      BY <1>10, <1>13
    <2>3. Reported(d.maxRate, f, d.read)
      BY <1>11, <1>13
    <2>4. d.pc = "control" /\ d.sample = ProfileTime /\ d.cnt # 0
      BY <1>1, <1>6, <1>12, <1>13
    <2> QED
      BY <2>1, <2>2, <2>3, <2>4 DEF EstimateOf
  <1> QED
    BY <1>14 DEF d, f, c

\* A profile starts with nothing in its window.
LEMMA StartEstimate ==
  ASSUME RInv, NEW m \in Helpers, NEW maxRate \in Nat, StartProfile(m, maxRate), NEW f
  PROVE  EstimateOf(manager'[m], f)
  <1> DEFINE d == manager'[m]
             n == manager[m].read
  <1>1. /\ d.pc = "profile" /\ d.read = n + 1 /\ d.sample = 0 /\ d.window = EmptyWindow
        /\ n \in Nat
    BY StartProfileFields DEF RInv, TypeOK, ManagerType
  <1> HIDE DEF d, n
  <1>2. d.read >= d.sample + 1
    BY <1>1
  <1>3. \A i \in 1 .. WindowSize : EmptyWindow[i] = 0
    BY DEF EmptyWindow
  <1>4. \A i \in 1 .. WindowSize : Reported(d.window[i], f, d.read)
    BY <1>1, <1>3 DEF Reported
  <1>5. d.sample < ProfileTime /\ ~(d.sample > 0) /\ ~(d.sample >= 1) /\ ~(d.sample >= 2)
    BY <1>1, Consts
  <1>6. EstimateOf(d, f)
    BY <1>1, <1>2, <1>4, <1>5 DEF EstimateOf
  <1> QED
    BY <1>6 DEF d

\* What does not read leaves no claim to keep.
LEMMA OthersKeepEstimate ==
  ASSUME EInv, \A h \in Hps : hp'[h].trace = hp[h].trace,
         NEW m \in Helpers, manager'[m] = manager[m], Reads(m) => manager[m].hp \in Hps
  PROVE  /\ Serving(m)' => EstimateOf(manager'[m], hp'[manager'[m].hp].trace)
         /\ manager'[m].pc = "hello" => manager'[m].read = 0
  BY DEF EInv, Serving, Reads

LEMMA ManagerStepEstimate ==
  ASSUME RInv, EInv, NEW m \in Helpers, ManagerStep(m), RInv'
  PROVE  EInv'
  <1>1. /\ hp' = hp
        /\ \A n \in Helpers : n # m => manager'[n] = manager[n]
    BY ManagerStepMoves DEF ManagerMoves
  <1>2. \A n \in Helpers : n # m =>
          /\ Serving(n)' => EstimateOf(manager'[n], hp'[manager'[n].hp].trace)
          /\ manager'[n].pc = "hello" => manager'[n].read = 0
    BY <1>1, OthersKeepEstimate DEF RInv, ReadsSent
  <1>3. /\ Serving(m)' => EstimateOf(manager'[m], hp'[manager'[m].hp].trace)
        /\ manager'[m].pc = "hello" => manager'[m].read = 0
    <2>1. CASE Listen(m) \/ NoHello(m) \/ EndControl(m) \/ Disconnect(m) \/ Accept(m)
      <3>1. manager \in [Helpers -> ManagerType] /\ manager[m] \in ManagerType
        BY DEF RInv, TypeOK
      <3>2. \/ manager'[m] = [manager[m] EXCEPT !.pc = "accept"]
            \/ manager'[m] = [NewManager EXCEPT !.pc = "accept"]
            \/ manager'[m] = [manager[m] EXCEPT !.pc = "prefetch"]
            \/ manager'[m] = [manager[m] EXCEPT !.pc = "hello", !.hp = Head(backlog[m]), !.read = 0]
        BY <2>1, <3>1 DEF Listen, NoHello, EndControl, Disconnect, Accept, Becomes
      <3>3. manager'[m].pc \in {"accept", "prefetch"}
            \/ (manager'[m].pc = "hello" /\ manager'[m].read = 0)
        <4> DEFINE c == manager[m]
                   g == Head(backlog[m])
        <4>1. c \in ManagerType
          BY <3>1
        <4> HIDE DEF c, g
        <4>2. /\ [c EXCEPT !.pc = "accept"].pc = "accept"
              /\ [c EXCEPT !.pc = "prefetch"].pc = "prefetch"
              /\ [c EXCEPT !.pc = "hello", !.hp = g, !.read = 0].pc = "hello"
              /\ [c EXCEPT !.pc = "hello", !.hp = g, !.read = 0].read = 0
          BY <4>1 DEF ManagerType
        <4> QED
          BY <3>2, <4>2, NewManagerType DEF c, g
      <3> QED
        BY <3>3 DEF Serving
    <2>2. CASE Hello(m)
      <3>1. StartProfile(m, Report(m)) /\ manager[m].pc = "hello" /\ CanRead(m)
        BY <2>2 DEF Hello, Receive, Manage
      <3>2. Report(m) \in Nat
        BY <3>1, ReadFacts DEF Reads
      <3>3. manager'[m].pc = "profile"
        BY <3>1, <3>2, StartProfileFields
      <3> QED
        BY <3>1, <3>2, <3>3, StartEstimate
    <2>3. CASE ProfileSample(m)
      <3>1. /\ manager'[m].pc \in {"profile", "control"} /\ manager'[m].hp = manager[m].hp
        BY <2>3, ProfileFields
      <3> QED
        BY <1>1, <2>3, <3>1, ProfileKeepsEstimate
    <2>4. CASE ControlSample(m) /\ ~NeedsProfile(manager[m].maxRate, Seen(m))
      <3>1. /\ manager'[m].pc = "control" /\ manager'[m].hp = manager[m].hp
        BY <2>4, ControlFields
      <3> QED
        BY <1>1, <2>4, <3>1, ControlKeepsEstimate
    <2>5. CASE ControlSample(m) /\ NeedsProfile(manager[m].maxRate, Seen(m))
      <3> DEFINE e == ControlEstimate(manager[m].maxRate, Seen(m))
      <3>1. StartProfile(m, e) /\ manager[m].pc = "control"
        BY <2>5 DEF ControlSample, Receive, Manage
      <3>2. manager[m].maxRate \in Nat /\ manager[m].window \in [1 .. WindowSize -> Nat]
        BY <3>1 DEF RInv, TypeOK, ManagerType, WindowsFull, Serving
      <3>3. e \in Nat
        BY <3>2, SeenWindow, ControlEstimateBounds
      <3> HIDE DEF e
      <3>4. manager'[m].pc = "profile"
        BY <3>1, <3>3, StartProfileFields
      <3> QED
        BY <3>1, <3>3, <3>4, StartEstimate
    <2> QED
      BY <2>1, <2>2, <2>3, <2>4, <2>5 DEF ManagerStep
  <1> QED
    BY <1>2, <1>3 DEF EInv

LEMMA NextEstimate == RInv /\ EInv /\ [Next]_vars => EInv'
  <1> SUFFICES ASSUME RInv, EInv, [Next]_vars PROVE EInv'
    OBVIOUS
  <1>1. RInv'
    BY NextKeeps
  <1>2. ASSUME UNCHANGED <<manager, hp>> PROVE EInv'
    BY <1>2 DEF EInv, Serving
  <1>3. CASE UNCHANGED vars
    BY <1>2, <1>3 DEF vars, controlVars, socketVars
  <1>4. ASSUME NEW t \in Threads, BeginLaunch(t) \/ PassTest(t) \/ AddBlocks(t) PROVE EInv'
    BY <1>2, <1>4 DEF BeginLaunch, PassTest, AddBlocks, controlVars, socketVars
  <1>5. ASSUME NEW t \in Threads, Initialize(t) PROVE EInv'
    <2> DEFINE i == Min({j \in Helpers : watcher[j].pc = "none"})
    <2>1. manager' = [manager EXCEPT ![i].pc = "listen"] /\ hp' = hp
      BY <1>5 DEF Initialize, socketVars
    <2> HIDE DEF i
    <2>2. manager \in [Helpers -> ManagerType]
      BY DEF RInv, TypeOK
    <2>3. ASSUME NEW m \in Helpers
          PROVE  manager'[m] = manager[m] \/ manager'[m].pc = "listen"
      <3>1. CASE m = i
        BY <2>1, <2>2, <3>1 DEF ManagerType
      <3>2. CASE m # i
        BY <2>1, <2>2, <3>2
      <3> QED
        BY <3>1, <3>2
    <2> QED
      BY <2>1, <2>3 DEF EInv, Serving
  <1>6. ASSUME NEW w \in Helpers, WatcherStep(w) PROVE EInv'
    BY <1>2, <1>6 DEF WatcherStep, StartWatcher, ReadCounter, ClearCounter, Watch,
                      controlVars, socketVars
  <1>7. ASSUME NEW m \in Helpers, ManagerStep(m) PROVE EInv'
    BY <1>1, <1>7, ManagerStepEstimate
  <1>8. ASSUME NEW h \in Hps, HpConnect(h) \/ HpReport(h) \/ HpExit(h) PROVE EInv'
    <2>1. manager' = manager
      BY <1>8 DEF HpConnect, HpReport, HpExit, HpStep, controlVars
    <2>2. \A g \in Hps : hp'[g].trace = hp[g].trace
      <3> DEFINE HpType == [pc : {"new", "connected", "gone"}, trace : Seq(Nat), sent : Nat]
                 c == hp[h]
      <3>1. hp \in [Hps -> HpType] /\ c \in HpType
        BY DEF RInv, TypeOK
      <3>2. \/ hp' = [hp EXCEPT ![h] = [c EXCEPT !.pc = "connected"]]
            \/ hp' = [hp EXCEPT ![h] = [c EXCEPT !.pc = "gone"]]
            \/ hp' = [hp EXCEPT ![h] = [c EXCEPT !.sent = c.sent + 1]]
        BY <1>8 DEF HpConnect, HpReport, HpExit, HpStep
      <3> HIDE DEF c
      <3>3. \E d : hp' = [hp EXCEPT ![h] = d] /\ d.trace = c.trace
        BY <3>1, <3>2
      <3> HIDE DEF HpType
      <3> QED
        BY <3>1, <3>3 DEF c
    <2>3. \A m \in Helpers : Reads(m) => manager[m].hp \in Hps
      BY DEF RInv, ReadsSent
    <2> QED
      BY <2>1, <2>2, <2>3, OthersKeepEstimate DEF EInv
  <1> QED
    BY <1>3, <1>4, <1>5, <1>6, <1>7, <1>8 DEF Next, LaunchStep

LEMMA EstimateKept == Spec => [](RInv /\ EInv)
  <1>1. Init => RInv /\ EInv
    BY InitKeeps DEF Init, NewManager, EInv, Serving
  <1>2. RInv /\ EInv /\ [Next]_vars => RInv' /\ EInv'
    BY NextKeeps, NextEstimate
  <1> QED
    BY <1>1, <1>2, PTL DEF Spec

\* What limit_manager takes for the rate of the HP is never more than the HP
\* reported in this connection, and after a profile not much less than the
\* least rate of the profile, for every sequence of reports.
THEOREM EstimateHolds == Spec => []EstimateWithinReports
  <1>1. RInv /\ EInv => EstimateWithinReports
    <2> SUFFICES ASSUME RInv, EInv, NEW m \in Helpers, Serving(m), manager[m].sample > 0
                 PROVE  /\ manager[m].maxRate <= Max(Reports(m) \union {1})
                        /\ manager[m].pc = "control" /\ manager[m].cnt = 0
                             => 1000 * (manager[m].maxRate + 1) >= 975 * Min(Profile(m))
      BY DEF EstimateWithinReports
    <2> DEFINE c == manager[m]
               f == hp[c.hp].trace
               n == c.read
               x == c.maxRate
    <2>1. EstimateOf(c, f) /\ n \in Nat /\ x \in Nat /\ c.sample \in Nat
          /\ \A i \in 1 .. n : f[i] \in Nat
      BY Traces DEF EInv, Serving, Reads, RInv, TypeOK, ManagerType
    <2>2. Reports(m) = {f[i] : i \in 2 .. n}
          /\ Profile(m) = {f[i] : i \in n - ProfileTime + 1 .. n}
      BY DEF Reports, Profile
    <2>3. Reported(x, f, n) /\ n >= c.sample + 1
      BY <2>1 DEF EstimateOf
    <2>4. c.pc = "control" => c.sample = ProfileTime
      BY <2>1 DEF EstimateOf
    <2>5. c.pc = "control" /\ c.cnt = 0 =>
            \E i \in n - ProfileTime + 1 .. n : 1000 * (x + 1) >= 975 * f[i]
      BY <2>1 DEF EstimateOf
    <2> HIDE DEF c, f, n, x
    <2>6. x <= Max(Reports(m) \cup {1})
      <3> DEFINE S == Reports(m) \cup {1}
      <3>1. IsFiniteSet(Reports(m))
        <4>1. IsFiniteSet(2 .. n)
          BY <2>1, FS_Interval
        <4>2. IsFiniteSet({f[i] : i \in 2 .. n})
          BY <4>1, ImageFinite
        <4> QED
          BY <2>2, <4>2
      <3>2. IsFiniteSet(S)
        BY <3>1, FS_AddElement
      <3>3. Reports(m) \subseteq Nat
        <4>1. \A i \in 2 .. n : i \in 1 .. n
          BY <2>1
        <4> QED
          BY <2>1, <2>2, <4>1
      <3>4. S \subseteq Int /\ S # {} /\ 1 \in S
        BY <3>3
      <3>5. x <= 1 \/ \E y \in Reports(m) : x <= y
        BY <2>2, <2>3 DEF Reported
      <3>6. \E y \in S : x <= y
        BY <3>5
      <3> HIDE DEF S
      <3>7. Max(S) \in S /\ \A y \in S : Max(S) >= y
        BY <3>2, <3>4, MaxOf
      <3>8. x <= Max(S)
        <4>1. PICK y \in S : x <= y
          BY <3>6
        <4>2. x \in Int
          BY <2>1
        <4>3. y \in Int /\ Max(S) \in Int
          BY <3>4, <3>7
        <4>4. Max(S) >= y
          BY <3>7
        <4> QED
          BY <4>1, <4>2, <4>3, <4>4
      <3> QED
        BY <3>8 DEF S
    <2>7. ASSUME c.pc = "control", c.cnt = 0
          PROVE  1000 * (x + 1) >= 975 * Min(Profile(m))
      <3>1. PICK i \in n - ProfileTime + 1 .. n : 1000 * (x + 1) >= 975 * f[i]
        BY <2>5, <2>7
      <3>2. ProfileTime \in Nat /\ n >= ProfileTime + 1
        BY <2>3, <2>4, <2>7, Consts
      <3>3. \A j \in n - ProfileTime + 1 .. n : j \in 1 .. n
        BY <2>1, <3>2
      <3>4. Profile(m) \subseteq Nat /\ f[i] \in Profile(m)
        BY <2>1, <2>2, <3>1, <3>3
      <3> DEFINE S == Profile(m)
                 a == f[i]
      <3>5. S \subseteq Nat /\ S # {} /\ a \in S
        BY <3>4
      <3> HIDE DEF S, a
      <3>6. Min(S) \in S /\ Min(S) <= a
        BY <3>5, MinOf
      <3>7. a \in Nat /\ Min(S) \in Nat /\ 1000 * (x + 1) >= 975 * a
        BY ZenonT(30), <3>1, <3>5, <3>6 DEF a
      <3>8. 1000 * (x + 1) >= 975 * Min(S)
        BY <2>1, <3>6, <3>7
      <3> QED
        BY <3>8 DEF S
    <2> QED
      BY <2>6, <2>7 DEF c, x
  <1> QED
    BY <1>1, EstimateKept, PTL
=============================================================================
