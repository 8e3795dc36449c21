----------------------------- MODULE IdleTiming -----------------------------
(***************************************************************************)
(* How long the high-priority (HP) process stays idle, and what a          *)
(* best-effort (BE) process makes of it: the timing words of the shared    *)
(* segment (activity_tracker.c), their snapshot, and the limits that the   *)
(* gap, time and survival policies derive from it (be_intercept.c).        *)
(*                                                                         *)
(* The HP stores word by word, the BE loads word by word, and nothing      *)
(* orders the two.  A call of the HP is the list of stores it is going to  *)
(* make: what it loads are words that nobody else writes.                  *)
(*                                                                         *)
(* Left to other modules: owner and wake-up (ActivityTracker), the ring,   *)
(* whose total is an input here (BeAdmission).  Left out: the words that   *)
(* no decision reads (last active, active samples and EWMA, generation).   *)
(***************************************************************************)
EXTENDS Integers, Sequences, FiniteSets

CONSTANTS
  Thresholds,    \* g_idle_survival_thresholds_ns, increasing
  GapMinSamples, \* EVENT_BE_GAP_MIN_SAMPLES
  Top,           \* UINT64_MAX
  Environments,  \* settings a BE process can be started with
  Unset,         \* the variable is not set, or is no number
  Costs,         \* predicted durations of a launch
  Loads,         \* predicted durations of what is in flight
  TickLength,    \* bound: how close two readings of the clock can be
  MaxTime,       \* bound: the clock
  LastCall,      \* bound: the HP makes its calls up to this time
  MaxPeriods     \* bound: idle periods an HP measures

Buckets == 1 .. Len(Thresholds)
Longest == Thresholds[Len(Thresholds)]

ASSUME ThresholdAssumption ==
  /\ Thresholds \in Seq(Nat \ {0}) /\ Thresholds # << >>
  /\ \A i, j \in Buckets : i < j => Thresholds[i] < Thresholds[j]
ASSUME NumberAssumption ==
  /\ Top \in Nat /\ GapMinSamples \in Nat /\ Unset \notin Int
  /\ Costs \subseteq 0 .. Top /\ Loads \subseteq 0 .. Top
  /\ TickLength \in 1 .. MaxTime
  /\ MaxTime \in 1 .. Top /\ LastCall \in 1 .. MaxTime /\ MaxPeriods \in Nat
\* What strtoull makes of the variables.  (A time or a budget out of its range
\* is replaced by a default within it; the environment holds the outcome.)
ASSUME EnvironmentAssumption ==
  LET Text == Nat \cup {Unset} IN
  Environments \subseteq
    [policy : {"gap", "time", "survival"}, count : Text, minSamples : Text,
     confidence : Text, promote : Text, gapFraction : Text, window : Text,
     internalWindow : Text, promotedWindow : Text,
     guard : 0 .. Top, coldStart : 1 .. Top, context : 0 .. Top,
     blockBudget : 1 .. Top, timeBudget : 1 .. Top,
     internalBudget : 1 .. Top, promotedBudget : 1 .. Top]

---------------------------------------------------------------------------
(* Configuration: event_be_parse_u64 and event_be_initialize_window. *)

Parsed(value, fallback, least, most) ==
  IF value = Unset \/ value \notin least .. most THEN fallback ELSE value

Partition(total, count) == IF total \div count = 0 THEN 1 ELSE total \div count

Lower(a, b) == IF a < b THEN a ELSE b

\* Defaults are those of the code where they are not times; times are in the
\* unit of Thresholds.
Configured(env) ==
  LET count == Parsed(env.count, 1, 1, 64) IN
  [policy         |-> env.policy,
   minSamples     |-> Parsed(env.minSamples, 32, 1, Top),
   confidence     |-> Parsed(env.confidence, 50, 1, 100),
   promote        |-> Parsed(env.promote, 90, 1, 100),
   gapFraction    |-> Parsed(env.gapFraction, 90, 1, 100),
   guard          |-> env.guard,
   coldStart      |-> env.coldStart,
   context        |-> env.context,
   window         |-> Partition(Parsed(env.window, 1, 1, 64), count),
   blockBudget    |-> Partition(env.blockBudget, count),
   timeBudget     |-> Partition(env.timeBudget, count),
   internalWindow |-> Partition(Parsed(env.internalWindow, 2, 1, 64), count),
   promotedWindow |-> Partition(Parsed(env.promotedWindow, 8, 1, 64), count),
   internalBudget |-> Partition(env.internalBudget, count),
   promotedBudget |-> Partition(env.promotedBudget, count)]

VARIABLES
  config,   \* the g_be_* settings
  now,      \* CLOCK_MONOTONIC
  words,    \* the timing words of the segment
  todo,     \* stores the HP is still to make in its call
  hpc,      \* what the HP is: "out", "idle" or "active" when the call is done
  bpc,      \* where the BE is
  snap,     \* its snapshot, as far as loaded
  episode,  \* g_be_survival_episode_last_idle_ns, and whether
            \* g_be_survival_episode_launches is above zero
  decision, \* the limits it came to
  periods,  \* history: the idle periods of this HP
  torn,     \* history: did the HP store or start a call during the snapshot
  launched  \* history: last_idle_ns as the last launch of the BE saw it

vars == <<config, now, words, todo, hpc, bpc, snap, episode, decision,
          periods, torn, launched>>
hpVars == <<words, todo, hpc, periods>>
beVars == <<bpc, snap, episode, decision, launched>>

---------------------------------------------------------------------------
(* The shared words. *)

NewWords == [state |-> "IDLE", samples |-> 0, lastIdle |-> 0, ewma |-> 0,
             counts |-> [i \in Buckets |-> 0]]

\* update_ewma_ns.
Ewma(previous, sample) ==
  IF previous = 0 THEN sample
  ELSE IF sample >= previous THEN previous + (sample - previous) \div 8
  ELSE previous - (previous - sample) \div 8

\* A store to a word, or to a bucket.
Store(word, value) == [word |-> word, bucket |-> 0, value |-> value]
Count(i, value)    == [word |-> "counts", bucket |-> i, value |-> value]
Clock              == -1     \* the value is read from the clock at the store

Stored(w, s) ==
  CASE s.word = "state"    -> [w EXCEPT !.state = s.value]
    [] s.word = "samples"  -> [w EXCEPT !.samples = s.value]
    [] s.word = "lastIdle" -> [w EXCEPT !.lastIdle = IF s.value = Clock THEN now
                                                     ELSE s.value]
    [] s.word = "ewma"     -> [w EXCEPT !.ewma = s.value]
    [] s.word = "counts"   -> [w EXCEPT !.counts[s.bucket] = s.value]

\* lilt_event_hp_register, for a new owner.
RegisterStores ==
  << Store("samples", 0), Store("lastIdle", Clock), Store("ewma", 0) >>
  \o [i \in Buckets |-> Count(i, 0)]
  \o << Store("state", "IDLE") >>

\* lilt_event_hp_mark_active: the idle period that ends is measured first.
\* It counts in the first buckets, as thresholds increase.
Outlasted(duration) == Cardinality({i \in Buckets : duration > Thresholds[i]})

MeasureStoresShort(duration) == \* mutant: the last bucket is left out
  << Store("ewma", Ewma(words.ewma, duration)) >>
  \o [n \in 1 .. Outlasted(duration) - 1 |-> Count(n, words.counts[n] + 1)]
  \o << Store("samples", words.samples + 1) >>
MeasureStores(duration) ==
  << Store("ewma", Ewma(words.ewma, duration)) >>
  \o [n \in 1 .. Outlasted(duration) |-> Count(n, words.counts[n] + 1)]
  \o << Store("samples", words.samples + 1) >>

Measured == words.lastIdle # 0 /\ now > words.lastIdle

HpCall(stores, next) ==
  /\ todo = << >> /\ now <= LastCall
  /\ todo' = stores
  /\ hpc' = next
  /\ torn' = TRUE
  /\ UNCHANGED <<config, now, words, beVars>>

Register ==
  /\ hpc = "out"
  /\ HpCall(RegisterStores, "idle")
  /\ periods' = << >>

MarkActive ==
  /\ hpc = "idle" /\ Len(periods) < MaxPeriods
  /\ HpCall((IF Measured THEN MeasureStores(now - words.lastIdle) ELSE << >>)
              \o << Store("state", "ACTIVE") >>, "active")
  /\ periods' = IF Measured THEN Append(periods, now - words.lastIdle) ELSE periods

MarkIdle ==
  /\ hpc = "active"
  /\ HpCall(<< Store("lastIdle", now), Store("state", "IDLE") >>, "idle")
  /\ UNCHANGED periods

\* lilt_event_hp_unregister leaves the timing words as they are.
Unregister ==
  /\ hpc \in {"idle", "active"}
  /\ HpCall(<< Store("state", "IDLE") >>, "out")
  /\ UNCHANGED periods

HpStore ==
  /\ todo # << >>
  /\ words' = Stored(words, Head(todo))
  /\ todo' = Tail(todo)
  /\ torn' = TRUE
  /\ UNCHANGED <<config, now, hpc, periods, beVars>>

\* The HP is killed between two stores, and a BE process reclaims the segment:
\* only the state word is put right.  (Killed between two calls, it leaves what
\* Unregister leaves.)
HpCrash ==
  /\ todo # << >>
  /\ hpc' = "out" /\ todo' = << >>
  /\ words' = [words EXCEPT !.state = "IDLE"]
  /\ torn' = TRUE
  /\ UNCHANGED <<config, now, periods, beVars>>

Tick ==
  /\ now + TickLength <= MaxTime
  /\ todo # << >> => now < LastCall
  /\ now' = now + TickLength
  /\ UNCHANGED <<config, hpVars, beVars, torn>>

---------------------------------------------------------------------------
(* lilt_event_hp_timing_snapshot, one word at a time. *)

LoadOrder == << "state", "samples", "lastIdle", "ewma" >>
NoDecision == [kind |-> "none", window |-> 1, budget |-> 1, context |-> 0,
               elapsed |-> 0, cost |-> 0, load |-> 0]

BeginSnapshot ==
  /\ bpc' = 1
  /\ snap' = NewWords
  /\ decision' = NoDecision
  /\ torn' = (todo # << >>)

\* A launch of the BE under a policy that looks at the timing.
Ask ==
  /\ bpc = 0
  /\ BeginSnapshot
  /\ UNCHANGED <<config, now, hpVars, episode, launched>>

LoadWord ==
  /\ bpc \in 1 .. Len(LoadOrder) + Len(Thresholds)
  /\ bpc' = bpc + 1
  /\ snap' = IF bpc <= Len(LoadOrder)
             THEN [snap EXCEPT ![LoadOrder[bpc]] = words[LoadOrder[bpc]]]
             ELSE [snap EXCEPT !.counts[bpc - Len(LoadOrder)] =
                                 words.counts[bpc - Len(LoadOrder)]]
  /\ UNCHANGED <<config, now, hpVars, episode, decision, torn, launched>>

Loaded == bpc = Len(LoadOrder) + Len(Thresholds) + 1

Elapsed == IF now > snap.lastIdle THEN now - snap.lastIdle ELSE 0

\* event_be_add_saturating.
Saturating(a, b) == IF Top - a < b THEN Top ELSE a + b

---------------------------------------------------------------------------
(* The gap and time policies. *)

GapKnown ==
  /\ snap.state = "IDLE" /\ snap.samples >= GapMinSamples
  /\ snap.ewma > 0 /\ snap.lastIdle > 0

Remaining ==
  LET consumed == Saturating(Elapsed, config.guard) IN
  IF consumed < snap.ewma THEN snap.ewma - consumed ELSE 0

AtLeastOne(budget) == IF budget = 0 THEN 1 ELSE budget

\* event_be_effective_block_budget_locked.  (The code computes in double, so
\* that a product may come out one below its floor.)
EffectiveBlockBudgetZero ==    \* mutant: no lower bound
  IF ~GapKnown THEN config.blockBudget
  ELSE (config.blockBudget * Remaining * config.gapFraction)
         \div (snap.ewma * 100)
EffectiveBlockBudget ==
  IF ~GapKnown THEN config.blockBudget
  ELSE AtLeastOne((config.blockBudget * Remaining * config.gapFraction)
                    \div (snap.ewma * 100))

\* event_be_effective_time_budget_locked.
EffectiveTimeBudget ==
  IF ~GapKnown THEN config.timeBudget
  ELSE AtLeastOne(Lower(config.timeBudget,
                        (Remaining * config.gapFraction) \div 100))

DecideGap ==
  /\ Loaded /\ config.policy \in {"gap", "time"}
  /\ decision' = [NoDecision EXCEPT
       !.kind = "limit", !.window = config.window,
       !.budget = IF config.policy = "gap" THEN EffectiveBlockBudget
                  ELSE EffectiveTimeBudget]
  /\ bpc' = -1
  /\ UNCHANGED <<config, now, hpVars, snap, episode, torn, launched>>

---------------------------------------------------------------------------
(* The survival policy. *)

\* event_be_survival_denominator: the idle periods that lasted to the longest
\* threshold already passed.
Denominator(elapsed) ==
  LET passed == {i \in Buckets : Thresholds[i] <= elapsed} IN
  IF passed = {} THEN snap.samples ELSE snap.counts[Cardinality(passed)]

\* event_be_survival_numerator: those that lasted to the next threshold at or
\* above the target; none when the target is beyond them all.
NumeratorBelow(target) ==      \* mutant: rounded to the threshold below
  LET below == {i \in Buckets : Thresholds[i] < target} IN
  IF below = {} THEN snap.counts[1] ELSE snap.counts[Cardinality(below)]
Numerator(target) ==
  LET below == {i \in Buckets : Thresholds[i] < target} IN
  IF below = Buckets THEN 0 ELSE snap.counts[Cardinality(below) + 1]

\* event_be_survival_probability_pct.
Probability(elapsed, additional) ==
  LET denominator == Denominator(elapsed) IN
  IF denominator = 0 THEN 0
  ELSE Lower(100, (100 * Numerator(Saturating(elapsed, additional)))
                    \div denominator)

\* The episode the snapshot belongs to.
EpisodeNow ==
  IF snap.lastIdle = episode.lastIdle THEN episode
  ELSE [lastIdle |-> snap.lastIdle, begun |-> FALSE]

Context == IF EpisodeNow.begun THEN 0 ELSE config.context

\* event_be_survival_admission_locked, after its early return.
Ready      == snap.samples >= config.minSamples
RowReady   == Ready /\ Denominator(Elapsed) >= config.minSamples
VeryLong   == Elapsed >= Longest
Cold       == ~Ready /\ Elapsed >= config.coldStart
SparseTail == Ready /\ ~RowReady /\ Elapsed >= config.coldStart

Odds(cost, load) ==
  Probability(Elapsed,
    Saturating(Saturating(Context, Saturating(load, cost)), config.guard))
PromotedOdds(load) ==
  Probability(Elapsed,
    Saturating(Context, Saturating(load, config.promotedBudget)))

ByOdds(cost, load)   == RowReady /\ Odds(cost, load) >= config.confidence
Promoted(load) == VeryLong \/ (RowReady /\ PromotedOdds(load) >= config.promote)

AdmittedNeverOld(cost, load) == \* mutant: age is no reason
  Cold \/ SparseTail \/ ByOdds(cost, load)
Admitted(cost, load) == VeryLong \/ Cold \/ SparseTail \/ ByOdds(cost, load)

Readable == snap.state = "IDLE" /\ snap.lastIdle # 0

\* cost is g_be_current_predicted_ns, load is g_be_outstanding_predicted_ns.
Admit(cost, load) ==
  /\ Loaded /\ config.policy = "survival"
  /\ Readable /\ Admitted(cost, load)
  /\ episode' = EpisodeNow
  /\ decision' =
       [kind    |-> IF VeryLong \/ Cold \/ SparseTail THEN "age" ELSE "odds",
        window  |-> Lower(config.window, IF Promoted(load) THEN config.promotedWindow
                                         ELSE config.internalWindow),
        budget  |-> IF Promoted(load) THEN config.promotedBudget
                    ELSE config.internalBudget,
        context |-> Context, elapsed |-> Elapsed,
        cost |-> cost, load |-> load]
  /\ bpc' = -1
  /\ UNCHANGED <<config, now, hpVars, snap, torn, launched>>

\* The BE retires a launch or sleeps, and asks again.  (For which launch is
\* left open: the request has no cost until it is decided.)
Reject(cost, load) ==
  /\ Loaded /\ config.policy = "survival"
  /\ ~(Readable /\ Admitted(cost, load))
  /\ episode' = IF Readable THEN EpisodeNow ELSE episode
  /\ BeginSnapshot
  /\ UNCHANGED <<config, now, hpVars, launched>>

\* The launch succeeds, and event_be_after_launch counts it.  (The count of a
\* uint32_t is taken as above zero from the first launch on.)
Launch ==
  /\ bpc = -1
  /\ IF config.policy = "survival"
     THEN episode' = [episode EXCEPT !.begun = TRUE] /\ launched' = snap.lastIdle
     ELSE UNCHANGED <<episode, launched>>
  /\ bpc' = 0
  /\ snap' = NewWords /\ decision' = NoDecision
  /\ torn' = FALSE
  /\ UNCHANGED <<config, now, hpVars>>

\* The driver refuses it.
LaunchFails ==
  /\ bpc = -1
  /\ bpc' = 0
  /\ snap' = NewWords /\ decision' = NoDecision
  /\ torn' = FALSE
  /\ UNCHANGED <<config, now, hpVars, episode, launched>>

BeWork ==
  \/ LoadWord \/ DecideGap
  \/ \E cost \in Costs, load \in Loads : Admit(cost, load) \/ Reject(cost, load)
  \/ Launch \/ LaunchFails

Init ==
  /\ config \in {Configured(env) : env \in Environments}
  /\ now = TickLength
  /\ words = NewWords /\ todo = << >> /\ hpc = "out"
  /\ bpc = 0 /\ snap = NewWords /\ decision = NoDecision
  /\ episode = [lastIdle |-> 0, begun |-> FALSE]
  /\ periods = << >> /\ torn = FALSE /\ launched = 0

Next ==
  \/ Register \/ MarkActive \/ MarkIdle \/ Unregister \/ HpStore \/ HpCrash
  \/ Tick
  \/ Ask
  \/ BeWork

Spec == Init /\ [][Next]_vars

\* Time passes, a call of the HP runs to its end and so does one of the BE;
\* nothing makes the HP call or die, or the BE launch.
Fairness == WF_vars(Tick) /\ WF_vars(HpStore) /\ WF_vars(BeWork)

LiveSpec == Spec /\ Fairness

---------------------------------------------------------------------------
(* Properties. *)

\* The variables have their types; the counts of a snapshot are those of some
\* moment each.
TypeOK ==
  /\ now \in 1 .. MaxTime
  /\ words.samples \in 0 .. MaxPeriods
  /\ words.lastIdle \in 0 .. now
  /\ words.ewma \in 0 .. MaxTime
  /\ words.counts \in [Buckets -> 0 .. MaxPeriods]
  /\ snap.counts \in [Buckets -> 0 .. MaxPeriods]
  /\ hpc \in {"out", "idle", "active"}
  /\ bpc \in -1 .. Len(LoadOrder) + Len(Thresholds) + 1
  /\ episode.lastIdle \in 0 .. now
  /\ Len(periods) <= MaxPeriods

Longer(duration) == Cardinality({n \in DOMAIN periods : periods[n] > duration})

\* Between two calls of a registered HP the histogram is exact: as many samples
\* as idle periods it has measured since it registered, whatever an earlier HP
\* left behind, and in each bucket those that outlasted its threshold.
HistogramExact ==
  todo = << >> /\ hpc # "out" =>
    /\ words.samples = Len(periods)
    /\ \A i \in Buckets : words.counts[i] = Longer(Thresholds[i])

\* The moving average stays between the shortest and the longest idle period,
\* for all its integer divisions.
EwmaWithinPeriods ==
  todo = << >> /\ hpc # "out" /\ periods # << >> =>
    \E i, j \in DOMAIN periods : periods[i] <= words.ewma /\ words.ewma <= periods[j]

\* The types, and the statistics (mark_active, mark_idle) as of the periods
\* they were made from.
StatisticsExact == TypeOK /\ HistogramExact /\ EwmaWithinPeriods

\* What BeAdmission takes for granted: whatever the snapshot, torn or not, the
\* limits are the ones its EffectiveLimits and SurvivalAdmission choose from,
\* and never zero.
LimitsAsAdmissionExpects ==
  bpc = -1 =>
    /\ decision.window \in 1 .. config.window
    /\ config.policy = "gap" => decision.budget \in 1 .. config.blockBudget
    /\ config.policy = "time" => decision.budget \in 1 .. config.timeBudget
    /\ config.policy = "survival" =>
         \/ decision.budget = config.internalBudget
              /\ decision.window = Lower(config.internalWindow, config.window)
         \/ decision.budget = config.promotedBudget
              /\ decision.window = Lower(config.promotedWindow, config.window)

\* A snapshot the HP did not run into never makes an idle period look longer
\* than it was: a launch admitted by the histogram ends, if the prediction
\* holds, within the share of past periods the configuration asks for, and the
\* first launch in a period pays for the switch of context.
OddsAreConservative ==
  bpc = -1 /\ decision.kind = "odds" /\ ~torn =>
    LET context == IF snap.lastIdle # launched THEN config.context ELSE 0
        target == decision.elapsed + context + decision.load
                    + decision.cost + config.guard
    IN 100 * Longer(target) >= config.confidence * Longer(decision.elapsed)


\* The survival policy holds no launch back for ever: once an HP that has
\* registered stays idle, or has left, every request is admitted.
RequestsAreAdmitted ==
  <>[](words.state = "IDLE" /\ words.lastIdle # 0 /\ todo = << >>) =>
    ((bpc > 0) ~> (bpc = -1))
============================================================================
