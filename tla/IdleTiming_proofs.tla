------------------------- MODULE IdleTiming_proofs -------------------------
(***************************************************************************)
(* Theorems about IdleTiming, for every number of buckets, periods, costs  *)
(* and configurations, and an HP killed between any two of its stores: the *)
(* statistics are those of the idle periods, the limits are the ones       *)
(* BeAdmission expects, and the survival odds are never overestimated.     *)
(*                                                                         *)
(* The argument: the stores an HP is still to make lead to the statistics  *)
(* of its periods (Finals), so what a killed HP leaves behind lacks at     *)
(* most the last period, which is then shorter than the time since the     *)
(* HP became idle (Near); a snapshot nobody ran into is what the words     *)
(* are (Whole).                                                            *)
(***************************************************************************)
EXTENDS IdleTiming, SumTheorems, FiniteSetTheorems, TLAPS

USE NumberAssumption

---------------------------------------------------------------------------
(* Sequences and counts. *)

Elements(s) == {s[n] : n \in DOMAIN s}

\* A list that is the sum of two has the elements of both.
LEMMA ConcatElements ==
  ASSUME NEW S, NEW a \in Seq(S), NEW b \in Seq(S)
  PROVE  a \o b \in Seq(S) /\ Elements(a \o b) = Elements(a) \cup Elements(b)
  <1> DEFINE c == a \o b
  <1>1. c \in Seq(S) /\ Len(c) = Len(a) + Len(b)
        /\ Len(a) \in Nat /\ Len(b) \in Nat
    OBVIOUS
  <1>2. DOMAIN a = 1 .. Len(a) /\ DOMAIN b = 1 .. Len(b) /\ DOMAIN c = 1 .. Len(a) + Len(b)
    BY <1>1
  <1>3. \A n \in DOMAIN c : c[n] = IF n <= Len(a) THEN a[n] ELSE b[n - Len(a)]
    BY <1>2
  <1> HIDE DEF c
  <1>4. \A n \in DOMAIN a : n \in DOMAIN c /\ c[n] = a[n]
    BY <1>1, <1>2, <1>3
  <1>5. \A n \in DOMAIN b : n + Len(a) \in DOMAIN c /\ c[n + Len(a)] = b[n]
    BY <1>1, <1>2, <1>3
  <1>6. \A n \in DOMAIN c : n \in DOMAIN a \/ (n - Len(a) \in DOMAIN b /\ n > Len(a))
    BY <1>1, <1>2
  <1>7. Elements(c) \subseteq Elements(a) \cup Elements(b)
    BY <1>1, <1>2, <1>3, <1>6 DEF Elements
  <1>8. Elements(a) \subseteq Elements(c) /\ Elements(b) \subseteq Elements(c)
    BY <1>4, <1>5 DEF Elements
  <1> QED
    BY <1>1, <1>7, <1>8 DEF c

\* A list is its first element and the rest.
LEMMA HeadTail ==
  ASSUME NEW S, NEW s \in Seq(S), s # << >>
  PROVE  /\ Tail(s) \in Seq(S) /\ Head(s) \in S
         /\ Elements(s) = {Head(s)} \cup Elements(Tail(s))
  <1> DEFINE t == Tail(s)
             h == Head(s)
  <1>1. Len(s) \in Nat \ {0} /\ t \in Seq(S) /\ Len(t) = Len(s) - 1
    OBVIOUS
  <1>2. h = s[1] /\ DOMAIN s = 1 .. Len(s) /\ DOMAIN t = 1 .. Len(s) - 1
    BY <1>1
  <1>3. \A n \in DOMAIN t : t[n] = s[n + 1]
    BY <1>1, <1>2
  <1> HIDE DEF t, h
  <1>4. \A n \in DOMAIN t : n + 1 \in DOMAIN s
    BY <1>1, <1>2
  <1>5. \A n \in DOMAIN s : n = 1 \/ n - 1 \in DOMAIN t
    BY <1>1, <1>2
  <1>6. 1 \in DOMAIN s
    BY <1>1, <1>2
  <1>7. \A n \in DOMAIN s : s[n] = h \/ \E m \in DOMAIN t : s[n] = t[m]
    <2> SUFFICES ASSUME NEW n \in DOMAIN s, n # 1 PROVE \E m \in DOMAIN t : s[n] = t[m]
      BY <1>2
    <2>1. n - 1 \in DOMAIN t /\ (n - 1) + 1 = n
      BY <1>1, <1>2, <1>5
    <2> QED
      BY <2>1, <1>3
  <1>8. Elements(s) = {h} \cup Elements(t)
    BY <1>2, <1>3, <1>4, <1>6, <1>7 DEF Elements
  <1>9. h \in S
    BY <1>2, <1>6
  <1> QED
    BY <1>1, <1>8, <1>9 DEF t, h

LEMMA NoElements == Elements(<< >>) = {}
  BY DEF Elements

\* Buckets that are the first ones are as many as the last of them says.
LEMMA FirstBuckets ==
  ASSUME NEW n \in Nat, NEW P, P \subseteq 1 .. n,
         \A i \in P : \A j \in 1 .. n : j <= i => j \in P
  PROVE  Cardinality(P) \in 0 .. n /\ P = 1 .. Cardinality(P)
  <1> DEFINE G == {k \in Nat : 1 .. k \subseteq P}
             Steps == \A k \in Nat : k \in G => k + 1 \in G
             H == \E m \in 0 .. n : P = 1 .. m
  <1>1. PICK k \in 0 .. n : P = 1 .. k
    <2>1. ASSUME Steps PROVE H
      <3>1. 0 \in G
        OBVIOUS
      <3> HIDE DEF G
      <3>2. Nat \subseteq G
        BY <2>1, <3>1, NatInduct
      <3>3. n \in G
        BY <3>2
      <3>4. P = 1 .. n
        BY <3>3 DEF G
      <3> QED
        BY <3>4
    <2>2. ASSUME NEW k \in Nat, k \in G, k + 1 \notin G PROVE H
      <3>1. 1 .. k \subseteq P
        BY <2>2
      <3>2. k + 1 \notin P
        <4> SUFFICES ASSUME k + 1 \in P PROVE 1 .. k + 1 \subseteq P
          BY <2>2
        <4>1. \A j \in 1 .. k + 1 : j \in 1 .. k \/ j = k + 1
          OBVIOUS
        <4> QED
          BY <3>1, <4>1
      <3>3. k <= n
        <4> SUFFICES ASSUME k > n PROVE FALSE
          OBVIOUS
        <4>1. n + 1 \in 1 .. k /\ n + 1 \notin 1 .. n
          OBVIOUS
        <4> QED
          BY <3>1, <4>1
      <3>4. ASSUME NEW i \in P PROVE i \in 1 .. k
        <4> SUFFICES ASSUME i > k PROVE FALSE
          OBVIOUS
        <4>1. i \in 1 .. n /\ k + 1 \in 1 .. n /\ k + 1 <= i
          OBVIOUS
        <4> QED
          BY <3>2, <4>1
      <3>5. P = 1 .. k
        BY <3>1, <3>4
      <3>6. k \in 0 .. n
        BY <3>3
      <3> QED
        BY <3>5, <3>6
    <2>3. Steps \/ \E k \in Nat : k \in G /\ k + 1 \notin G
      OBVIOUS
    <2> HIDE DEF G, Steps
    <2>4. H
      <3> HIDE DEF H
      <3> QED  BY <2>1, <2>2, <2>3
    <2> QED
      BY <2>4
  <1>2. Cardinality(1 .. k) = k
    BY FS_Interval
  <1> QED
    BY <1>1, <1>2

\* The periods that are longer than d.
Over(p, d) == {n \in DOMAIN p : p[n] > d}

LEMMA OverCount ==
  ASSUME NEW p \in Seq(Nat), NEW d \in Int
  PROVE  /\ IsFiniteSet(Over(p, d))
         /\ Cardinality(Over(p, d)) \in Nat /\ Cardinality(Over(p, d)) <= Len(p)
  <1> DEFINE k == Len(p)
  <1>1. DOMAIN p = 1 .. k /\ k \in Nat
    OBVIOUS
  <1> HIDE DEF k
  <1>2. IsFiniteSet(1 .. k) /\ Cardinality(1 .. k) = k
    BY <1>1, FS_Interval
  <1>3. Over(p, d) \subseteq 1 .. k
    BY <1>1 DEF Over
  <1>4. IsFiniteSet(Over(p, d)) /\ Cardinality(Over(p, d)) <= k
    BY <1>2, <1>3, FS_Subset
  <1>5. Cardinality(Over(p, d)) \in Nat
    BY <1>4, FS_CardinalityType
  <1> QED
    BY <1>1, <1>4, <1>5 DEF k

\* The longer the duration, the fewer periods outlast it.
LEMMA OverShrinks ==
  ASSUME NEW p \in Seq(Nat), NEW d \in Int, NEW e \in Int, d <= e
  PROVE  Cardinality(Over(p, e)) <= Cardinality(Over(p, d))
  <1>1. \A n \in DOMAIN p : p[n] \in Nat
    OBVIOUS
  <1>2. Over(p, e) \subseteq Over(p, d)
    BY <1>1 DEF Over
  <1> QED
    BY <1>2, OverCount, FS_Subset

\* Without its last period, of which it is known that it is no longer than e,
\* a list has as many periods over e, and one less than it has over a d that
\* the last period outlasts.
LEMMA OverWithoutLast ==
  ASSUME NEW p \in Seq(Nat), p # << >>, NEW d \in Int, NEW e \in Int, d <= e,
         p[Len(p)] > d, p[Len(p)] <= e
  PROVE  Cardinality(Over(p, e)) + 1 <= Cardinality(Over(p, d))
  <1> DEFINE k == Len(p)
             O == Over(p, d)
             L == Over(p, e)
  <1>1. k \in DOMAIN p /\ \A n \in DOMAIN p : p[n] \in Nat
    OBVIOUS
  <1>2. k \in O /\ k \notin L /\ L \subseteq O
    BY <1>1 DEF Over
  <1>3. IsFiniteSet(O) /\ Cardinality(O) \in Nat
    BY OverCount
  <1> HIDE DEF k, O, L
  <1>4. Cardinality(O \ {k}) = Cardinality(O) - 1 /\ IsFiniteSet(O \ {k})
    BY <1>2, <1>3, FS_RemoveElement
  <1>5. Cardinality(L) <= Cardinality(O \ {k})
    BY <1>2, <1>4, FS_Subset
  <1>6. Cardinality(L) \in Int
    BY OverCount DEF L
  <1> QED
    BY <1>3, <1>4, <1>5, <1>6 DEF L, O

\* A new period counts where it is longer.
LEMMA OverAppend ==
  ASSUME NEW p \in Seq(Nat), NEW x \in Nat, NEW d \in Int
  PROVE  Cardinality(Over(Append(p, x), d)) =
           IF x > d THEN Cardinality(Over(p, d)) + 1 ELSE Cardinality(Over(p, d))
  <1> DEFINE q == Append(p, x)
             k == Len(p) + 1
  <1>1. DOMAIN p = 1 .. Len(p) /\ DOMAIN q = 1 .. k /\ Len(p) \in Nat /\ k \in Nat
    OBVIOUS
  <1>2. q[k] = x /\ \A n \in DOMAIN p : n \in DOMAIN q /\ q[n] = p[n]
    OBVIOUS
  <1>3. \A n \in DOMAIN q : n = k \/ n \in DOMAIN p
    BY <1>1
  <1>4. k \in DOMAIN q /\ k \notin DOMAIN p
    BY <1>1
  <1> HIDE DEF q, k
  <1>5. Over(q, d) = IF x > d THEN Over(p, d) \cup {k} ELSE Over(p, d)
    BY <1>2, <1>3, <1>4 DEF Over
  <1>6. k \notin Over(p, d)
    BY <1>4 DEF Over
  <1>7. IsFiniteSet(Over(p, d))
    BY OverCount
  <1>8. Cardinality(Over(p, d) \cup {k}) = Cardinality(Over(p, d)) + 1
    BY <1>6, <1>7, FS_AddElement
  <1> QED
    BY <1>5, <1>8 DEF q

---------------------------------------------------------------------------
(* The stores of the HP. *)

Stores ==
  [word : {"state", "samples", "lastIdle", "ewma", "counts"},
   bucket : 0 .. Len(Thresholds), value : Int \cup {"IDLE", "ACTIVE"}]

\* A store is for a word that has its type, now or at a later time.
Fits(s, time) ==
  /\ s.word # "counts"   => s.bucket = 0
  /\ s.word = "counts"   => s.bucket \in Buckets /\ s.value \in 0 .. MaxPeriods
  /\ s.word = "state"    => s.value \in {"IDLE", "ACTIVE"}
  /\ s.word = "samples"  => s.value \in 0 .. MaxPeriods
  /\ s.word = "lastIdle" => s.value = Clock \/ s.value \in 0 .. time
  /\ s.word = "ewma"     => s.value \in 0 .. MaxTime

WordType(time) ==
  [state : {"IDLE", "ACTIVE"}, samples : 0 .. MaxPeriods, lastIdle : 0 .. time,
   ewma : 0 .. MaxTime, counts : [Buckets -> 0 .. MaxPeriods]]

LEMMA BucketsType ==
  /\ Len(Thresholds) \in Nat /\ Buckets = 1 .. Len(Thresholds) /\ Buckets # {}
  /\ \A i \in Buckets : Thresholds[i] \in Nat \ {0}
  /\ \A i, j \in Buckets : j <= i => Thresholds[j] <= Thresholds[i]
  <1>1. Thresholds \in Seq(Nat \ {0}) /\ Thresholds # << >>
    BY ThresholdAssumption
  <1>2. /\ Len(Thresholds) \in Nat /\ Buckets = 1 .. Len(Thresholds) /\ Buckets # {}
        /\ \A i \in Buckets : Thresholds[i] \in Nat \ {0}
    BY <1>1 DEF Buckets
  <1>3. ASSUME NEW i \in Buckets, NEW j \in Buckets, j <= i
        PROVE  Thresholds[j] <= Thresholds[i]
    <2>1. CASE j = i
      BY <1>2, <2>1
    <2>2. CASE j # i
      <3>1. j < i
        BY <1>2, <1>3, <2>2
      <3>2. Thresholds[j] < Thresholds[i]
        BY <3>1, ThresholdAssumption
      <3> QED
        BY <1>2, <3>2
    <2> QED
      BY <2>1, <2>2
  <1> QED
    BY <1>2, <1>3

\* A store writes one word or bucket.
LEMMA StoredWord ==
  ASSUME NEW w \in WordType(now), NEW s \in Stores, Fits(s, now), now \in Nat
  PROVE  /\ Stored(w, s) \in WordType(now)
         /\ Stored(w, s).samples = IF s.word = "samples" THEN s.value ELSE w.samples
         /\ Stored(w, s).ewma = IF s.word = "ewma" THEN s.value ELSE w.ewma
         /\ s.word # "lastIdle" => Stored(w, s).lastIdle = w.lastIdle
         /\ \A i \in Buckets : Stored(w, s).counts[i] =
              IF s.word = "counts" /\ s.bucket = i THEN s.value ELSE w.counts[i]
  <1>1. CASE s.word = "state"
    BY <1>1 DEF Stored, WordType, Fits
  <1>2. CASE s.word = "samples"
    BY <1>2 DEF Stored, WordType, Fits
  <1>3. CASE s.word = "lastIdle"
    <2>1. (IF s.value = Clock THEN now ELSE s.value) \in 0 .. now
      BY <1>3 DEF Fits
    <2>2. Stored(w, s) = [w EXCEPT !.lastIdle = IF s.value = Clock THEN now ELSE s.value]
      BY <1>3 DEF Stored
    <2> QED
      BY <1>3, <2>1, <2>2 DEF WordType
  <1>4. CASE s.word = "ewma"
    BY <1>4 DEF Stored, WordType, Fits
  <1>5. CASE s.word = "counts"
    <2>1. s.bucket \in Buckets /\ s.value \in 0 .. MaxPeriods
      BY <1>5 DEF Fits
    <2>2. Stored(w, s) = [w EXCEPT !.counts[s.bucket] = s.value]
      BY <1>5 DEF Stored
    <2>3. [w.counts EXCEPT ![s.bucket] = s.value] \in [Buckets -> 0 .. MaxPeriods]
      BY <2>1 DEF WordType
    <2>4. Stored(w, s).counts = [w.counts EXCEPT ![s.bucket] = s.value]
      BY <2>2 DEF WordType
    <2>5. \A i \in Buckets : Stored(w, s).counts[i] =
            IF s.bucket = i THEN s.value ELSE w.counts[i]
      BY <2>1, <2>4 DEF WordType
    <2>6. Stored(w, s) \in WordType(now)
      BY <2>2, <2>3 DEF WordType
    <2>7. /\ Stored(w, s).samples = w.samples /\ Stored(w, s).ewma = w.ewma
          /\ Stored(w, s).lastIdle = w.lastIdle
      BY <2>2 DEF WordType
    <2> QED
      BY <1>5, <2>5, <2>6, <2>7
  <1> QED
    BY <1>1, <1>2, <1>3, <1>4, <1>5 DEF Stores

LEMMA StoresMade ==
  /\ Store("samples", 0) \in Stores /\ Store("lastIdle", Clock) \in Stores
  /\ Store("ewma", 0) \in Stores
  /\ \A v \in {"IDLE", "ACTIVE"} : Store("state", v) \in Stores
  /\ \A v \in Int : /\ Store("ewma", v) \in Stores /\ Store("samples", v) \in Stores
                    /\ Store("lastIdle", v) \in Stores
                    /\ \A i \in Buckets : Count(i, v) \in Stores
  BY BucketsType DEF Store, Count, Stores, Clock

LEMMA OneElement == \A x \in Stores : << x >> \in Seq(Stores) /\ Elements(<< x >>) = {x}
  BY DEF Elements

LEMMA TwoElements ==
  \A x, y \in Stores : << x, y >> \in Seq(Stores) /\ Elements(<< x, y >>) = {x, y}
  <1> SUFFICES ASSUME NEW x \in Stores, NEW y \in Stores
               PROVE  << x, y >> \in Seq(Stores) /\ Elements(<< x, y >>) = {x, y}
    OBVIOUS
  <1>1. DOMAIN << x, y >> = {1, 2}
    OBVIOUS
  <1> QED
    BY <1>1 DEF Elements

LEMMA ThreeElements ==
  \A x, y, z \in Stores :
    << x, y, z >> \in Seq(Stores) /\ Elements(<< x, y, z >>) = {x, y, z}
  <1> SUFFICES ASSUME NEW x \in Stores, NEW y \in Stores, NEW z \in Stores
               PROVE  << x, y, z >> \in Seq(Stores) /\ Elements(<< x, y, z >>) = {x, y, z}
    OBVIOUS
  <1>1. DOMAIN << x, y, z >> = {1, 2, 3}
    OBVIOUS
  <1> QED
    BY <1>1 DEF Elements

LEMMA ListElements ==
  ASSUME NEW k \in Nat, NEW f \in [1 .. k -> Stores]
  PROVE  f \in Seq(Stores) /\ Elements(f) = {f[i] : i \in 1 .. k}
  BY DEF Elements

\* A new owner clears every word.
LEMMA RegisterList ==
  /\ RegisterStores \in Seq(Stores)
  /\ Elements(RegisterStores) =
       {Store("samples", 0), Store("lastIdle", Clock), Store("ewma", 0),
        Store("state", "IDLE")} \cup {Count(i, 0) : i \in Buckets}
  <1> DEFINE a == << Store("samples", 0), Store("lastIdle", Clock), Store("ewma", 0) >>
             b == [i \in Buckets |-> Count(i, 0)]
             c == << Store("state", "IDLE") >>
  <1>1. a \in Seq(Stores) /\ Elements(a) =
          {Store("samples", 0), Store("lastIdle", Clock), Store("ewma", 0)}
    BY StoresMade, ThreeElements
  <1>2. b \in Seq(Stores) /\ Elements(b) = {Count(i, 0) : i \in Buckets}
    <2>1. b \in [1 .. Len(Thresholds) -> Stores] /\ Len(Thresholds) \in Nat
      BY StoresMade, BucketsType
    <2>2. \A i \in Buckets : b[i] = Count(i, 0)
      OBVIOUS
    <2> HIDE DEF b
    <2>3. b \in Seq(Stores) /\ Elements(b) = {b[i] : i \in 1 .. Len(Thresholds)}
      BY <2>1, ListElements
    <2> QED
      BY <2>2, <2>3, BucketsType
  <1>3. c \in Seq(Stores) /\ Elements(c) = {Store("state", "IDLE")}
    BY StoresMade, OneElement
  <1>4. RegisterStores = a \o b \o c
    BY DEF RegisterStores
  <1> HIDE DEF a, b, c
  <1>5. a \o b \in Seq(Stores) /\ Elements(a \o b) = Elements(a) \cup Elements(b)
    BY <1>1, <1>2, ConcatElements
  <1> DEFINE ab == a \o b
  <1>6. ab \in Seq(Stores)
    BY <1>5
  <1>7. ab \o c \in Seq(Stores) /\ Elements(ab \o c) = Elements(ab) \cup Elements(c)
    <2> HIDE DEF ab
    <2> QED  BY <1>3, <1>6, ConcatElements
  <1> QED
    BY <1>1, <1>2, <1>3, <1>4, <1>5, <1>7

\* What outlasts a threshold outlasts those before it.
LEMMA OutlastedFirst ==
  ASSUME NEW d \in Int
  PROVE  /\ Outlasted(d) \in 0 .. Len(Thresholds)
         /\ \A i \in Buckets : d > Thresholds[i] <=> i \in 1 .. Outlasted(d)
         /\ Outlasted(d) \in Nat /\ \A i \in 1 .. Outlasted(d) : i \in Buckets
  <1> DEFINE P == {i \in Buckets : d > Thresholds[i]}
  <1>1. P \subseteq 1 .. Len(Thresholds) /\ Len(Thresholds) \in Nat
    BY BucketsType
  <1>2. ASSUME NEW i \in P, NEW j \in 1 .. Len(Thresholds), j <= i PROVE j \in P
    <2>1. i \in Buckets /\ j \in Buckets /\ d > Thresholds[i]
      BY BucketsType
    <2>2. Thresholds[j] <= Thresholds[i]
      BY <2>1, <1>2, BucketsType
    <2> QED
      BY <2>1, <2>2, BucketsType
  <1>3. \A i \in Buckets : d > Thresholds[i] <=> i \in P
    OBVIOUS
  <1>4. Outlasted(d) = Cardinality(P)
    BY DEF Outlasted
  <1> HIDE DEF P
  <1>5. Cardinality(P) \in 0 .. Len(Thresholds) /\ P = 1 .. Cardinality(P)
    BY <1>1, <1>2, FirstBuckets
  <1>6. Cardinality(P) \in Nat /\ P \subseteq Buckets
    BY <1>1, <1>5, BucketsType
  <1> QED
    BY <1>3, <1>4, <1>5, <1>6

\* A period is averaged, counted in the buckets it outlasts, and sampled.
LEMMA MeasureList ==
  ASSUME NEW d \in Int, words \in WordType(now), Ewma(words.ewma, d) \in Int
  PROVE  /\ MeasureStores(d) \in Seq(Stores)
         /\ Elements(MeasureStores(d)) =
              {Store("ewma", Ewma(words.ewma, d)), Store("samples", words.samples + 1)}
                \cup {Count(i, words.counts[i] + 1) : i \in 1 .. Outlasted(d)}
  <1> DEFINE k == Outlasted(d)
             a == << Store("ewma", Ewma(words.ewma, d)) >>
             b == [n \in 1 .. Outlasted(d) |-> Count(n, words.counts[n] + 1)]
             c == << Store("samples", words.samples + 1) >>
  <1>1. MeasureStores(d) = a \o b \o c
    BY DEF MeasureStores
  <1>2. a \in Seq(Stores) /\ Elements(a) = {Store("ewma", Ewma(words.ewma, d))}
    BY StoresMade, OneElement
  <1>3. b \in Seq(Stores) /\ Elements(b) = {Count(i, words.counts[i] + 1) : i \in 1 .. k}
    <2>1. k \in Nat /\ \A i \in 1 .. k : i \in Buckets
      BY OutlastedFirst, BucketsType
    <2>2. \A i \in 1 .. k : words.counts[i] + 1 \in Int
      BY <2>1 DEF WordType
    <2>3. b = [n \in 1 .. k |-> Count(n, words.counts[n] + 1)]
      OBVIOUS
    <2> HIDE DEF k, b
    <2>4. b \in [1 .. k -> Stores]
      BY <2>1, <2>2, <2>3, StoresMade
    <2>5. \A i \in 1 .. k : b[i] = Count(i, words.counts[i] + 1)
      BY <2>3
    <2>6. b \in Seq(Stores) /\ Elements(b) = {b[i] : i \in 1 .. k}
      BY <2>1, <2>4, ListElements
    <2> QED
      BY <2>5, <2>6
  <1>4. c \in Seq(Stores) /\ Elements(c) = {Store("samples", words.samples + 1)}
    BY StoresMade, OneElement DEF WordType
  <1> HIDE DEF a, b, c
  <1>5. a \o b \in Seq(Stores) /\ Elements(a \o b) = Elements(a) \cup Elements(b)
    BY <1>2, <1>3, ConcatElements
  <1> DEFINE ab == a \o b
  <1>6. ab \in Seq(Stores)
    BY <1>5
  <1>7. ab \o c \in Seq(Stores) /\ Elements(ab \o c) = Elements(ab) \cup Elements(c)
    <2> HIDE DEF ab
    <2> QED  BY <1>4, <1>6, ConcatElements
  <1> QED
    BY <1>1, <1>2, <1>3, <1>4, <1>5, <1>7

---------------------------------------------------------------------------
(* The statistics. *)

HpTypes ==
  /\ now \in 1 .. MaxTime
  /\ words \in WordType(now)
  /\ todo \in Seq(Stores)
  /\ \A s \in Elements(todo) : Fits(s, now)
  /\ hpc \in {"out", "idle", "active"}
  /\ periods \in Seq(1 .. MaxTime) /\ Len(periods) <= MaxPeriods

\* An average of the periods.
Means == {v \in 0 .. MaxTime :
            IF periods = << >> THEN v = 0
            ELSE \E i, j \in DOMAIN periods : periods[i] <= v /\ v <= periods[j]}

\* Once the stores are made, the word has a value that is good.
Ends(stores, word, bucket, value, good) ==
  /\ \A s \in stores : s.word = word /\ s.bucket = bucket => s.value \in good
  /\ value \in good \/ \E s \in stores : s.word = word /\ s.bucket = bucket

\* What the words of a registered HP come to: the statistics of its periods.
Finals ==
  hpc # "out" =>
    /\ Ends(Elements(todo), "samples", 0, words.samples, {Len(periods)})
    /\ Ends(Elements(todo), "ewma", 0, words.ewma, Means)
    /\ \A i \in Buckets :
         Ends(Elements(todo), "counts", i, words.counts[i], {Longer(Thresholds[i])})

\* An HP that leaves has only its state to store.
Leaving == hpc = "out" => \A s \in Elements(todo) : s.word = "state"

\* A period is counted before the next one begins.
Apart ==
  periods # << >> /\ (\E s \in Elements(todo) : s.word = "lastIdle") =>
    \A s \in Elements(todo) : s.word \notin {"counts", "samples"}

LastPeriod == periods[Len(periods)]

\* The last period is over, for as long as it may be missing in the words.
Behind == words.lastIdle + LastPeriod <= now

\* At every moment, with the HP killed or not: the words lack one period at
\* most, the last one.
Near ==
  periods # << >> =>
    /\ \/ words.samples = Len(periods)
       \/ words.samples + 1 = Len(periods) /\ Behind
    /\ \A i \in Buckets :
         \/ words.counts[i] = Longer(Thresholds[i])
         \/ /\ words.counts[i] + 1 = Longer(Thresholds[i])
            /\ LastPeriod > Thresholds[i] /\ Behind

HpInv == HpTypes /\ Finals /\ Leaving /\ Apart /\ Near

\* The moving average of 8, in integers, lies between the old and the new value.
LEMMA EwmaBetween ==
  ASSUME NEW p \in Nat, NEW x \in Nat
  PROVE  /\ Ewma(p, x) \in Nat
         /\ p = 0 => Ewma(p, x) = x
         /\ p > 0 /\ x >= p => p <= Ewma(p, x) /\ Ewma(p, x) <= x
         /\ p > 0 /\ x < p => x <= Ewma(p, x) /\ Ewma(p, x) <= p
  <1>1. \A n \in Nat : n \div 8 \in Nat /\ n \div 8 <= n
    OBVIOUS
  <1>2. CASE p = 0
    BY <1>2 DEF Ewma
  <1>3. CASE p > 0 /\ x >= p
    <2>1. x - p \in Nat
      BY <1>3
    <2>2. Ewma(p, x) = p + (x - p) \div 8
      BY <1>3 DEF Ewma
    <2> QED
      BY <1>1, <1>3, <2>1, <2>2
  <1>4. CASE p > 0 /\ x < p
    <2>1. p - x \in Nat
      BY <1>4
    <2>2. Ewma(p, x) = p - (p - x) \div 8
      BY <1>4 DEF Ewma
    <2> QED
      BY <1>1, <1>4, <2>1, <2>2
  <1> QED
    BY <1>2, <1>3, <1>4

\* The count of the periods over a threshold is a number, no greater than the
\* bound of the periods.
LEMMA LongerType ==
  ASSUME periods \in Seq(1 .. MaxTime), Len(periods) <= MaxPeriods, NEW d \in Int
  PROVE  /\ Longer(d) \in Nat /\ Longer(d) <= Len(periods)
         /\ Longer(d) \in 0 .. MaxPeriods /\ Len(periods) \in 0 .. MaxPeriods
         /\ Longer(d) = Cardinality(Over(periods, d)) /\ periods \in Seq(Nat)
  <1>1. periods \in Seq(Nat) /\ Len(periods) \in Nat
    OBVIOUS
  <1>2. Longer(d) = Cardinality(Over(periods, d))
    BY DEF Longer, Over
  <1>3. Cardinality(Over(periods, d)) \in Nat /\ Cardinality(Over(periods, d)) <= Len(periods)
    BY <1>1, OverCount
  <1> QED
    BY <1>1, <1>2, <1>3

\* One store made: what is still to be stored leads to the same values.
LEMMA EndsStore ==
  ASSUME NEW h, NEW F, NEW word, NEW bucket, NEW value, NEW good,
         Ends({h} \cup F, word, bucket, value, good)
  PROVE  Ends(F, word, bucket,
              IF h.word = word /\ h.bucket = bucket THEN h.value ELSE value, good)
  BY DEF Ends

\* Where nothing is to be stored, the words have their final values.
LEMMA Settled ==
  ASSUME Finals, hpc # "out", \A s \in Elements(todo) : s.word \notin {"counts", "samples"}
  PROVE  /\ words.samples = Len(periods)
         /\ \A i \in Buckets : words.counts[i] = Longer(Thresholds[i])
         /\ (\A s \in Elements(todo) : s.word # "ewma") => words.ewma \in Means
  BY DEF Finals, Ends

LEMMA InitHp == Init => HpInv
  <1> SUFFICES ASSUME Init PROVE HpInv
    OBVIOUS
  <1>1. now \in 1 .. MaxTime /\ now \in Nat
    BY DEF Init
  <1>2. NewWords \in WordType(now)
    BY <1>1 DEF NewWords, WordType
  <1>3. Elements(todo) = {} /\ todo \in Seq(Stores)
    BY NoElements DEF Init
  <1>4. periods \in Seq(1 .. MaxTime) /\ Len(periods) = 0 /\ periods = << >>
    BY DEF Init
  <1> QED
    BY <1>1, <1>2, <1>3, <1>4 DEF Init, HpInv, HpTypes, Finals, Leaving, Apart, Near

\* A new owner starts without periods and clears what another one has left.
LEMMA RegisterKeeps == ASSUME HpInv, Register PROVE HpInv'
  <1>1. /\ todo' = RegisterStores /\ hpc' = "idle" /\ periods' = << >>
        /\ now' = now /\ words' = words
    BY DEF Register, HpCall
  <1> DEFINE E == Elements(RegisterStores)
  <1>2. /\ RegisterStores \in Seq(Stores)
        /\ E = {Store("samples", 0), Store("lastIdle", Clock), Store("ewma", 0),
                Store("state", "IDLE")} \cup {Count(i, 0) : i \in Buckets}
    BY RegisterList
  <1> HIDE DEF E
  <1>3. now' \in 1 .. MaxTime /\ words' \in WordType(now')
    BY <1>1 DEF HpInv, HpTypes
  <1>4. \A s \in E : Fits(s, now')
    BY <1>2 DEF Fits, Store, Count
  <1>5. HpTypes'
    BY <1>1, <1>2, <1>3, <1>4 DEF HpTypes, E
  <1>6. \A i \in Buckets : Longer(Thresholds[i])' = 0
    <2> SUFFICES ASSUME NEW i \in Buckets PROVE Longer(Thresholds[i])' = 0
      OBVIOUS
    <2>2. {n \in DOMAIN periods' : periods'[n] > Thresholds[i]} = {}
      BY <1>1
    <2> QED
      BY <2>2, FS_EmptySet DEF Longer
  <1>7. Means' = {0}
    BY <1>1 DEF Means
  <1>8. /\ \A s \in E : /\ s.word = "samples" => s.value = 0
                        /\ s.word = "ewma" => s.value = 0
                        /\ s.word = "counts" => s.value = 0
        /\ \E s \in E : s.word = "samples" /\ s.bucket = 0
        /\ \E s \in E : s.word = "ewma" /\ s.bucket = 0
        /\ \A i \in Buckets : \E s \in E : s.word = "counts" /\ s.bucket = i
    <2>1. /\ Store("samples", 0) \in E /\ Store("ewma", 0) \in E
          /\ \A i \in Buckets : Count(i, 0) \in E
      BY <1>2
    <2>2. /\ \A s \in E : s.word = "samples" => s.value = 0
          /\ \A s \in E : s.word = "ewma" => s.value = 0
          /\ \A s \in E : s.word = "counts" => s.value = 0
      BY <1>2 DEF Store, Count
    <2>3. Store("samples", 0).word = "samples" /\ Store("samples", 0).bucket = 0
      BY DEF Store
    <2>4. Store("ewma", 0).word = "ewma" /\ Store("ewma", 0).bucket = 0
      BY DEF Store
    <2>5. \A i \in Buckets : Count(i, 0).word = "counts" /\ Count(i, 0).bucket = i
      BY DEF Count
    <2> QED
      BY <2>1, <2>2, <2>3, <2>4, <2>5
  <1>9. Len(periods') = 0
    BY <1>1
  <1>10. Finals'
    BY <1>1, <1>6, <1>7, <1>8, <1>9 DEF Finals, Ends, E
  <1> QED
    BY <1>1, <1>5, <1>10 DEF HpInv, Leaving, Apart, Near

\* What Append makes of a list.
LEMMA AppendFacts ==
  ASSUME NEW S, NEW p \in Seq(S), NEW x \in S, NEW q, q = Append(p, x)
  PROVE  /\ Len(q) = Len(p) + 1 /\ q \in Seq(S) /\ q # << >>
         /\ DOMAIN q = 1 .. Len(p) + 1 /\ DOMAIN p = 1 .. Len(p) /\ Len(p) \in Nat
         /\ q[Len(p) + 1] = x /\ \A n \in 1 .. Len(p) : q[n] = p[n]
  OBVIOUS

\* An idle period that ends is stored in the average, the buckets it outlasts
\* and the number of samples.
LEMMA MarkActiveKeeps == ASSUME HpInv, MarkActive PROVE HpInv'
  <1> DEFINE d == now - words.lastIdle
             end == << Store("state", "ACTIVE") >>
  <1>1. /\ hpc = "idle" /\ Len(periods) < MaxPeriods /\ todo = << >>
        /\ hpc' = "active" /\ now' = now /\ words' = words
    BY DEF MarkActive, HpCall
  <1>2. end \in Seq(Stores) /\ Elements(end) = {Store("state", "ACTIVE")}
    BY StoresMade, OneElement
  <1>3. /\ words.samples = Len(periods) /\ words.ewma \in Means
        /\ \A i \in Buckets : words.counts[i] = Longer(Thresholds[i])
    BY <1>1, Settled, NoElements DEF HpInv
  <1>4. /\ now \in Nat /\ now <= MaxTime /\ MaxTime \in Nat /\ MaxPeriods \in Nat
        /\ words \in WordType(now) /\ words.ewma \in Nat
        /\ words.lastIdle \in Nat /\ words.lastIdle <= now
        /\ periods \in Seq(1 .. MaxTime) /\ Len(periods) \in Nat
    BY DEF HpInv, HpTypes, WordType
  <1>5. Fits(Store("state", "ACTIVE"), now')
    BY DEF Fits, Store
  <1>6. CASE ~Measured
    <2>1. todo' = << >> \o end /\ periods' = periods
      BY <1>6 DEF MarkActive, HpCall
    <2>2. todo' = end
      BY <1>2, <2>1
    <2> HIDE DEF end
    <2>3. \A s \in Elements(todo') : s.word = "state"
      BY <1>2, <2>2 DEF Store
    <2>4. Means' = Means /\ \A i \in Buckets : Longer(Thresholds[i])' = Longer(Thresholds[i])
      BY <2>1 DEF Means, Longer
    <2>5. HpTypes'
      BY <1>1, <1>2, <1>5, <2>1, <2>2 DEF HpInv, HpTypes
    <2>6. Finals'
      BY <1>1, <1>3, <2>1, <2>3, <2>4 DEF Finals, Ends
    <2>7. Near'
      BY <1>1, <1>3, <2>1, <2>4 DEF Near
    <2> QED
      BY <1>1, <2>3, <2>5, <2>6, <2>7 DEF HpInv, Leaving, Apart
  <1>7. CASE Measured
    <2>1. /\ d \in 1 .. MaxTime /\ words.lastIdle + d = now
          /\ todo' = MeasureStores(d) \o end /\ periods' = Append(periods, d)
      <3>1. words.lastIdle # 0 /\ now > words.lastIdle
        BY <1>7 DEF Measured
      <3>2. todo' = MeasureStores(d) \o end /\ periods' = Append(periods, d)
        BY <1>7 DEF MarkActive, HpCall
      <3>3. d \in 1 .. MaxTime /\ words.lastIdle + d = now
        BY <1>4, <3>1
      <3> QED
        BY <3>2, <3>3
    <2> DEFINE e == Ewma(words.ewma, d)
               L == Len(periods)
               M == Elements(MeasureStores(d))
    <2>2. /\ Len(periods') = L + 1 /\ periods' \in Seq(1 .. MaxTime) /\ periods' # << >>
          /\ DOMAIN periods' = 1 .. L + 1 /\ DOMAIN periods = 1 .. L /\ L \in Nat
          /\ periods'[L + 1] = d /\ \A n \in 1 .. L : periods'[n] = periods[n]
      <3>1. d \in 1 .. MaxTime /\ periods' = Append(periods, d)
        BY <2>1
      <3> HIDE DEF d
      <3>2. periods \in Seq(1 .. MaxTime)
        BY <1>4
      <3> QED  BY <3>1, <3>2, AppendFacts
    <2>3. e \in Means'
      <3>1. d \in Nat /\ d > 0
        BY <2>1, <1>4
      <3>2. /\ e \in Nat /\ (words.ewma = 0 => e = d)
            /\ (words.ewma > 0 /\ d >= words.ewma => words.ewma <= e /\ e <= d)
            /\ (words.ewma > 0 /\ d < words.ewma => d <= e /\ e <= words.ewma)
        <4> HIDE DEF d
        <4> QED  BY <1>4, <3>1, EwmaBetween
      <3> HIDE DEF e, d, L
      <3>3. words.ewma <= MaxTime
        BY <1>4 DEF WordType
      <3>4. e \in 0 .. MaxTime
        BY <1>4, <2>1, <3>1, <3>2, <3>3
      <3>5. \A v \in 0 .. MaxTime :
              (\E m, n \in DOMAIN periods' : periods'[m] <= v /\ v <= periods'[n]) => v \in Means'
        BY <2>2 DEF Means
      <3>6. CASE words.ewma = 0
        <4>1. L + 1 \in DOMAIN periods' /\ periods'[L + 1] <= e /\ e <= periods'[L + 1]
          BY <2>2, <3>1, <3>2, <3>6
        <4> QED
          BY <2>2, <3>4, <4>1 DEF Means
      <3>7. CASE words.ewma > 0
        <4>1. periods # << >>
          BY <1>3, <3>7 DEF Means
        <4>2. PICK i, j \in DOMAIN periods : periods[i] <= words.ewma /\ words.ewma <= periods[j]
          BY <1>3, <4>1 DEF Means
        <4>3. /\ i \in DOMAIN periods' /\ j \in DOMAIN periods' /\ L + 1 \in DOMAIN periods'
              /\ periods'[i] <= words.ewma /\ words.ewma <= periods'[j]
              /\ periods'[L + 1] = d /\ periods'[i] \in Nat /\ periods'[j] \in Nat
          <5>1. i \in 1 .. L /\ j \in 1 .. L /\ L \in Nat
            BY <2>2, <4>2
          <5>2. i \in 1 .. L + 1 /\ j \in 1 .. L + 1 /\ L + 1 \in 1 .. L + 1
            BY <5>1
          <5>3. periods[i] \in Nat /\ periods[j] \in Nat
            BY <1>4, <4>2
          <5>4. periods'[i] = periods[i] /\ periods'[j] = periods[j]
            BY <2>2, <5>1
          <5> QED
            BY <2>2, <4>2, <5>2, <5>3, <5>4
        <4>4. CASE d >= words.ewma
          <5>1. periods'[i] <= e /\ e <= periods'[L + 1]
            <6>1. words.ewma <= e /\ e <= d
              BY Zenon, <3>2, <3>7, <4>4
            <6> QED
              BY <1>4, <3>2, <4>3, <6>1
          <5>2. \E m, n \in DOMAIN periods' : periods'[m] <= e /\ e <= periods'[n]
            BY <2>2, <4>3, <5>1
          <5> QED
            BY Zenon, <3>4, <3>5, <5>2
        <4>5. CASE d < words.ewma
          <5>1. periods'[L + 1] <= e /\ e <= periods'[j]
            <6>1. d <= e /\ e <= words.ewma
              BY Zenon, <3>2, <3>7, <4>5
            <6> QED
              BY <1>4, <3>2, <4>3, <6>1
          <5>2. \E m, n \in DOMAIN periods' : periods'[m] <= e /\ e <= periods'[n]
            BY <2>2, <4>3, <5>1
          <5> QED
            BY Zenon, <3>4, <3>5, <5>2
        <4> QED
          BY <1>4, <3>1, <4>4, <4>5
      <3> QED
        BY <1>4, <3>6, <3>7
    <2>4. \A i \in Buckets :
            /\ Longer(Thresholds[i])' =
                 IF d > Thresholds[i] THEN Longer(Thresholds[i]) + 1 ELSE Longer(Thresholds[i])
            /\ Longer(Thresholds[i]) \in Nat /\ Longer(Thresholds[i]) <= L
      <3> HIDE DEF d
      <3> SUFFICES ASSUME NEW i \in Buckets
                   PROVE  /\ Longer(Thresholds[i])' =
                               IF d > Thresholds[i] THEN Longer(Thresholds[i]) + 1
                                                    ELSE Longer(Thresholds[i])
                          /\ Longer(Thresholds[i]) \in Nat /\ Longer(Thresholds[i]) <= L
        OBVIOUS
      <3>1. Thresholds[i] \in Int /\ d \in Nat
        BY <2>1, BucketsType
      <3>2. /\ Longer(Thresholds[i]) = Cardinality(Over(periods, Thresholds[i]))
            /\ Longer(Thresholds[i]) \in Nat /\ Longer(Thresholds[i]) <= Len(periods)
            /\ periods \in Seq(Nat)
        BY <3>1, LongerType DEF HpInv, HpTypes
      <3>3. Longer(Thresholds[i])' = Cardinality(Over(Append(periods, d), Thresholds[i]))
        BY <2>1 DEF Longer, Over
      <3> QED
        BY <3>1, <3>2, <3>3, OverAppend
    <2>5. e \in Int
      BY <2>3 DEF Means
    <2>6. /\ MeasureStores(d) \in Seq(Stores)
          /\ M = {Store("ewma", e), Store("samples", words.samples + 1)}
                   \cup {Count(i, words.counts[i] + 1) : i \in 1 .. Outlasted(d)}
      <3>1. d \in Int
        BY <2>1
      <3> QED
        BY <1>4, <2>5, <3>1, MeasureList
    <2>7. /\ Outlasted(d) \in Nat
          /\ \A i \in 1 .. Outlasted(d) : i \in Buckets
          /\ \A i \in Buckets : d > Thresholds[i] <=> i \in 1 .. Outlasted(d)
      <3>1. d \in Int
        BY <2>1
      <3> HIDE DEF d
      <3> QED  BY <3>1, OutlastedFirst
    <2> HIDE DEF d, e, L
    <2>8. todo' \in Seq(Stores) /\ Elements(todo') = M \cup {Store("state", "ACTIVE")}
      <3> DEFINE ms == MeasureStores(d)
      <3>1. ms \in Seq(Stores) /\ todo' = ms \o end /\ M = Elements(ms)
        BY <2>1, <2>6
      <3> HIDE DEF end, ms, M
      <3> QED  BY <1>2, <3>1, ConcatElements
    <2> HIDE DEF M
    <2>9. L = Len(periods) /\ L \in Nat /\ L < MaxPeriods
      BY <1>1, <1>4 DEF L
    <2>10. \A s \in Elements(todo') :
             \/ s = Store("ewma", e)
             \/ s = Store("samples", L + 1)
             \/ s = Store("state", "ACTIVE")
             \/ \E i \in Buckets : /\ s = Count(i, Longer(Thresholds[i]) + 1)
                                   /\ d > Thresholds[i]
      BY <1>3, <2>6, <2>7, <2>8, <2>9
    <2>11. /\ Store("ewma", e) \in Elements(todo')
           /\ Store("samples", L + 1) \in Elements(todo')
           /\ \A i \in Buckets : d > Thresholds[i] =>
                Count(i, Longer(Thresholds[i]) + 1) \in Elements(todo')
      BY <1>3, <2>6, <2>7, <2>8, <2>9
    <2>12. HpTypes'
      <3>1. \A s \in Elements(todo') : Fits(s, now')
        <4>1. Fits(Store("ewma", e), now')
          BY <2>3 DEF Fits, Store, Means
        <4>2. Fits(Store("samples", L + 1), now')
          BY <2>9, <1>4 DEF Fits, Store
        <4>3. \A i \in Buckets : Fits(Count(i, Longer(Thresholds[i]) + 1), now')
          <5>1. \A i \in Buckets : Longer(Thresholds[i]) + 1 \in 0 .. MaxPeriods
            BY <1>4, <2>4, <2>9
          <5> QED
            BY <5>1 DEF Fits, Count
        <4> QED
          BY <1>5, <2>10, <4>1, <4>2, <4>3
      <3>2. Len(periods') <= MaxPeriods
        BY <2>2, <2>9, <1>4
      <3> QED
        BY <1>1, <2>2, <2>8, <3>1, <3>2 DEF HpInv, HpTypes
    <2>13. Finals'
      <3>1. Ends(Elements(todo'), "samples", 0, words'.samples, {Len(periods')})
        <4>1. \A s \in Elements(todo') : s.word = "samples" => s.value = L + 1
          BY <2>10 DEF Store, Count
        <4>2. Store("samples", L + 1).word = "samples" /\ Store("samples", L + 1).bucket = 0
          BY DEF Store
        <4> QED
          BY <2>2, <2>11, <4>1, <4>2 DEF Ends
      <3>2. Ends(Elements(todo'), "ewma", 0, words'.ewma, Means')
        <4>1. \A s \in Elements(todo') : s.word = "ewma" => s.value = e
          BY <2>10 DEF Store, Count
        <4>2. Store("ewma", e).word = "ewma" /\ Store("ewma", e).bucket = 0
          BY DEF Store
        <4> QED
          BY <2>3, <2>11, <4>1, <4>2 DEF Ends
      <3>3. ASSUME NEW i \in Buckets
            PROVE  Ends(Elements(todo'), "counts", i, words'.counts[i], {Longer(Thresholds[i])'})
        <4>1. \A s \in Elements(todo') : s.word = "counts" /\ s.bucket = i =>
                s.value = Longer(Thresholds[i]) + 1 /\ d > Thresholds[i]
          BY <2>10 DEF Store, Count
        <4>2. /\ Count(i, Longer(Thresholds[i]) + 1).word = "counts"
              /\ Count(i, Longer(Thresholds[i]) + 1).bucket = i
          BY DEF Count
        <4>3. CASE d > Thresholds[i]
          BY <2>4, <2>11, <4>1, <4>2, <4>3 DEF Ends
        <4>4. CASE ~(d > Thresholds[i])
          BY <1>1, <1>3, <2>4, <4>1, <4>4 DEF Ends
        <4> QED
          BY <4>3, <4>4
      <3> QED
        BY <3>1, <3>2, <3>3 DEF Finals
    <2>14. LastPeriod' = d /\ Behind'
      <3>1. LastPeriod' = d
        BY <2>2 DEF LastPeriod
      <3>2. words'.lastIdle + d <= now'
        BY <1>1, <1>4, <2>1
      <3> QED
        BY <3>1, <3>2 DEF Behind
    <2>15. Near'
      <3>1. words'.samples + 1 = Len(periods')
        BY <1>1, <1>3, <2>2, <2>9
      <3>2. ASSUME NEW i \in Buckets
            PROVE  \/ words'.counts[i] = Longer(Thresholds[i])'
                   \/ words'.counts[i] + 1 = Longer(Thresholds[i])' /\ d > Thresholds[i]
        BY <1>1, <1>3, <2>4
      <3> QED
        BY <2>14, <3>1, <3>2 DEF Near
    <2>16. Leaving' /\ Apart'
      <3>1. \A s \in Elements(todo') : s.word # "lastIdle"
        BY <2>10 DEF Store, Count
      <3> QED
        BY <1>1, <3>1 DEF Leaving, Apart
    <2> QED
      BY <2>12, <2>13, <2>15, <2>16 DEF HpInv
  <1> QED
    BY <1>6, <1>7

\* A call of a registered HP that has only its state, or the time, to store.
LEMMA SmallCallKeeps ==
  ASSUME HpInv, todo = << >>, hpc # "out", hpc' \in {"out", "idle", "active"},
         todo' \in Seq(Stores), \A s \in Elements(todo') : Fits(s, now'),
         \A s \in Elements(todo') :
           s.word = "state" \/ (s.word = "lastIdle" /\ hpc' # "out"),
         UNCHANGED <<now, words, periods>>
  PROVE  HpInv'
  <1>1. /\ words.samples = Len(periods) /\ words.ewma \in Means
        /\ \A i \in Buckets : words.counts[i] = Longer(Thresholds[i])
    BY Settled, NoElements DEF HpInv
  <1>2. Means' = Means /\ \A i \in Buckets : Longer(Thresholds[i])' = Longer(Thresholds[i])
    BY DEF Means, Longer
  <1>3. HpTypes'
    BY DEF HpInv, HpTypes
  <1>4. Finals'
    BY <1>1, <1>2 DEF Finals, Ends
  <1>5. Near'
    BY <1>1, <1>2 DEF Near
  <1> QED
    BY <1>3, <1>4, <1>5 DEF HpInv, Leaving, Apart

LEMMA MarkIdleKeeps == ASSUME HpInv, MarkIdle PROVE HpInv'
  <1> DEFINE x == Store("lastIdle", now)
             y == Store("state", "IDLE")
  <1>1. /\ hpc = "active" /\ todo = << >> /\ hpc' = "idle" /\ todo' = << x, y >>
        /\ UNCHANGED <<now, words, periods>>
    BY DEF MarkIdle, HpCall
  <1>2. now \in Nat
    BY DEF HpInv, HpTypes
  <1>3. x \in Stores /\ y \in Stores
    BY <1>2, StoresMade
  <1>4. todo' \in Seq(Stores) /\ Elements(todo') = {x, y}
    <2> HIDE DEF x, y
    <2> QED  BY <1>1, <1>3, TwoElements
  <1>5. Fits(x, now') /\ x.word = "lastIdle" /\ Fits(y, now') /\ y.word = "state"
    BY <1>1, <1>2 DEF Fits, Store
  <1> HIDE DEF x, y
  <1> QED
    BY <1>1, <1>4, <1>5, SmallCallKeeps

LEMMA UnregisterKeeps == ASSUME HpInv, Unregister PROVE HpInv'
  <1> DEFINE y == Store("state", "IDLE")
  <1>1. /\ hpc # "out" /\ todo = << >> /\ hpc' = "out" /\ todo' = << y >>
        /\ UNCHANGED <<now, words, periods>>
    BY DEF Unregister, HpCall
  <1>2. y \in Stores /\ Fits(y, now') /\ y.word = "state"
    BY StoresMade DEF Fits, Store
  <1>3. todo' \in Seq(Stores) /\ Elements(todo') = {y}
    <2> HIDE DEF y
    <2> QED  BY <1>1, <1>2, OneElement
  <1> HIDE DEF y
  <1> QED
    BY <1>1, <1>2, <1>3, SmallCallKeeps

\* One store of the call.  The time the HP became idle is stored by a call that
\* counts nothing.
LEMMA HpStoreKeeps == ASSUME HpInv, HpStore PROVE HpInv'
  <1> DEFINE h == Head(todo)
             E == Elements(todo)
             F == Elements(Tail(todo))
             w == Stored(words, h)
  <1>1. /\ todo # << >> /\ todo' = Tail(todo) /\ words' = w
        /\ UNCHANGED <<now, hpc, periods>>
    BY DEF HpStore
  <1>2. /\ HpTypes /\ Finals /\ Leaving /\ Apart /\ Near
        /\ todo \in Seq(Stores) /\ now \in Nat /\ words \in WordType(now)
    BY DEF HpInv, HpTypes
  <1>3. Tail(todo) \in Seq(Stores) /\ h \in Stores /\ E = {h} \cup F
    BY <1>1, <1>2, HeadTail
  <1>4. \A s \in E : Fits(s, now)
    BY <1>2 DEF HpTypes
  <1>5. /\ w \in WordType(now)
        /\ w.samples = IF h.word = "samples" THEN h.value ELSE words.samples
        /\ w.ewma = IF h.word = "ewma" THEN h.value ELSE words.ewma
        /\ h.word # "lastIdle" => w.lastIdle = words.lastIdle
        /\ \A i \in Buckets : w.counts[i] =
             IF h.word = "counts" /\ h.bucket = i THEN h.value ELSE words.counts[i]
    BY <1>2, <1>3, <1>4, StoredWord
  <1>6. Elements(todo') = F
    BY <1>1
  <1>7. Means' = Means /\ \A i \in Buckets : Longer(Thresholds[i])' = Longer(Thresholds[i])
    BY <1>1 DEF Means, Longer
  <1> HIDE DEF h, F, w
  <1>8. HpTypes'
    BY <1>1, <1>2, <1>3, <1>4, <1>5, <1>6 DEF HpTypes
  <1>9. /\ h.word # "counts" => h.bucket = 0
        /\ h.word = "counts" => h.bucket \in Buckets
    BY <1>3, <1>4 DEF Fits
  <1>10. ASSUME hpc # "out"
         PROVE  /\ Ends(F, "samples", 0, w.samples, {Len(periods)})
                /\ Ends(F, "ewma", 0, w.ewma, Means)
                /\ \A i \in Buckets :
                     Ends(F, "counts", i, w.counts[i], {Longer(Thresholds[i])})
    <2>1. /\ Ends({h} \cup F, "samples", 0, words.samples, {Len(periods)})
          /\ Ends({h} \cup F, "ewma", 0, words.ewma, Means)
          /\ \A i \in Buckets :
               Ends({h} \cup F, "counts", i, words.counts[i], {Longer(Thresholds[i])})
      BY <1>2, <1>3, <1>10 DEF Finals
    <2>2. Ends(F, "samples", 0, w.samples, {Len(periods)})
      <3>1. Ends(F, "samples", 0,
                 IF h.word = "samples" /\ h.bucket = 0 THEN h.value ELSE words.samples,
                 {Len(periods)})
        BY <2>1, EndsStore
      <3> QED
        BY <1>5, <1>9, <3>1
    <2>3. Ends(F, "ewma", 0, w.ewma, Means)
      <3>1. Ends(F, "ewma", 0,
                 IF h.word = "ewma" /\ h.bucket = 0 THEN h.value ELSE words.ewma, Means)
        BY <2>1, EndsStore
      <3> QED
        BY <1>5, <1>9, <3>1
    <2>4. ASSUME NEW i \in Buckets
          PROVE  Ends(F, "counts", i, w.counts[i], {Longer(Thresholds[i])})
      <3>1. Ends(F, "counts", i,
                 IF h.word = "counts" /\ h.bucket = i THEN h.value ELSE words.counts[i],
                 {Longer(Thresholds[i])})
        BY <2>1, EndsStore
      <3>2. w.counts[i] = IF h.word = "counts" /\ h.bucket = i THEN h.value ELSE words.counts[i]
        BY <1>5
      <3> QED
        BY <3>1, <3>2
    <2> QED
      BY <2>2, <2>3, <2>4
  <1>11. Finals'
    BY <1>1, <1>6, <1>7, <1>10 DEF Finals
  <1>12. Leaving' /\ Apart'
    BY <1>1, <1>2, <1>3, <1>6 DEF Leaving, Apart
  <1>13. Near'
    <2> SUFFICES ASSUME periods # << >>
                 PROVE  /\ \/ w.samples = Len(periods)
                           \/ w.samples + 1 = Len(periods) /\ Behind'
                        /\ \A i \in Buckets :
                             \/ w.counts[i] = Longer(Thresholds[i])
                             \/ /\ w.counts[i] + 1 = Longer(Thresholds[i])
                                /\ LastPeriod > Thresholds[i] /\ Behind'
      BY <1>1, <1>7 DEF Near, LastPeriod
    <2>1. /\ \/ words.samples = Len(periods)
             \/ words.samples + 1 = Len(periods) /\ Behind
          /\ \A i \in Buckets :
               \/ words.counts[i] = Longer(Thresholds[i])
               \/ /\ words.counts[i] + 1 = Longer(Thresholds[i])
                  /\ LastPeriod > Thresholds[i] /\ Behind
      BY <1>2 DEF Near
    <2>2. h.word # "lastIdle" /\ Behind => Behind'
      BY <1>1, <1>5 DEF Behind, LastPeriod
    <2>3. CASE h.word = "lastIdle"
      <3>1. \A s \in E : s.word \notin {"counts", "samples"}
        BY <1>2, <1>3, <2>3 DEF Apart
      <3>2. hpc # "out"
        BY <1>2, <1>3, <2>3 DEF Leaving
      <3>3. words.samples = Len(periods) /\ \A i \in Buckets : words.counts[i] = Longer(Thresholds[i])
        BY <1>2, <3>1, <3>2, Settled
      <3> QED
        BY <1>5, <2>3, <3>3
    <2>4. CASE h.word = "samples"
      <3>1. hpc # "out"
        BY <1>2, <1>3, <2>4 DEF Leaving
      <3>2. Ends(E, "samples", 0, words.samples, {Len(periods)})
        BY <1>2, <3>1 DEF Finals
      <3>3. h \in E /\ h.bucket = 0
        BY <1>3, <1>9, <2>4
      <3>4. w.samples = Len(periods)
        BY <1>5, <2>4, <3>2, <3>3 DEF Ends
      <3>5. \A i \in Buckets : w.counts[i] = words.counts[i]
        BY <1>5, <2>4
      <3> QED
        BY <2>1, <2>2, <2>4, <3>4, <3>5
    <2>5. CASE h.word = "counts"
      <3>1. hpc # "out"
        BY <1>2, <1>3, <2>5 DEF Leaving
      <3>2. \A i \in Buckets : Ends(E, "counts", i, words.counts[i], {Longer(Thresholds[i])})
        BY <1>2, <3>1 DEF Finals
      <3>3. h \in E /\ h.bucket \in Buckets
        BY <1>3, <1>9, <2>5
      <3>4. h.value = Longer(Thresholds[h.bucket])
        BY <2>5, <3>2, <3>3 DEF Ends
      <3>5. w.samples = words.samples
        BY <1>5, <2>5
      <3>6. \A i \in Buckets : w.counts[i] = words.counts[i] \/ w.counts[i] = Longer(Thresholds[i])
        BY <1>5, <3>4
      <3> QED
        BY <2>1, <2>2, <2>5, <3>5, <3>6
    <2>6. CASE h.word \notin {"lastIdle", "samples", "counts"}
      <3>1. w.samples = words.samples /\ \A i \in Buckets : w.counts[i] = words.counts[i]
        BY <1>5, <2>6
      <3> QED
        BY <2>1, <2>2, <2>6, <3>1
    <2> QED
      BY <2>3, <2>4, <2>5, <2>6
  <1> QED
    BY <1>8, <1>11, <1>12, <1>13 DEF HpInv

\* The HP is killed.
LEMMA HpCrashKeeps == ASSUME HpInv, HpCrash PROVE HpInv'
  <1>1. /\ hpc' = "out" /\ todo' = << >> /\ words' = [words EXCEPT !.state = "IDLE"]
        /\ UNCHANGED <<now, periods>>
    BY DEF HpCrash
  <1>2. words \in WordType(now)
    BY DEF HpInv, HpTypes
  <1>3. /\ words' \in WordType(now) /\ words'.samples = words.samples
        /\ words'.counts = words.counts /\ words'.lastIdle = words.lastIdle
    BY <1>1, <1>2 DEF WordType
  <1>4. Elements(todo') = {} /\ todo' \in Seq(Stores)
    BY <1>1, NoElements
  <1>5. HpTypes'
    BY <1>1, <1>3, <1>4 DEF HpInv, HpTypes
  <1>6. \A i \in Buckets : Longer(Thresholds[i])' = Longer(Thresholds[i])
    BY <1>1 DEF Longer
  <1>7. Behind' = Behind /\ LastPeriod' = LastPeriod
    BY <1>1, <1>3 DEF Behind, LastPeriod
  <1>8. Near'
    BY <1>1, <1>3, <1>6, <1>7 DEF HpInv, Near
  <1> QED
    BY <1>1, <1>4, <1>5, <1>8 DEF HpInv, Finals, Leaving, Apart

\* Time passes.
LEMMA TickKeeps == ASSUME HpInv, Tick PROVE HpInv'
  <1>1. now' = now + TickLength /\ now + TickLength <= MaxTime
        /\ UNCHANGED <<words, todo, hpc, periods>>
    BY DEF Tick, hpVars
  <1>2. /\ now \in Nat /\ now' \in 1 .. MaxTime /\ now <= now' /\ now' \in Nat
        /\ words \in WordType(now)
    BY <1>1 DEF HpInv, HpTypes
  <1>3. words' \in WordType(now')
    <2>1. words.lastIdle \in 0 .. now'
      BY <1>2 DEF WordType
    <2> QED
      BY <1>1, <1>2, <2>1 DEF WordType
  <1>4. \A s \in Elements(todo) : Fits(s, now')
    <2> SUFFICES ASSUME NEW s \in Elements(todo), Fits(s, now) PROVE Fits(s, now')
      BY DEF HpInv, HpTypes
    <2> QED
      BY <1>2 DEF Fits
  <1>5. HpTypes'
    BY <1>1, <1>2, <1>3, <1>4 DEF HpInv, HpTypes
  <1>6. Means' = Means /\ \A i \in Buckets : Longer(Thresholds[i])' = Longer(Thresholds[i])
    BY <1>1 DEF Means, Longer
  <1>7. Finals'
    BY <1>1, <1>6 DEF HpInv, Finals
  <1>8. periods # << >> => LastPeriod \in Nat
    BY DEF LastPeriod, HpInv, HpTypes
  <1>9. periods # << >> /\ Behind => Behind'
    <2>1. words.lastIdle \in Nat
      BY <1>2 DEF WordType
    <2> QED
      BY <1>1, <1>2, <1>8, <2>1 DEF Behind, LastPeriod
  <1>10. Near'
    BY <1>1, <1>6, <1>9 DEF HpInv, Near, LastPeriod
  <1> QED
    BY <1>1, <1>5, <1>7, <1>10 DEF HpInv, Leaving, Apart

\* What the BE does leaves the words alone.
LEMMA BeKeepsHp == ASSUME HpInv, UNCHANGED <<now, hpVars>> PROVE HpInv'
  <1>1. UNCHANGED <<now, words, todo, hpc, periods>>
    BY DEF hpVars
  <1> QED
    BY <1>1 DEF HpInv, HpTypes, Finals, Means, Longer, Leaving, Apart, Near, Behind, LastPeriod

LEMMA NextHp == HpInv /\ [Next]_vars => HpInv'
  <1> SUFFICES ASSUME HpInv, [Next]_vars PROVE HpInv'
    OBVIOUS
  <1>1. CASE UNCHANGED vars
    BY <1>1, BeKeepsHp DEF vars, hpVars
  <1>2. CASE Register  BY <1>2, RegisterKeeps
  <1>3. CASE MarkActive  BY <1>3, MarkActiveKeeps
  <1>4. CASE MarkIdle  BY <1>4, MarkIdleKeeps
  <1>5. CASE Unregister  BY <1>5, UnregisterKeeps
  <1>6. CASE HpStore  BY <1>6, HpStoreKeeps
  <1>7. CASE HpCrash  BY <1>7, HpCrashKeeps
  <1>8. CASE Tick  BY <1>8, TickKeeps
  <1>9. CASE Ask \/ BeWork
    BY <1>9, BeKeepsHp DEF Ask, BeWork, LoadWord, DecideGap, Admit, Reject, Launch, LaunchFails
  <1> QED
    BY <1>1, <1>2, <1>3, <1>4, <1>5, <1>6, <1>7, <1>8, <1>9 DEF Next

LEMMA HpCorrect == Spec => []HpInv
  BY InitHp, NextHp, PTL DEF Spec

---------------------------------------------------------------------------
(* Arithmetic. *)

\* The greatest multiple of y within x.
LEMMA DivFloor ==
  ASSUME NEW x \in Nat, NEW y \in Nat, y > 0
  PROVE  x \div y \in Nat /\ (x \div y) * y <= x /\ x < (x \div y) * y + y
  OBVIOUS

LEMMA TimesMono ==
  ASSUME NEW a \in Nat, NEW b \in Nat, NEW c \in Nat, a <= b
  PROVE  a * c \in Nat /\ b * c \in Nat /\ a * c <= b * c
  <1>1. b - a \in Nat /\ (b - a) * c \in Nat
    OBVIOUS
  <1>2. b * c = a * c + (b - a) * c
    OBVIOUS
  <1>3. a * c \in Nat /\ b * c \in Nat
    OBVIOUS
  <1> QED
    BY <1>1, <1>2, <1>3

LEMMA DivWithin ==
  ASSUME NEW x \in Nat, NEW y \in Nat, y > 0, NEW b \in Nat, x <= b * y
  PROVE  x \div y \in Nat /\ x \div y <= b
  <1> DEFINE q == x \div y
  <1>1. q \in Nat /\ q * y <= x
    BY DivFloor
  <1> HIDE DEF q
  <1> SUFFICES ASSUME q > b PROVE FALSE
    BY <1>1 DEF q
  <1>2. b + 1 <= q /\ b + 1 \in Nat
    BY <1>1
  <1>3. (b + 1) * y <= q * y /\ (b + 1) * y \in Nat /\ q * y \in Nat
    BY <1>1, <1>2, TimesMono
  <1>4. (b + 1) * y = b * y + y /\ b * y \in Nat
    OBVIOUS
  <1> QED
    BY <1>1, <1>3, <1>4

\* Of a budget, the share r of e and then f in a hundred is within the budget.
LEMMA ShareWithin ==
  ASSUME NEW b \in Nat, NEW r \in Nat, NEW f \in Nat, NEW e \in Nat,
         e > 0, r <= e, f <= 100
  PROVE  (b * r * f) \div (e * 100) \in Nat /\ (b * r * f) \div (e * 100) <= b
  <1>1. r * f \in Nat /\ e * f \in Nat /\ r * f <= e * f
    BY TimesMono
  <1>2. f * e \in Nat /\ 100 * e \in Nat /\ f * e <= 100 * e
    BY TimesMono
  <1>3. r * f <= e * 100 /\ e * 100 \in Nat /\ e * 100 > 0
    BY <1>1, <1>2
  <1> DEFINE u == r * f
             v == e * 100
  <1>4. u \in Nat /\ v \in Nat /\ u <= v /\ v > 0
    BY <1>1, <1>3
  <1>5. b * r * f = u * b
    OBVIOUS
  <1> HIDE DEF u, v
  <1>6. u * b \in Nat /\ u * b <= v * b /\ v * b = b * v
    BY <1>4, TimesMono
  <1>7. (u * b) \div v \in Nat /\ (u * b) \div v <= b
    BY <1>4, <1>6, DivWithin
  <1> QED
    BY <1>5, <1>7 DEF v

---------------------------------------------------------------------------
(* The settings of the BE. *)

Positive == Nat \ {0}
Percent == 1 .. 100

ConfigType ==
  [policy : {"gap", "time", "survival"}, minSamples : Positive,
   confidence : Percent, promote : Percent, gapFraction : Percent,
   guard : Nat, coldStart : Nat, context : Nat, window : Positive,
   blockBudget : Positive, timeBudget : Positive,
   internalWindow : Positive, promotedWindow : Positive,
   internalBudget : Positive, promotedBudget : Positive]

LEMMA ParsedWithin ==
  ASSUME NEW v \in Nat \cup {Unset}, NEW f, NEW least \in Nat, NEW most \in Nat
  PROVE  Parsed(v, f, least, most) = f \/ Parsed(v, f, least, most) \in least .. most
  BY DEF Parsed

LEMMA ParsedPositive ==
  ASSUME NEW v \in Nat \cup {Unset}, NEW f \in Positive, NEW most \in Nat
  PROVE  Parsed(v, f, 1, most) \in Positive
  BY ParsedWithin DEF Positive

LEMMA ParsedPercent ==
  ASSUME NEW v \in Nat \cup {Unset}, NEW f \in Percent
  PROVE  Parsed(v, f, 1, 100) \in Percent
  BY ParsedWithin DEF Percent

\* A share of a positive total is positive.
LEMMA ShareType ==
  ASSUME NEW total \in Nat, NEW count \in Positive
  PROVE  Partition(total, count) \in Positive
  <1>1. total \div count \in Nat
    BY DivFloor DEF Positive
  <1> QED
    BY <1>1 DEF Partition, Positive

\* The settings as the environment gives them.
LEMMA EnvironmentType ==
  ASSUME NEW env \in Environments, NEW Text, Text = Nat \cup {Unset}
  PROVE  /\ env.policy \in {"gap", "time", "survival"}
         /\ env.count \in Text /\ env.minSamples \in Text /\ env.confidence \in Text
         /\ env.promote \in Text /\ env.gapFraction \in Text /\ env.window \in Text
         /\ env.internalWindow \in Text /\ env.promotedWindow \in Text
         /\ env.guard \in Nat /\ env.coldStart \in Nat /\ env.context \in Nat
         /\ env.blockBudget \in Nat /\ env.timeBudget \in Nat
         /\ env.internalBudget \in Nat /\ env.promotedBudget \in Nat
  <1> DEFINE Times == 0 .. Top
             Budgets == 1 .. Top
  <1>1. env \in [policy : {"gap", "time", "survival"}, count : Text, minSamples : Text,
                 confidence : Text, promote : Text, gapFraction : Text, window : Text,
                 internalWindow : Text, promotedWindow : Text,
                 guard : Times, coldStart : Budgets, context : Times,
                 blockBudget : Budgets, timeBudget : Budgets,
                 internalBudget : Budgets, promotedBudget : Budgets]
    BY Zenon, EnvironmentAssumption
  <1>2. Times \subseteq Nat /\ Budgets \subseteq Nat
    OBVIOUS
  <1> HIDE DEF Times, Budgets
  <1>3. /\ env.policy \in {"gap", "time", "survival"}
        /\ env.count \in Text /\ env.minSamples \in Text /\ env.confidence \in Text
        /\ env.promote \in Text /\ env.gapFraction \in Text /\ env.window \in Text
        /\ env.internalWindow \in Text /\ env.promotedWindow \in Text
        /\ env.guard \in Times /\ env.coldStart \in Budgets /\ env.context \in Times
        /\ env.blockBudget \in Budgets /\ env.timeBudget \in Budgets
        /\ env.internalBudget \in Budgets /\ env.promotedBudget \in Budgets
    BY <1>1
  <1> QED
    BY <1>2, <1>3

LEMMA ConfiguredType == \A env \in Environments : Configured(env) \in ConfigType
  <1> SUFFICES ASSUME NEW env \in Environments PROVE Configured(env) \in ConfigType
    OBVIOUS
  <1> DEFINE Text == Nat \cup {Unset}
             count == Parsed(env.count, 1, 1, 64)
  <1>1. /\ env.policy \in {"gap", "time", "survival"}
        /\ env.count \in Text /\ env.minSamples \in Text /\ env.confidence \in Text
        /\ env.promote \in Text /\ env.gapFraction \in Text /\ env.window \in Text
        /\ env.internalWindow \in Text /\ env.promotedWindow \in Text
        /\ env.guard \in Nat /\ env.coldStart \in Nat /\ env.context \in Nat
        /\ env.blockBudget \in Nat /\ env.timeBudget \in Nat
        /\ env.internalBudget \in Nat /\ env.promotedBudget \in Nat
    BY EnvironmentType
  <1>2. /\ \A v \in Text, f \in Positive, most \in Nat : Parsed(v, f, 1, most) \in Positive
        /\ \A v \in Text, f \in Percent : Parsed(v, f, 1, 100) \in Percent
    BY ParsedPositive, ParsedPercent
  <1>3. 1 \in Positive /\ 2 \in Positive /\ 8 \in Positive /\ 32 \in Positive
        /\ 50 \in Percent /\ 90 \in Percent /\ 64 \in Nat /\ Top \in Nat
    BY DEF Positive, Percent
  <1>4. \A n \in Positive : n \in Nat
    BY DEF Positive
  <1> HIDE DEF Text
  <1>5. count \in Positive /\ Parsed(env.minSamples, 32, 1, Top) \in Positive
    BY <1>1, <1>2, <1>3
  <1>6. /\ Parsed(env.confidence, 50, 1, 100) \in Percent
        /\ Parsed(env.promote, 90, 1, 100) \in Percent
        /\ Parsed(env.gapFraction, 90, 1, 100) \in Percent
    BY Zenon, <1>1, <1>2, <1>3
  <1>7. /\ Parsed(env.window, 1, 1, 64) \in Nat
        /\ Parsed(env.internalWindow, 2, 1, 64) \in Nat
        /\ Parsed(env.promotedWindow, 8, 1, 64) \in Nat
    BY Zenon, <1>1, <1>2, <1>3, <1>4
  <1> HIDE DEF count
  <1>8. /\ Partition(Parsed(env.window, 1, 1, 64), count) \in Positive
        /\ Partition(Parsed(env.internalWindow, 2, 1, 64), count) \in Positive
        /\ Partition(Parsed(env.promotedWindow, 8, 1, 64), count) \in Positive
        /\ Partition(env.blockBudget, count) \in Positive
        /\ Partition(env.timeBudget, count) \in Positive
        /\ Partition(env.internalBudget, count) \in Positive
        /\ Partition(env.promotedBudget, count) \in Positive
    BY <1>1, <1>5, <1>7, ShareType
  <1> QED
    BY <1>1, <1>5, <1>6, <1>8 DEF Configured, ConfigType, count

---------------------------------------------------------------------------
(* Types of what the BE keeps. *)

Final == Len(LoadOrder) + Len(Thresholds) + 1

BeTypes ==
  /\ config \in ConfigType
  /\ bpc \in -1 .. Final
  /\ snap \in WordType(now)
  /\ episode \in [lastIdle : 0 .. now, begun : BOOLEAN]
  /\ torn \in BOOLEAN
  /\ launched \in 0 .. now

LEMMA Positions ==
  /\ Len(LoadOrder) = 4 /\ Final = 5 + Len(Thresholds) /\ Len(Thresholds) \in Nat
  /\ LoadOrder[1] = "state" /\ LoadOrder[2] = "samples"
  /\ LoadOrder[3] = "lastIdle" /\ LoadOrder[4] = "ewma"
  BY BucketsType DEF LoadOrder, Final

LEMMA WordsLater ==
  ASSUME NEW a \in Nat, NEW b \in Nat, a <= b, NEW w \in WordType(a)
  PROVE  w \in WordType(b)
  <1>1. w.lastIdle \in 0 .. b
    BY DEF WordType
  <1> QED
    BY <1>1 DEF WordType

\* A load reads one word or bucket.
LEMMA LoadedWord ==
  ASSUME HpInv, BeTypes, LoadWord
  PROVE  /\ snap' \in WordType(now)
         /\ snap'.state = IF bpc = 1 THEN words.state ELSE snap.state
         /\ snap'.samples = IF bpc = 2 THEN words.samples ELSE snap.samples
         /\ snap'.lastIdle = IF bpc = 3 THEN words.lastIdle ELSE snap.lastIdle
         /\ snap'.ewma = IF bpc = 4 THEN words.ewma ELSE snap.ewma
         /\ \A i \in Buckets : snap'.counts[i] =
              IF bpc = 4 + i THEN words.counts[i] ELSE snap.counts[i]
  <1> DEFINE N == Len(Thresholds)
  <1>1. /\ words \in WordType(now) /\ snap \in WordType(now)
        /\ bpc \in 1 .. 4 + N /\ N \in Nat /\ Buckets = 1 .. N
        /\ bpc \in Int
    BY Positions, BucketsType DEF HpInv, HpTypes, BeTypes, LoadWord
  <1>2. snap' = IF bpc <= 4 THEN [snap EXCEPT ![LoadOrder[bpc]] = words[LoadOrder[bpc]]]
                ELSE [snap EXCEPT !.counts[bpc - 4] = words.counts[bpc - 4]]
    BY Positions DEF LoadWord
  <1>3. CASE bpc = 1
    <2>1. bpc <= 4 /\ LoadOrder[bpc] = "state" /\ \A i \in Buckets : bpc # 4 + i
      BY <1>1, <1>3, Positions
    <2>2. snap' = [snap EXCEPT !.state = words.state]
      BY Zenon, <1>2, <2>1
    <2>3. /\ snap' \in WordType(now) /\ snap'.state = words.state
          /\ snap'.samples = snap.samples /\ snap'.lastIdle = snap.lastIdle
          /\ snap'.ewma = snap.ewma /\ snap'.counts = snap.counts
      BY <1>1, <2>2 DEF WordType
    <2> QED
      BY <1>3, <2>1, <2>3
  <1>4. CASE bpc = 2
    <2>1. bpc <= 4 /\ LoadOrder[bpc] = "samples" /\ \A i \in Buckets : bpc # 4 + i
      BY <1>1, <1>4, Positions
    <2>2. snap' = [snap EXCEPT !.samples = words.samples]
      BY Zenon, <1>2, <2>1
    <2>3. /\ snap' \in WordType(now) /\ snap'.samples = words.samples
          /\ snap'.state = snap.state /\ snap'.lastIdle = snap.lastIdle
          /\ snap'.ewma = snap.ewma /\ snap'.counts = snap.counts
      BY <1>1, <2>2 DEF WordType
    <2> QED
      BY <1>4, <2>1, <2>3
  <1>5. CASE bpc = 3
    <2>1. bpc <= 4 /\ LoadOrder[bpc] = "lastIdle" /\ \A i \in Buckets : bpc # 4 + i
      BY <1>1, <1>5, Positions
    <2>2. snap' = [snap EXCEPT !.lastIdle = words.lastIdle]
      BY Zenon, <1>2, <2>1
    <2>3. /\ snap' \in WordType(now) /\ snap'.lastIdle = words.lastIdle
          /\ snap'.state = snap.state /\ snap'.samples = snap.samples
          /\ snap'.ewma = snap.ewma /\ snap'.counts = snap.counts
      BY <1>1, <2>2 DEF WordType
    <2> QED
      BY <1>5, <2>1, <2>3
  <1>6. CASE bpc = 4
    <2>1. bpc <= 4 /\ LoadOrder[bpc] = "ewma" /\ \A i \in Buckets : bpc # 4 + i
      BY <1>1, <1>6, Positions
    <2>2. snap' = [snap EXCEPT !.ewma = words.ewma]
      BY Zenon, <1>2, <2>1
    <2>3. /\ snap' \in WordType(now) /\ snap'.ewma = words.ewma
          /\ snap'.state = snap.state /\ snap'.samples = snap.samples
          /\ snap'.lastIdle = snap.lastIdle /\ snap'.counts = snap.counts
      BY <1>1, <2>2 DEF WordType
    <2> QED
      BY <1>6, <2>1, <2>3
  <1>7. CASE bpc > 4
    <2> DEFINE b == bpc - 4
               c == [snap.counts EXCEPT ![b] = words.counts[b]]
    <2>1. b \in Buckets /\ bpc \notin {1, 2, 3, 4} /\ ~(bpc <= 4)
          /\ \A i \in Buckets : bpc = 4 + i <=> i = b
      BY <1>1, <1>7
    <2>2. snap' = [snap EXCEPT !.counts = c]
      BY <1>2, <2>1
    <2> HIDE DEF b
    <2>3. snap.counts \in [Buckets -> 0 .. MaxPeriods] /\ words.counts[b] \in 0 .. MaxPeriods
      BY <1>1, <2>1 DEF WordType
    <2>4. /\ c \in [Buckets -> 0 .. MaxPeriods]
          /\ \A i \in Buckets : c[i] = IF i = b THEN words.counts[i] ELSE snap.counts[i]
      BY <2>1, <2>3
    <2> HIDE DEF c
    <2>5. /\ snap' \in WordType(now) /\ snap'.counts = c
          /\ snap'.state = snap.state /\ snap'.samples = snap.samples
          /\ snap'.lastIdle = snap.lastIdle /\ snap'.ewma = snap.ewma
      BY <1>1, <2>2, <2>4 DEF WordType
    <2> QED
      BY <2>1, <2>4, <2>5
  <1> QED
    BY <1>1, <1>3, <1>4, <1>5, <1>6, <1>7

LEMMA NewWordsType == \A time \in Nat : NewWords \in WordType(time)
  BY DEF NewWords, WordType

LEMMA EpisodeType ==
  ASSUME BeTypes, now \in Nat
  PROVE  EpisodeNow \in [lastIdle : 0 .. now, begun : BOOLEAN]
  BY DEF BeTypes, EpisodeNow, WordType

LEMMA InitBe == Init => BeTypes
  <1> SUFFICES ASSUME Init PROVE BeTypes
    OBVIOUS
  <1>1. now \in Nat /\ 0 \in -1 .. Final /\ 0 \in 0 .. now
    BY Positions DEF Init
  <1>2. config \in ConfigType
    BY ConfiguredType DEF Init
  <1>3. /\ bpc = 0 /\ snap = NewWords /\ torn = FALSE /\ launched = 0
        /\ episode = [lastIdle |-> 0, begun |-> FALSE]
    BY DEF Init
  <1> QED
    BY <1>1, <1>2, <1>3, NewWordsType DEF BeTypes

LEMMA NextBe == HpInv /\ BeTypes /\ [Next]_vars => BeTypes'
  <1> SUFFICES ASSUME HpInv, BeTypes, [Next]_vars PROVE BeTypes'
    OBVIOUS
  <1>1. now \in Nat /\ 0 \in -1 .. Final /\ 1 \in -1 .. Final /\ -1 \in -1 .. Final
    BY Positions DEF HpInv, HpTypes
  <1>2. CASE UNCHANGED vars
    BY <1>2 DEF vars, BeTypes
  <1>3. CASE Register \/ MarkActive \/ MarkIdle \/ Unregister \/ HpStore \/ HpCrash
    <2>1. torn' = TRUE /\ UNCHANGED <<config, now, bpc, snap, episode, launched>>
      BY <1>3 DEF Register, MarkActive, MarkIdle, Unregister, HpStore, HpCrash, HpCall, beVars
    <2> QED
      BY <2>1 DEF BeTypes
  <1>4. CASE Tick
    <2>1. now' = now + TickLength /\ UNCHANGED <<config, torn, bpc, snap, episode, launched>>
      BY <1>4 DEF Tick, beVars
    <2>2. now' \in Nat /\ now <= now'
      BY <1>1, <2>1
    <2>3. snap \in WordType(now')
      BY <1>1, <2>2, WordsLater DEF BeTypes
    <2>4. launched \in 0 .. now' /\ episode \in [lastIdle : 0 .. now', begun : BOOLEAN]
      BY <1>1, <2>2 DEF BeTypes
    <2> QED
      BY <2>1, <2>3, <2>4 DEF BeTypes
  <1>5. CASE Ask
    <2>1. /\ bpc' = 1 /\ snap' = NewWords /\ torn' = (todo # << >>)
          /\ UNCHANGED <<config, now, episode, launched>>
      BY <1>5 DEF Ask, BeginSnapshot
    <2> QED
      BY <1>1, <2>1, NewWordsType DEF BeTypes
  <1>6. CASE LoadWord
    <2>1. bpc' = bpc + 1 /\ bpc \in 1 .. Len(LoadOrder) + Len(Thresholds)
          /\ UNCHANGED <<config, now, torn, episode, launched>>
      BY <1>6 DEF LoadWord
    <2>2. bpc' \in -1 .. Final
      BY <2>1, Positions
    <2>3. snap' \in WordType(now')
      BY <1>6, <2>1, LoadedWord
    <2> QED
      BY <2>1, <2>2, <2>3 DEF BeTypes
  <1>7. CASE DecideGap
    BY <1>1, <1>7 DEF DecideGap, BeTypes
  <1>8. ASSUME NEW cost \in Costs, NEW load \in Loads, Admit(cost, load) PROVE BeTypes'
    <2>1. bpc' = -1 /\ episode' = EpisodeNow /\ UNCHANGED <<config, now, snap, torn, launched>>
      BY <1>8 DEF Admit
    <2> QED
      BY <1>1, <2>1, EpisodeType DEF BeTypes
  <1>9. ASSUME NEW cost \in Costs, NEW load \in Loads, Reject(cost, load) PROVE BeTypes'
    <2>1. /\ bpc' = 1 /\ snap' = NewWords /\ torn' = (todo # << >>)
          /\ UNCHANGED <<config, now, launched>>
          /\ episode' = EpisodeNow \/ episode' = episode
      BY <1>9 DEF Reject, BeginSnapshot
    <2> QED
      BY <1>1, <2>1, EpisodeType, NewWordsType DEF BeTypes
  <1>10. CASE Launch
    <2>1. /\ bpc' = 0 /\ snap' = NewWords /\ torn' = FALSE /\ UNCHANGED <<config, now>>
          /\ \/ episode' = [episode EXCEPT !.begun = TRUE] /\ launched' = snap.lastIdle
             \/ UNCHANGED <<episode, launched>>
      BY <1>10 DEF Launch
    <2>2. snap.lastIdle \in 0 .. now
      BY DEF BeTypes, WordType
    <2> QED
      BY <1>1, <2>1, <2>2, NewWordsType DEF BeTypes
  <1>11. CASE LaunchFails
    BY <1>1, <1>11, NewWordsType DEF LaunchFails, BeTypes
  <1> QED
    BY <1>2, <1>3, <1>4, <1>5, <1>6, <1>7, <1>8, <1>9, <1>10, <1>11 DEF Next, BeWork

TypeInv == HpInv /\ BeTypes

LEMMA TypesCorrect == Spec => []TypeInv
  <1>1. Init => TypeInv
    BY InitHp, InitBe DEF TypeInv
  <1>2. TypeInv /\ [Next]_vars => TypeInv'
    BY NextHp, NextBe DEF TypeInv
  <1> QED
    BY <1>1, <1>2, PTL DEF Spec

\* The words have their types, and between two calls of a registered HP the
\* samples, the histogram and the moving average are those of its idle periods
\* (mark_active, mark_idle, register), whatever an HP killed before has left.
THEOREM StatisticsHold == Spec => []StatisticsExact
  <1>1. TypeInv => StatisticsExact
    <2> SUFFICES ASSUME TypeInv PROVE StatisticsExact
      OBVIOUS
    <2>1. TypeOK
      BY Positions DEF TypeInv, HpInv, HpTypes, BeTypes, WordType, TypeOK, Final
    <2>2. ASSUME todo = << >>, hpc # "out"
          PROVE  /\ words.samples = Len(periods) /\ words.ewma \in Means
                 /\ \A i \in Buckets : words.counts[i] = Longer(Thresholds[i])
      BY <2>2, Settled, NoElements DEF TypeInv, HpInv
    <2>3. HistogramExact
      BY <2>2 DEF HistogramExact
    <2>4. EwmaWithinPeriods
      BY <2>2 DEF EwmaWithinPeriods, Means
    <2> QED
      BY <2>1, <2>3, <2>4 DEF StatisticsExact
  <1> QED
    BY <1>1, TypesCorrect, PTL

---------------------------------------------------------------------------
(* The limits. *)

\* A sum that stops at Top.
LEMMA SaturatingSum ==
  ASSUME NEW a \in Nat, NEW b \in Nat
  PROVE  /\ Saturating(a, b) = IF a + b > Top THEN Top ELSE a + b
         /\ Saturating(a, b) \in Nat /\ Saturating(a, b) <= Top
  BY DEF Saturating

LEMMA ElapsedType ==
  ASSUME HpInv, BeTypes
  PROVE  Elapsed \in 0 .. now /\ now \in Nat /\ now <= Top
  <1>1. now \in Nat /\ now <= MaxTime /\ MaxTime <= Top /\ snap.lastIdle \in 0 .. now
    BY DEF HpInv, HpTypes, BeTypes, WordType
  <1> QED
    BY <1>1 DEF Elapsed

\* What is left of a gap is no more than the average gap.
LEMMA RemainingWithin ==
  ASSUME HpInv, BeTypes
  PROVE  Remaining \in Nat /\ Remaining <= snap.ewma /\ snap.ewma \in Nat
  <1> DEFINE consumed == Saturating(Elapsed, config.guard)
  <1>1. snap.ewma \in Nat
    BY DEF BeTypes, WordType
  <1>2. Elapsed \in Nat /\ config.guard \in Nat
    BY ElapsedType DEF BeTypes, ConfigType
  <1>3. consumed \in Nat
    BY <1>2, SaturatingSum
  <1>4. Remaining = IF consumed < snap.ewma THEN snap.ewma - consumed ELSE 0
    BY DEF Remaining
  <1> HIDE DEF consumed
  <1> QED
    BY <1>1, <1>3, <1>4

LEMMA BlockBudgetWithin ==
  ASSUME HpInv, BeTypes
  PROVE  EffectiveBlockBudget \in 1 .. config.blockBudget
  <1> DEFINE b == config.blockBudget
             f == config.gapFraction
             e == snap.ewma
             r == Remaining
             q == (b * r * f) \div (e * 100)
  <1>1. b \in Nat /\ b > 0 /\ f \in Nat /\ f <= 100
    BY DEF BeTypes, ConfigType, Positive, Percent
  <1>2. r \in Nat /\ e \in Nat /\ r <= e
    BY RemainingWithin
  <1>3. EffectiveBlockBudget = IF ~GapKnown THEN b ELSE AtLeastOne(q)
    BY DEF EffectiveBlockBudget
  <1>4. GapKnown => e > 0
    BY DEF GapKnown
  <1> HIDE DEF b, f, e, r
  <1>5. e > 0 => q \in Nat /\ q <= b
    BY <1>1, <1>2, ShareWithin
  <1> HIDE DEF q
  <1>6. AtLeastOne(q) = IF q = 0 THEN 1 ELSE q
    BY DEF AtLeastOne
  <1>7. EffectiveBlockBudget \in 1 .. b
    BY <1>1, <1>3, <1>4, <1>5, <1>6
  <1> QED
    BY <1>7 DEF b

LEMMA TimeBudgetWithin ==
  ASSUME HpInv, BeTypes
  PROVE  EffectiveTimeBudget \in 1 .. config.timeBudget
  <1> DEFINE b == config.timeBudget
             x == Remaining * config.gapFraction
             q == x \div 100
             m == Lower(b, q)
  <1>1. b \in Nat /\ b > 0 /\ config.gapFraction \in Nat
    BY DEF BeTypes, ConfigType, Positive, Percent
  <1>2. Remaining \in Nat
    BY RemainingWithin
  <1>3. x \in Nat
    BY <1>1, <1>2
  <1>4. EffectiveTimeBudget = IF ~GapKnown THEN b ELSE AtLeastOne(m)
    BY DEF EffectiveTimeBudget
  <1> HIDE DEF b, x
  <1>5. q \in Nat
    BY <1>3, DivFloor
  <1> HIDE DEF q
  <1>6. m \in Nat /\ m <= b
    BY <1>1, <1>5 DEF Lower
  <1> HIDE DEF m
  <1>7. AtLeastOne(m) = IF m = 0 THEN 1 ELSE m
    BY DEF AtLeastOne
  <1>8. EffectiveTimeBudget \in 1 .. b
    BY <1>1, <1>4, <1>6, <1>7
  <1> QED
    BY <1>8 DEF b

LEMMA LowerWithin ==
  ASSUME NEW a \in Positive, NEW b \in Positive
  PROVE  Lower(a, b) = Lower(b, a) /\ Lower(a, b) \in 1 .. a
  BY DEF Lower, Positive

\* A decision is made with limits that fit.
LEMMA GapFits == ASSUME HpInv, BeTypes, DecideGap PROVE LimitsAsAdmissionExpects'
  <1> DEFINE budget == IF config.policy = "gap" THEN EffectiveBlockBudget ELSE EffectiveTimeBudget
  <1>1. /\ config' = config /\ config.policy \in {"gap", "time"}
        /\ decision' = [NoDecision EXCEPT !.kind = "limit", !.window = config.window,
                                          !.budget = budget]
    BY DEF DecideGap
  <1>2. /\ config.policy = "gap" => budget \in 1 .. config.blockBudget
        /\ config.policy = "time" => budget \in 1 .. config.timeBudget
    BY BlockBudgetWithin, TimeBudgetWithin
  <1> HIDE DEF budget
  <1>3. decision'.window = config.window /\ decision'.budget = budget
    BY <1>1 DEF NoDecision
  <1>4. config.window \in 1 .. config.window
    BY DEF BeTypes, ConfigType, Positive
  <1> QED
    BY <1>1, <1>2, <1>3, <1>4 DEF LimitsAsAdmissionExpects

LEMMA AdmitFits ==
  ASSUME HpInv, BeTypes, NEW cost, NEW load, Admit(cost, load)
  PROVE  LimitsAsAdmissionExpects'
  <1> DEFINE c == config.promotedWindow
             i == config.internalWindow
             w == config.window
  <1>1. /\ config' = config /\ config.policy = "survival"
        /\ decision'.window = Lower(w, IF Promoted(load) THEN c ELSE i)
        /\ decision'.budget = IF Promoted(load) THEN config.promotedBudget
                              ELSE config.internalBudget
    BY DEF Admit
  <1>2. c \in Positive /\ i \in Positive /\ w \in Positive
    BY DEF BeTypes, ConfigType
  <1> HIDE DEF c, i, w
  <1>3. /\ Lower(w, c) = Lower(c, w) /\ Lower(w, c) \in 1 .. w
        /\ Lower(w, i) = Lower(i, w) /\ Lower(w, i) \in 1 .. w
    BY <1>2, LowerWithin
  <1>4. CASE Promoted(load)
    BY <1>1, <1>3, <1>4 DEF LimitsAsAdmissionExpects, c, w
  <1>5. CASE ~Promoted(load)
    BY <1>1, <1>3, <1>5 DEF LimitsAsAdmissionExpects, i, w
  <1> QED
    BY <1>4, <1>5

\* What every other step does to a decision: it keeps it, or there is none.
LEMMA DecisionKept ==
  ASSUME [Next]_vars, ~DecideGap,
         ~\E cost \in Costs, load \in Loads : Admit(cost, load)
  PROVE  \/ bpc' # -1
         \/ /\ bpc = -1 /\ UNCHANGED <<config, bpc, snap, decision, episode, launched>>
            /\ (torn' = torn /\ periods' = periods) \/ torn' = TRUE
  <1>1. CASE UNCHANGED vars
    BY <1>1 DEF vars
  <1>2. CASE Register \/ MarkActive \/ MarkIdle \/ Unregister \/ HpStore \/ HpCrash
    BY <1>2 DEF Register, MarkActive, MarkIdle, Unregister, HpStore, HpCrash, HpCall, beVars
  <1>3. CASE Tick
    BY <1>3 DEF Tick, beVars, hpVars
  <1>4. CASE Ask
    BY <1>4 DEF Ask, BeginSnapshot
  <1>5. CASE LoadWord
    <2>1. bpc \in 1 .. Len(LoadOrder) + Len(Thresholds) /\ bpc' = bpc + 1
      BY <1>5 DEF LoadWord
    <2>2. bpc' # -1
      BY <2>1, Positions
    <2> QED
      BY <2>2
  <1>6. CASE \E cost \in Costs, load \in Loads : Reject(cost, load)
    BY <1>6 DEF Reject, BeginSnapshot
  <1>7. CASE Launch \/ LaunchFails
    BY <1>7 DEF Launch, LaunchFails
  <1>8. \/ UNCHANGED vars
        \/ Register \/ MarkActive \/ MarkIdle \/ Unregister \/ HpStore \/ HpCrash
        \/ Tick \/ Ask \/ LoadWord \/ Launch \/ LaunchFails
        \/ \E cost \in Costs, load \in Loads : Reject(cost, load)
    BY Zenon DEF Next, BeWork
  <1> QED
    BY Zenon, <1>1, <1>2, <1>3, <1>4, <1>5, <1>6, <1>7, <1>8

\* Whatever the snapshot, torn or not, the limits are the ones that the
\* admission chooses from: never zero, and never above the configured ones
\* (event_be_effective_*_budget_locked, event_be_survival_admission_locked).
THEOREM LimitsFit == Spec => []LimitsAsAdmissionExpects
  <1>1. Init => LimitsAsAdmissionExpects
    BY DEF Init, LimitsAsAdmissionExpects
  <1>2. TypeInv /\ LimitsAsAdmissionExpects /\ [Next]_vars => LimitsAsAdmissionExpects'
    <2> SUFFICES ASSUME TypeInv, LimitsAsAdmissionExpects, [Next]_vars
                 PROVE  LimitsAsAdmissionExpects'
      OBVIOUS
    <2>1. CASE DecideGap
      BY <2>1, GapFits DEF TypeInv
    <2>2. ASSUME NEW cost \in Costs, NEW load \in Loads, Admit(cost, load)
          PROVE  LimitsAsAdmissionExpects'
      BY <2>2, AdmitFits DEF TypeInv
    <2>3. CASE ~DecideGap /\ ~\E cost \in Costs, load \in Loads : Admit(cost, load)
      <3>1. \/ bpc' # -1
            \/ bpc = -1 /\ UNCHANGED <<config, decision>>
        BY <2>3, DecisionKept
      <3> QED
        BY <3>1 DEF LimitsAsAdmissionExpects
    <2> QED
      BY <2>1, <2>2, <2>3
  <1> QED
    BY <1>1, <1>2, TypesCorrect, PTL DEF Spec

---------------------------------------------------------------------------
(* The odds. *)

\* The BE has loaded the first n words and buckets.
Past(n) == bpc > n \/ bpc = -1

\* What a BE that nobody ran into has loaded is what the words are.
Whole ==
  ~torn /\ bpc # 0 =>
    /\ todo = << >>
    /\ Past(1) => snap.state = words.state
    /\ Past(2) => snap.samples = words.samples
    /\ Past(3) => snap.lastIdle = words.lastIdle
    /\ Past(4) => snap.ewma = words.ewma
    /\ \A i \in Buckets : Past(4 + i) => snap.counts[i] = words.counts[i]

\* The episode that has begun is the one of the last launch, and an admitted
\* launch belongs to the episode of its snapshot.
Bid ==
  /\ episode.begun => launched = episode.lastIdle
  /\ bpc = -1 /\ config.policy = "survival" => episode.lastIdle = snap.lastIdle

LEMMA NextWhole == TypeInv /\ Whole /\ [Next]_vars => Whole'
  <1> SUFFICES ASSUME TypeInv, Whole, [Next]_vars PROVE Whole'
    OBVIOUS
  <1>1. bpc \in Int /\ \A i \in Buckets : i \in Nat /\ i > 0 /\ i <= Len(Thresholds)
    BY BucketsType, Positions DEF TypeInv, BeTypes
  <1>2. CASE UNCHANGED vars
    BY <1>2 DEF vars, Whole, Past
  <1>3. CASE Register \/ MarkActive \/ MarkIdle \/ Unregister \/ HpStore \/ HpCrash
    <2>1. torn' = TRUE
      BY <1>3 DEF Register, MarkActive, MarkIdle, Unregister, HpStore, HpCrash, HpCall
    <2> QED
      BY <2>1 DEF Whole
  <1>4. CASE Tick
    BY <1>4 DEF Tick, beVars, hpVars, Whole, Past
  <1>5. CASE Ask \/ \E cost \in Costs, load \in Loads : Reject(cost, load)
    <2>1. bpc' = 1 /\ torn' = (todo # << >>) /\ todo' = todo
      BY <1>5 DEF Ask, Reject, BeginSnapshot, hpVars
    <2>2. ~Past(1)' /\ ~Past(2)' /\ ~Past(3)' /\ ~Past(4)' /\ \A i \in Buckets : ~Past(4 + i)'
      BY <1>1, <2>1 DEF Past
    <2> QED
      BY <2>1, <2>2 DEF Whole
  <1>6. CASE LoadWord
    <2>1. bpc' = bpc + 1 /\ bpc > 0 /\ UNCHANGED <<words, todo, torn>>
      BY <1>1, <1>6, Positions DEF LoadWord, hpVars
    <2>2. /\ snap'.state = IF bpc = 1 THEN words.state ELSE snap.state
          /\ snap'.samples = IF bpc = 2 THEN words.samples ELSE snap.samples
          /\ snap'.lastIdle = IF bpc = 3 THEN words.lastIdle ELSE snap.lastIdle
          /\ snap'.ewma = IF bpc = 4 THEN words.ewma ELSE snap.ewma
          /\ \A i \in Buckets : snap'.counts[i] =
               IF bpc = 4 + i THEN words.counts[i] ELSE snap.counts[i]
      BY <1>6, LoadedWord DEF TypeInv
    <2>3. \A n \in Nat : Past(n)' => Past(n) \/ bpc = n
      BY <1>1, <2>1 DEF Past
    <2>4. \A i \in Buckets : 4 + i \in Nat
      BY <1>1
    <2>5. bpc # 0
      BY <1>1, <2>1
    <2> SUFFICES ASSUME ~torn PROVE Whole'
      BY <2>1 DEF Whole
    <2>6. /\ todo' = << >>
          /\ Past(1)' => snap'.state = words'.state
          /\ Past(2)' => snap'.samples = words'.samples
          /\ Past(3)' => snap'.lastIdle = words'.lastIdle
          /\ Past(4)' => snap'.ewma = words'.ewma
      BY <2>1, <2>2, <2>3, <2>5 DEF Whole
    <2>7. ASSUME NEW i \in Buckets, Past(4 + i)' PROVE snap'.counts[i] = words'.counts[i]
      <3>1. Past(4 + i) \/ bpc = 4 + i
        BY <2>3, <2>4, <2>7
      <3> QED
        BY <2>1, <2>2, <2>5, <3>1 DEF Whole
    <2> QED
      BY <2>6, <2>7 DEF Whole
  <1>7. CASE DecideGap \/ \E cost \in Costs, load \in Loads : Admit(cost, load)
    <2>1. bpc = Final /\ bpc' = -1 /\ UNCHANGED <<words, todo, torn, snap>>
      BY <1>7 DEF DecideGap, Admit, Loaded, hpVars, Final
    <2>2. Past(1) /\ Past(2) /\ Past(3) /\ Past(4) /\ bpc # 0
          /\ \A i \in Buckets : Past(4 + i)
      BY <1>1, <2>1, Positions DEF Past
    <2> QED
      BY <2>1, <2>2 DEF Whole
  <1>8. CASE Launch \/ LaunchFails
    BY <1>8 DEF Launch, LaunchFails, Whole
  <1> QED
    BY <1>2, <1>3, <1>4, <1>5, <1>6, <1>7, <1>8 DEF Next, BeWork

LEMMA NextBid == TypeInv /\ Bid /\ [Next]_vars => Bid'
  <1> SUFFICES ASSUME TypeInv, Bid, [Next]_vars PROVE Bid'
    OBVIOUS
  <1>1. episode \in [lastIdle : 0 .. now, begun : BOOLEAN]
    BY DEF TypeInv, BeTypes
  <1>2. /\ EpisodeNow.lastIdle = snap.lastIdle
        /\ EpisodeNow.begun => launched = EpisodeNow.lastIdle
    BY DEF EpisodeNow, Bid
  <1>3. CASE UNCHANGED vars
    BY <1>3 DEF vars, Bid
  <1>4. CASE Register \/ MarkActive \/ MarkIdle \/ Unregister \/ HpStore \/ HpCrash \/ Tick
    <2>1. UNCHANGED <<config, beVars>>
      BY <1>4 DEF Register, MarkActive, MarkIdle, Unregister, HpStore, HpCrash, HpCall, Tick
    <2>2. UNCHANGED <<config, bpc, snap, episode, launched>>
      BY <2>1 DEF beVars
    <2> QED
      BY <2>2 DEF Bid
  <1>5. CASE Ask
    BY <1>5 DEF Ask, BeginSnapshot, Bid
  <1>6. CASE LoadWord
    <2>1. /\ bpc \in 1 .. Len(LoadOrder) + Len(Thresholds) /\ bpc' = bpc + 1
          /\ UNCHANGED <<episode, launched>>
      BY <1>6 DEF LoadWord
    <2>2. bpc' # -1
      BY <2>1, Positions
    <2> QED
      BY <2>1, <2>2 DEF Bid
  <1>7. CASE DecideGap
    BY <1>7 DEF DecideGap, Bid
  <1>8. ASSUME NEW cost \in Costs, NEW load \in Loads, Admit(cost, load) PROVE Bid'
    <2>1. episode' = EpisodeNow /\ UNCHANGED <<snap, launched>>
      BY <1>8 DEF Admit
    <2> QED
      BY <1>2, <2>1 DEF Bid
  <1>9. ASSUME NEW cost \in Costs, NEW load \in Loads, Reject(cost, load) PROVE Bid'
    <2>1. bpc' = 1 /\ launched' = launched /\ (episode' = EpisodeNow \/ episode' = episode)
      BY <1>9 DEF Reject, BeginSnapshot
    <2> QED
      BY <1>2, <2>1 DEF Bid
  <1>10. CASE Launch
    <2>1. bpc = -1 /\ bpc' = 0
      BY <1>10 DEF Launch
    <2>2. CASE config.policy = "survival"
      <3>1. episode' = [episode EXCEPT !.begun = TRUE] /\ launched' = snap.lastIdle
        BY <1>10, <2>2 DEF Launch
      <3>2. episode'.lastIdle = episode.lastIdle /\ episode.lastIdle = snap.lastIdle
        BY <1>1, <2>1, <2>2, <3>1 DEF Bid
      <3> QED
        BY <2>1, <3>1, <3>2 DEF Bid
    <2>3. CASE config.policy # "survival"
      BY <1>10, <2>1, <2>3 DEF Launch, Bid
    <2> QED
      BY <2>2, <2>3
  <1>11. CASE LaunchFails
    BY <1>11 DEF LaunchFails, Bid
  <1> QED
    BY <1>3, <1>4, <1>5, <1>6, <1>7, <1>8, <1>9, <1>10, <1>11 DEF Next, BeWork

\* The thresholds that pass a test which the smaller ones pass too are the
\* first ones.
LEMMA FirstThresholds ==
  ASSUME NEW P, P \subseteq Buckets,
         \A i \in P : \A j \in Buckets : j <= i => j \in P
  PROVE  Cardinality(P) \in 0 .. Len(Thresholds) /\ P = 1 .. Cardinality(P)
  <1>1. P \subseteq 1 .. Len(Thresholds) /\ Len(Thresholds) \in Nat
    BY BucketsType
  <1>2. \A i \in P : \A j \in 1 .. Len(Thresholds) : j <= i => j \in P
    BY BucketsType
  <1> QED
    BY <1>1, <1>2, FirstBuckets

\* A whole snapshot, complete.
Settling == Whole /\ ~torn /\ bpc = Final

LEMMA SettledSnapshot ==
  ASSUME TypeInv, Settling
  PROVE  /\ todo = << >>
         /\ snap.samples = words.samples /\ snap.lastIdle = words.lastIdle
         /\ \A i \in Buckets : snap.counts[i] = words.counts[i]
  <1>1. Past(2) /\ Past(3) /\ bpc # 0 /\ \A i \in Buckets : Past(4 + i)
    BY Positions, BucketsType DEF Settling, Past
  <1> QED
    BY <1>1 DEF Settling, Whole

\* The odds are of no fewer periods than lasted until now.
LEMMA DenominatorCovers ==
  ASSUME TypeInv, Settling, periods # << >>
  PROVE  Denominator(Elapsed) \in Nat /\ Longer(Elapsed) <= Denominator(Elapsed)
  <1> DEFINE e == Elapsed
             passed == {i \in Buckets : Thresholds[i] <= e}
             k == Cardinality(passed)
             p == periods
             L == Len(periods)
  <1>1. /\ p \in Seq(Nat) /\ p # << >> /\ LastPeriod = p[L] /\ LastPeriod \in 1 .. MaxTime
        /\ periods \in Seq(1 .. MaxTime) /\ L \in Nat /\ L <= MaxPeriods
        /\ words \in WordType(now)
    BY DEF TypeInv, HpInv, HpTypes, LastPeriod
  <1>2. e \in Nat /\ e \in Int
    BY ElapsedType DEF TypeInv
  <1>3. /\ snap.samples = words.samples /\ snap.lastIdle = words.lastIdle
        /\ \A i \in Buckets : snap.counts[i] = words.counts[i]
    BY SettledSnapshot
  <1>4. /\ \/ words.samples = L
           \/ words.samples + 1 = L /\ Behind
        /\ \A i \in Buckets :
             \/ words.counts[i] = Longer(Thresholds[i])
             \/ /\ words.counts[i] + 1 = Longer(Thresholds[i])
                /\ LastPeriod > Thresholds[i] /\ Behind
    BY DEF TypeInv, HpInv, Near
  <1>5. Behind => LastPeriod <= e
    <2>1. words.lastIdle \in Nat /\ now \in Nat
      BY <1>1 DEF WordType, TypeInv, HpInv, HpTypes
    <2> QED
      BY <1>1, <1>3, <2>1 DEF Behind, Elapsed
  <1>6. \A d \in Int : /\ Longer(d) = Cardinality(Over(p, d)) /\ Longer(d) \in Nat
                       /\ Longer(d) <= L
    BY <1>1, LongerType
  <1>7. \A d \in Int : d <= e => Longer(e) <= Longer(d)
    BY <1>1, <1>2, <1>6, OverShrinks
  <1>8. \A d \in Int : d <= e /\ LastPeriod > d /\ LastPeriod <= e => Longer(e) + 1 <= Longer(d)
    BY <1>1, <1>2, <1>6, OverWithoutLast
  <1>9. Denominator(e) = IF passed = {} THEN snap.samples ELSE snap.counts[k]
    BY DEF Denominator
  <1>10. \A i \in passed : i \in Buckets /\ Thresholds[i] <= e
    OBVIOUS
  <1>11. passed # {} => k \in passed
    <2>1. ASSUME NEW i \in passed, NEW j \in Buckets, j <= i PROVE j \in passed
      <3>1. i \in Buckets /\ Thresholds[i] <= e /\ Thresholds[i] \in Nat /\ Thresholds[j] \in Nat
        BY BucketsType
      <3>2. Thresholds[j] <= Thresholds[i]
        BY <2>1, <3>1, BucketsType
      <3> QED
        BY <1>2, <3>1, <3>2
    <2>2. passed \subseteq Buckets
      OBVIOUS
    <2> HIDE DEF passed
    <2>3. k \in 0 .. Len(Thresholds) /\ passed = 1 .. k
      BY <2>1, <2>2, FirstThresholds
    <2> QED
      BY <2>3
  <1> HIDE DEF e, passed, k, p, L
  <1>12. CASE passed = {}
    <2>1. Denominator(e) = words.samples /\ words.samples \in Nat
      BY <1>1, <1>3, <1>9, <1>12 DEF WordType
    <2>2. 0 \in Int /\ 0 <= e /\ LastPeriod > 0
      BY <1>1, <1>2
    <2>3. Behind => Longer(e) + 1 <= Longer(0)
      BY Zenon, <1>5, <1>8, <2>2
    <2>4. Longer(0) <= L /\ Longer(e) <= L /\ Longer(0) \in Nat /\ Longer(e) \in Nat
      BY Zenon, <1>2, <1>6, <2>2
    <2>5. Denominator(e) \in Nat /\ Longer(e) <= Denominator(e)
      BY <1>1, <1>4, <2>1, <2>3, <2>4
    <2> QED
      BY <2>5 DEF e
  <1>13. CASE passed # {}
    <2> DEFINE d == Thresholds[k]
    <2>1. k \in Buckets /\ d <= e /\ d \in Nat
      BY <1>10, <1>11, <1>13, BucketsType
    <2>2. Denominator(e) = words.counts[k] /\ words.counts[k] \in Nat
      BY <1>1, <1>3, <1>9, <1>13, <2>1 DEF WordType
    <2>3. \/ words.counts[k] = Longer(d)
          \/ words.counts[k] + 1 = Longer(d) /\ LastPeriod > d /\ Behind
      BY <1>4, <2>1
    <2> HIDE DEF d
    <2>4. Longer(e) <= Longer(d) /\ Longer(d) \in Nat /\ Longer(e) \in Nat
      BY <1>2, <1>6, <1>7, <2>1
    <2>5. LastPeriod > d /\ Behind => Longer(e) + 1 <= Longer(d)
      BY <1>5, <1>8, <2>1
    <2>6. Denominator(e) \in Nat /\ Longer(e) <= Denominator(e)
      BY <2>2, <2>3, <2>4, <2>5
    <2> QED
      BY <2>6 DEF e
  <1> QED
    BY <1>12, <1>13

\* A share of the periods is in the odds only if they are longer than the target.
LEMMA NumeratorWithin ==
  ASSUME TypeInv, Settling, periods # << >>, NEW x \in Nat
  PROVE  Numerator(x) \in Nat /\ Numerator(x) <= Longer(x)
  <1> DEFINE below == {i \in Buckets : Thresholds[i] < x}
             k == Cardinality(below)
             p == periods
  <1>1. /\ p \in Seq(Nat) /\ periods \in Seq(1 .. MaxTime) /\ Len(periods) <= MaxPeriods
        /\ words \in WordType(now)
    BY DEF TypeInv, HpInv, HpTypes
  <1>2. \A d \in Int : Longer(d) = Cardinality(Over(p, d)) /\ Longer(d) \in Nat
    BY <1>1, LongerType
  <1>3. \A d \in Int : x <= d => Longer(d) <= Longer(x)
    BY <1>1, <1>2, OverShrinks
  <1>4. \A i \in Buckets : snap.counts[i] = words.counts[i]
    BY SettledSnapshot
  <1>5. \A i \in Buckets : words.counts[i] = Longer(Thresholds[i])
                           \/ words.counts[i] + 1 = Longer(Thresholds[i])
    BY DEF TypeInv, HpInv, Near
  <1>6. Numerator(x) = IF below = Buckets THEN 0 ELSE snap.counts[k + 1]
    BY DEF Numerator
  <1>7. CASE below = Buckets
    BY <1>2, <1>6, <1>7
  <1>8. CASE below # Buckets
    <2>1. ASSUME NEW i \in below, NEW j \in Buckets, j <= i PROVE j \in below
      <3>1. i \in Buckets /\ Thresholds[i] < x /\ Thresholds[i] \in Nat /\ Thresholds[j] \in Nat
        BY BucketsType
      <3>2. Thresholds[j] <= Thresholds[i]
        BY <2>1, <3>1, BucketsType
      <3> QED
        BY <3>1, <3>2
    <2>2. below \subseteq Buckets /\ \A i \in Buckets : i \notin below => Thresholds[i] >= x
      BY BucketsType
    <2> HIDE DEF below
    <2>3. k \in 0 .. Len(Thresholds) /\ below = 1 .. k
      BY <2>1, <2>2, FirstThresholds
    <2>4. k # Len(Thresholds)
      BY <1>8, <2>3, BucketsType
    <2> HIDE DEF k
    <2>5. k + 1 \in Buckets /\ k + 1 \notin below
      BY <2>3, <2>4, BucketsType
    <2> DEFINE d == Thresholds[k + 1]
    <2>6. d >= x /\ d \in Nat /\ Numerator(x) = words.counts[k + 1]
      BY <1>4, <1>6, <1>8, <2>2, <2>5, BucketsType
    <2>7. words.counts[k + 1] \in Nat
      BY <1>1, <2>5 DEF WordType
    <2>8. words.counts[k + 1] = Longer(d) \/ words.counts[k + 1] + 1 = Longer(d)
      BY <1>5, <2>5
    <2> HIDE DEF d
    <2>9. Longer(d) <= Longer(x) /\ Longer(d) \in Nat /\ Longer(x) \in Nat
      BY <1>2, <1>3, <2>6
    <2> QED
      BY <2>6, <2>7, <2>8, <2>9
  <1> QED
    BY <1>7, <1>8

\* No period is longer than the clock can run.
LEMMA NoneOverTop ==
  ASSUME TypeInv, NEW x \in Nat, x >= Top
  PROVE  Longer(x) = 0
  <1>1. periods \in Seq(1 .. MaxTime) /\ MaxTime <= Top /\ MaxTime \in Nat
    BY DEF TypeInv, HpInv, HpTypes
  <1>2. \A n \in DOMAIN periods : ~(periods[n] > x)
    BY <1>1
  <1>3. {n \in DOMAIN periods : periods[n] > x} = {}
    BY <1>2
  <1> QED
    BY <1>3, FS_EmptySet DEF Longer

\* A percentage of a quotient that is not zero.
LEMMA ShareOf ==
  ASSUME NEW n \in Nat, NEW d \in Nat, NEW c \in Percent,
         c <= IF d = 0 THEN 0 ELSE Lower(100, (100 * n) \div d)
  PROVE  d > 0 /\ n > 0 /\ c * d \in Nat /\ c * d <= 100 * n
  <1> DEFINE m == 100 * n
             q == m \div d
  <1>1. d > 0 /\ c \in Nat /\ c > 0 /\ m \in Nat
    BY DEF Percent
  <1>2. c <= Lower(100, q)
    BY <1>1
  <1> HIDE DEF m
  <1>3. q \in Nat /\ q * d <= m
    BY <1>1, DivFloor
  <1>4. c <= q
    BY <1>1, <1>2, <1>3 DEF Lower
  <1> HIDE DEF q
  <1>5. c * d \in Nat /\ q * d \in Nat /\ c * d <= q * d
    BY <1>1, <1>3, <1>4, TimesMono
  <1>6. 1 * d <= c * d
    BY <1>1, TimesMono
  <1>7. c * d <= m /\ m > 0
    BY <1>1, <1>3, <1>5, <1>6
  <1> QED
    BY <1>1, <1>5, <1>7 DEF m

\* An admission by the odds.
LEMMA AdmitIsConservative ==
  ASSUME TypeInv, Whole, Bid, NEW cost \in Costs, NEW load \in Loads, Admit(cost, load)
  PROVE  OddsAreConservative'
  <1> DEFINE e == Elapsed
             x == Context
             g == config.guard
             c == config.confidence
             run == Saturating(load, cost)
             all == Saturating(x, run)
             end == Saturating(all, g)
             T == Saturating(e, end)
             n == Numerator(T)
             d == Denominator(e)
             y == IF snap.lastIdle # launched THEN config.context ELSE 0
             target == e + y + load + cost + g
  <1>1. /\ bpc = Final
        /\ UNCHANGED <<config, periods, snap, torn, launched>>
        /\ decision'.elapsed = e /\ decision'.load = load /\ decision'.cost = cost
        /\ decision'.kind = IF VeryLong \/ Cold \/ SparseTail THEN "age" ELSE "odds"
        /\ Admitted(cost, load)
    BY DEF Admit, Loaded, Final, hpVars
  <1>2. \A v : Longer(v)' = Longer(v)
    BY <1>1 DEF Longer
  <1> SUFFICES ASSUME decision'.kind = "odds", ~torn
               PROVE  100 * Longer(target) >= c * Longer(e)
    BY <1>1, <1>2 DEF OddsAreConservative
  <1>3. /\ e \in Nat /\ g \in Nat /\ c \in Percent /\ config.context \in Nat
        /\ cost \in Nat /\ load \in Nat
    BY ElapsedType DEF TypeInv, BeTypes, ConfigType
  <1>4. x \in Nat /\ y \in Nat /\ y <= x
    <2>1. EpisodeNow.begun => snap.lastIdle = launched
      BY DEF EpisodeNow, Bid
    <2>2. x = IF EpisodeNow.begun THEN 0 ELSE config.context
      BY DEF Context
    <2> QED
      BY <1>3, <2>1, <2>2
  <1>5. Settling
    BY <1>1 DEF Settling
  <1>6. ByOdds(cost, load)
    BY <1>1 DEF Admitted
  <1>7. c <= IF d = 0 THEN 0 ELSE Lower(100, (100 * n) \div d)
    <2>1. Odds(cost, load) >= c
      BY <1>6 DEF ByOdds
    <2>2. Odds(cost, load) = IF d = 0 THEN 0 ELSE Lower(100, (100 * n) \div d)
      BY DEF Odds, Probability
    <2> QED
      BY <2>1, <2>2
  <1>8. CASE periods = << >>
    <2>1. \A v \in Nat : Longer(v) = 0
      <3> SUFFICES ASSUME NEW v \in Nat PROVE Longer(v) = 0
        OBVIOUS
      <3>1. {m \in DOMAIN periods : periods[m] > v} = {}
        BY <1>8
      <3> QED
        BY <3>1, FS_EmptySet DEF Longer
    <2>2. target \in Nat
      BY <1>3, <1>4
    <2>3. c \in Nat
      BY <1>3 DEF Percent
    <2> HIDE DEF target, e, c
    <2>4. Longer(target) = 0 /\ Longer(e) = 0
      BY <1>3, <2>1, <2>2
    <2> QED
      BY <2>3, <2>4
  <1>9. CASE periods # << >>
    <2>1. d \in Nat /\ Longer(e) <= d
      BY <1>5, <1>9, DenominatorCovers
    <2>2. T \in Nat /\ (T < Top => T = e + x + load + cost + g)
      <3> HIDE DEF e, x, g
      <3>1. run \in Nat /\ run = IF load + cost > Top THEN Top ELSE load + cost
        BY <1>3, SaturatingSum
      <3> HIDE DEF run
      <3>2. all \in Nat /\ all = IF x + run > Top THEN Top ELSE x + run
        BY <1>4, <3>1, SaturatingSum
      <3> HIDE DEF all
      <3>3. end \in Nat /\ end = IF all + g > Top THEN Top ELSE all + g
        BY <1>3, <3>2, SaturatingSum
      <3> HIDE DEF end
      <3>4. T \in Nat /\ T = IF e + end > Top THEN Top ELSE e + end
        BY <1>3, <3>3, SaturatingSum
      <3> HIDE DEF T
      <3> QED
        BY <1>3, <1>4, <3>1, <3>2, <3>3, <3>4
    <2> HIDE DEF T, d
    <2>3. n \in Nat /\ n <= Longer(T)
      BY <1>5, <1>9, <2>2, NumeratorWithin
    <2> HIDE DEF n
    <2>4. n > 0 /\ c * d \in Nat /\ c * d <= 100 * n
      BY <1>3, <1>7, <2>1, <2>3, ShareOf
    <2>5. T < Top
      <3>1. T >= Top => Longer(T) = 0
        BY <2>2, NoneOverTop
      <3> QED
        BY <2>2, <2>3, <2>4, <3>1
    <2>6. target \in Nat /\ target <= T
      BY <1>3, <1>4, <2>2, <2>5
    <2> HIDE DEF target, e, x, g, y, c
    <2>7. /\ periods \in Seq(1 .. MaxTime) /\ Len(periods) <= MaxPeriods
      BY DEF TypeInv, HpInv, HpTypes
    <2>8. \A v \in Int : /\ Longer(v) = Cardinality(Over(periods, v)) /\ Longer(v) \in Nat
                         /\ periods \in Seq(Nat)
      BY <2>7, LongerType
    <2>9. Longer(T) <= Longer(target)
      <3>1. T \in Int /\ target \in Int /\ periods \in Seq(Nat)
        BY <2>2, <2>6, <2>8
      <3>2. Cardinality(Over(periods, T)) <= Cardinality(Over(periods, target))
        BY <2>6, <3>1, OverShrinks
      <3>3. /\ Longer(T) = Cardinality(Over(periods, T))
            /\ Longer(target) = Cardinality(Over(periods, target))
        BY Zenon, <2>8, <3>1
      <3> QED
        BY <3>2, <3>3
    <2>10. Longer(T) \in Nat /\ Longer(target) \in Nat /\ Longer(e) \in Nat /\ c \in Nat
      <3>1. T \in Int /\ target \in Int /\ e \in Int /\ c \in Nat
        BY <1>3, <2>2, <2>6 DEF Percent
      <3> QED
        BY Zenon, <2>8, <3>1
    <2>11. Longer(e) * c <= d * c /\ Longer(e) * c = c * Longer(e) /\ d * c = c * d
      BY <2>1, <2>10, TimesMono
    <2>12. 100 * n <= 100 * Longer(target)
      BY <2>3, <2>9, <2>10
    <2>13. c * Longer(e) \in Nat /\ 100 * n \in Nat /\ 100 * Longer(target) \in Nat
      BY <2>3, <2>10
    <2> QED
      BY <2>4, <2>11, <2>12, <2>13
  <1> QED
    BY <1>8, <1>9

\* A launch that the histogram admits on a snapshot the HP did not run into
\* ends, if its prediction holds, within the share of the past idle periods that
\* the configuration asks for (event_be_survival_numerator, _denominator and
\* _admission_locked), also after an HP was killed while it counted a period.
THEOREM OddsHold == Spec => []OddsAreConservative
  <1>1. Init => Whole /\ Bid /\ OddsAreConservative
    BY DEF Init, Whole, Bid, OddsAreConservative
  <1>2. TypeInv /\ Whole /\ Bid /\ OddsAreConservative /\ [Next]_vars => OddsAreConservative'
    <2> SUFFICES ASSUME TypeInv, Whole, Bid, OddsAreConservative, [Next]_vars
                 PROVE  OddsAreConservative'
      OBVIOUS
    <2>1. CASE DecideGap
      BY <2>1 DEF DecideGap, NoDecision, OddsAreConservative
    <2>2. ASSUME NEW cost \in Costs, NEW load \in Loads, Admit(cost, load)
          PROVE  OddsAreConservative'
      BY <2>2, AdmitIsConservative
    <2>3. CASE ~DecideGap /\ ~\E cost \in Costs, load \in Loads : Admit(cost, load)
      <3>1. \/ bpc' # -1
            \/ /\ bpc = -1 /\ UNCHANGED <<config, snap, decision, launched>>
               /\ (torn' = torn /\ periods' = periods) \/ torn' = TRUE
        BY <2>3, DecisionKept
      <3>2. periods' = periods => \A v : Longer(v)' = Longer(v)
        BY DEF Longer
      <3> QED
        BY <3>1, <3>2 DEF OddsAreConservative
    <2> QED
      BY <2>1, <2>2, <2>3
  <1> QED
    BY <1>1, <1>2, TypesCorrect, NextWhole, NextBid, PTL DEF Spec
=============================================================================
