-------------------------- MODULE RowSource_proofs --------------------------
(***************************************************************************)
(* Proofs about TwoQCache and RowSource: caches of every size, dimensions, *)
(* sources and callers of every number.                                    *)
(*                                                                         *)
(* For the cache the invariant adds to the properties that the key a       *)
(* lookup is about stands last in the queue of the hot map: as that map    *)
(* keeps at least one key, the evictions stop before they reach it.        *)
(*                                                                         *)
(* A step of the source is a step of the cache or leaves it alone, so the  *)
(* invariant of the cache holds there too.  To it come, in SourceInv, the  *)
(* mutex of the cache (one caller at it) and the bounds of the CROSS join; *)
(* in Coherent and FoundOK, that the cache holds nothing but rows of the   *)
(* dimension, so that what a caller finds is joined with its row; and in   *)
(* DealtOK, that before the first rewind the rows dealt and the rows in    *)
(* the hands of the callers are distinct and lie before the cursor.        *)
(*                                                                         *)
(* OrderOK is about one caller alone: its place in the pass is the items   *)
(* of the rows behind the cursor, plus the number of the combination the   *)
(* CROSS join is at; what was dealt is some passes and that many items of  *)
(* the next.  A combination is the digits of its number, and one step of   *)
(* the join (advanced) goes to the digits of the next number, or ends      *)
(* after the last (Advances).  What the recursive definitions of a pass    *)
(* are is proved by induction on sets of numbers (SetInduction): a         *)
(* function that satisfies the recursion exists, so CHOOSE picks one.      *)
(***************************************************************************)
EXTENDS RowSource, FiniteSetTheorems, SequenceTheorems, WellFoundedInduction, TLAPS

Distinct(order) == \A i, j \in DOMAIN order : order[i] = order[j] => i = j

-----------------------------------------------------------------------------
(* Queues and maps                                                         *)

LEMMA QueueRange ==
    ASSUME NEW order \in Seq(Keys)
    PROVE  /\ Range(order) = {order[i] : i \in 1..Len(order)}
           /\ DOMAIN order = 1..Len(order) /\ Len(order) \in Nat
           /\ \A i \in 1..Len(order) : order[i] \in Keys
BY DEF Range

\* A queue without the entry of a key.
LEMMA RemovedQueue ==
    ASSUME NEW order \in Seq(Keys), Distinct(order), NEW k
    PROVE  /\ Removed(order, k) \in Seq(Keys)
           /\ Range(Removed(order, k)) = Range(order) \ {k}
           /\ Distinct(Removed(order, k))
<1>1. CASE k \notin Range(order)
  BY <1>1 DEF Removed
<1>2. CASE k \in Range(order)
  <2> DEFINE p == position(order, k)
             n == Len(order)
             rest == [i \in 1..(n - 1) |-> IF i < p THEN order[i] ELSE order[i + 1]]
  <2>1. n \in Nat /\ DOMAIN order = 1..n /\ \A i \in 1..n : order[i] \in Keys
    OBVIOUS
  <2>2. \E i \in DOMAIN order : order[i] = k
    BY <1>2 DEF Range
  <2>3. p \in 1..n /\ order[p] = k
    BY <2>1, <2>2 DEF position
  <2>4. Removed(order, k) = rest
    BY <1>2 DEF Removed
  <2> HIDE DEF p
  <2>5. rest \in Seq(Keys) /\ DOMAIN rest = 1..(n - 1)
    <3>1. n - 1 \in Nat
      BY <2>1, <2>3
    <3>2. \A i \in 1..(n - 1) : (IF i < p THEN order[i] ELSE order[i + 1]) \in Keys
      BY <2>1, <2>3
    <3>3. rest \in [1..(n - 1) -> Keys]
      BY <3>2
    <3> HIDE DEF rest
    <3>4. rest \in Seq(Keys)
      BY <3>1, <3>3
    <3>5. DOMAIN rest = 1..(n - 1)
      BY <3>3
    <3> QED
      BY <3>4, <3>5
  <2>6. \A i \in 1..(n - 1) : (rest[i] = order[i] /\ i < p) \/ (rest[i] = order[i + 1] /\ i >= p)
    BY <2>1, <2>3
  <2>7. Range(rest) = Range(order) \ {k}
    <3>1. ASSUME NEW x \in Range(rest) PROVE x \in Range(order) \ {k}
      <4>1. PICK i \in 1..(n - 1) : x = rest[i]
        BY <2>5, <3>1 DEF Range
      <4>2. CASE rest[i] = order[i] /\ i < p
        <5>1. i \in DOMAIN order /\ p \in DOMAIN order /\ i # p
          BY <2>1, <2>3, <4>2
        <5> QED
          BY <5>1, <2>3, <4>1, <4>2 DEF Range, Distinct
      <4>3. CASE rest[i] = order[i + 1] /\ i >= p
        <5>1. i + 1 \in DOMAIN order /\ p \in DOMAIN order /\ i + 1 # p
          BY <2>1, <2>3, <4>3
        <5> QED
          BY <5>1, <2>3, <4>1, <4>3 DEF Range, Distinct
      <4> QED
        BY <2>6, <4>2, <4>3
    <3>2. ASSUME NEW x \in Range(order) \ {k} PROVE x \in Range(rest)
      <4>1. PICK i \in 1..n : x = order[i]
        BY <2>1 DEF Range
      <4>2. i # p
        BY <2>3, <4>1
      <4>3. CASE i < p
        <5>1. i \in 1..(n - 1) /\ rest[i] = order[i]
          BY <2>1, <2>3, <4>3
        <5> QED
          BY <5>1, <2>5, <4>1 DEF Range
      <4>4. CASE i > p
        <5>1. i - 1 \in 1..(n - 1) /\ rest[i - 1] = order[i]
          BY <2>1, <2>3, <4>4
        <5> QED
          BY <5>1, <2>5, <4>1 DEF Range
      <4> QED
        BY <2>1, <2>3, <4>2, <4>3, <4>4
    <3> QED
      BY <3>1, <3>2
  <2>8. Distinct(rest)
    <3> SUFFICES ASSUME NEW i \in 1..(n - 1), NEW j \in 1..(n - 1), rest[i] = rest[j]
                 PROVE  i = j
      BY <2>5 DEF Distinct
    <3>1. \A a, b \in 1..n : order[a] = order[b] => a = b
      BY <2>1 DEF Distinct
    <3>2. i \in 1..n /\ i + 1 \in 1..n /\ j \in 1..n /\ j + 1 \in 1..n /\ p \in 1..n
      BY <2>1, <2>3
    <3> HIDE DEF rest
    <3> QED
      BY <2>1, <2>6, <3>1, <3>2
  <2> QED
    BY <2>4, <2>5, <2>7, <2>8
<1> QED
  BY <1>1, <1>2

\* A queue with a new key at its end.
LEMMA AppendedQueue ==
    ASSUME NEW order \in Seq(Keys), Distinct(order), NEW k \in Keys, k \notin Range(order)
    PROVE  /\ Append(order, k) \in Seq(Keys)
           /\ Range(Append(order, k)) = Range(order) \cup {k}
           /\ Distinct(Append(order, k))
           /\ Append(order, k) # <<>>
           /\ Append(order, k)[Len(Append(order, k))] = k
<1> DEFINE n == Len(order)
           longer == Append(order, k)
<1>1. /\ n \in Nat /\ DOMAIN order = 1..n /\ longer \in Seq(Keys)
      /\ Len(longer) = n + 1 /\ DOMAIN longer = 1..(n + 1)
      /\ \A i \in 1..n : longer[i] = order[i]
      /\ longer[n + 1] = k
  OBVIOUS
<1> HIDE DEF longer
<1>2. Range(longer) = Range(order) \cup {k}
  <2>1. ASSUME NEW x \in Range(longer) PROVE x \in Range(order) \cup {k}
    <3>1. PICK i \in 1..(n + 1) : x = longer[i]
      BY <1>1, <2>1 DEF Range
    <3>2. i \in 1..n \/ i = n + 1
      BY <1>1
    <3> QED
      BY <1>1, <3>1, <3>2 DEF Range
  <2>2. ASSUME NEW x \in Range(order) PROVE x \in Range(longer)
    <3>1. PICK i \in 1..n : x = order[i]
      BY <1>1, <2>2 DEF Range
    <3>2. i \in 1..(n + 1)
      BY <1>1
    <3> QED
      BY <1>1, <3>1, <3>2 DEF Range
  <2>3. n + 1 \in 1..(n + 1)
    BY <1>1
  <2>4. k \in Range(longer)
    BY <1>1, <2>3 DEF Range
  <2> QED
    BY <2>1, <2>2, <2>4
<1>3. Distinct(longer)
  <2>1. \A i \in 1..n : order[i] # k
    BY <1>1 DEF Range
  <2> SUFFICES ASSUME NEW i \in 1..(n + 1), NEW j \in 1..(n + 1), longer[i] = longer[j]
               PROVE  i = j
    BY <1>1 DEF Distinct
  <2>2. \A a, b \in 1..n : order[a] = order[b] => a = b
    BY <1>1 DEF Distinct
  <2> QED
    BY <1>1, <2>1, <2>2
<1>4. longer # <<>>
  BY <1>1
<1> QED
  BY <1>1, <1>2, <1>3, <1>4 DEF longer

LEMMA TouchedQueue ==
    ASSUME NEW order \in Seq(Keys), Distinct(order), NEW k \in Keys
    PROVE  /\ touch(order, k) \in Seq(Keys)
           /\ Range(touch(order, k)) = Range(order) \cup {k}
           /\ Distinct(touch(order, k))
           /\ touch(order, k) # <<>>
           /\ touch(order, k)[Len(touch(order, k))] = k
<1>1. /\ Removed(order, k) \in Seq(Keys) /\ Distinct(Removed(order, k))
      /\ Range(Removed(order, k)) = Range(order) \ {k}
  BY RemovedQueue
<1> QED
  BY <1>1, AppendedQueue DEF touch

\* A queue without its head keeps its last key, unless that was the only one.
LEMMA ShortenedQueue ==
    ASSUME NEW order \in Seq(Keys), Distinct(order), order # <<>>
    PROVE  /\ Tail(order) \in Seq(Keys)
           /\ Range(Tail(order)) = Range(order) \ {Head(order)}
           /\ Distinct(Tail(order))
           /\ Head(order) \in Range(order)
           /\ order[Len(order)] # Head(order) =>
                 Tail(order) # <<>> /\ Tail(order)[Len(Tail(order))] = order[Len(order)]
           /\ order[Len(order)] = Head(order) => Range(order) = {Head(order)}
<1> DEFINE n == Len(order)
           shorter == Tail(order)
<1>1. /\ n \in Nat /\ n > 0 /\ DOMAIN order = 1..n /\ shorter \in Seq(Keys)
      /\ Len(shorter) = n - 1 /\ DOMAIN shorter = 1..(n - 1)
      /\ \A i \in 1..(n - 1) : shorter[i] = order[i + 1]
      /\ Head(order) = order[1]
  OBVIOUS
<1> HIDE DEF shorter
<1>2. \A a, b \in 1..n : order[a] = order[b] => a = b
  BY <1>1 DEF Distinct
<1>3. Range(shorter) = Range(order) \ {order[1]}
  <2>1. ASSUME NEW x \in Range(shorter) PROVE x \in Range(order) \ {order[1]}
    <3>1. PICK i \in 1..(n - 1) : x = shorter[i]
      BY <1>1, <2>1 DEF Range
    <3>2. i + 1 \in 1..n /\ 1 \in 1..n /\ i + 1 # 1 /\ x = order[i + 1]
      BY <1>1, <3>1
    <3> QED
      BY <1>1, <1>2, <3>2 DEF Range
  <2>2. ASSUME NEW x \in Range(order) \ {order[1]} PROVE x \in Range(shorter)
    <3>1. PICK i \in 1..n : x = order[i]
      BY <1>1, <2>2 DEF Range
    <3>2. i - 1 \in 1..(n - 1) /\ shorter[i - 1] = order[i]
      BY <1>1, <2>2, <3>1
    <3> QED
      BY <1>1, <3>1, <3>2 DEF Range
  <2> QED
    BY <2>1, <2>2
<1>4. Distinct(shorter)
  <2> SUFFICES ASSUME NEW i \in 1..(n - 1), NEW j \in 1..(n - 1), shorter[i] = shorter[j]
               PROVE  i = j
    BY <1>1 DEF Distinct
  <2>1. i + 1 \in 1..n /\ j + 1 \in 1..n
    BY <1>1
  <2> QED
    BY <1>1, <1>2, <2>1
<1>5. order[1] \in Range(order)
  BY <1>1 DEF Range
<1>6. ASSUME order[n] # order[1]
      PROVE  shorter # <<>> /\ shorter[Len(shorter)] = order[n]
  <2>1. n > 1 /\ n - 1 \in 1..(n - 1)
    BY <1>1, <1>6
  <2> QED
    BY <1>1, <2>1
<1>7. ASSUME order[n] = order[1]
      PROVE  Range(order) = {order[1]}
  <2>1. n = 1
    BY <1>1, <1>2, <1>7
  <2> QED
    BY <1>1, <2>1 DEF Range
<1> QED
  BY <1>1, <1>3, <1>4, <1>5, <1>6, <1>7 DEF shorter

LEMMA MapOperations ==
    ASSUME NEW map \in Maps
    PROVE  /\ DOMAIN map \subseteq Keys
           /\ \A k \in DOMAIN map : map[k] \in Values
           /\ \A k : Without(map, k) \in Maps /\ DOMAIN Without(map, k) = DOMAIN map \ {k}
           /\ \A k \in Keys, v \in Values :
                 With(map, k, v) \in Maps /\ DOMAIN With(map, k, v) = DOMAIN map \cup {k}
<1>1. PICK S \in SUBSET Keys : map \in [S -> Values]
  BY DEF Maps
<1>2. ASSUME NEW k
      PROVE  Without(map, k) \in Maps /\ DOMAIN Without(map, k) = DOMAIN map \ {k}
  <2>1. Without(map, k) \in [S \ {k} -> Values] /\ DOMAIN map = S
    BY <1>1 DEF Without
  <2>2. S \ {k} \in SUBSET Keys
    BY <1>1
  <2> QED
    BY <2>1, <2>2 DEF Maps
<1>3. ASSUME NEW k \in Keys, NEW v \in Values
      PROVE  With(map, k, v) \in Maps /\ DOMAIN With(map, k, v) = DOMAIN map \cup {k}
  <2>1. With(map, k, v) \in [S \cup {k} -> Values] /\ DOMAIN map = S
    BY <1>1 DEF With
  <2>2. S \cup {k} \in SUBSET Keys
    BY <1>1
  <2> QED
    BY <2>1, <2>2 DEF Maps
<1> QED
  BY <1>1, <1>2, <1>3

\* A map over its limit of one or more has a key, and more than one.
LEMMA FullMap ==
    ASSUME NEW map \in Maps, NEW limit \in Nat \ {0}, Cardinality(DOMAIN map) > limit
    PROVE  DOMAIN map # {} /\ \A k : DOMAIN map # {k}
<1>1. IsFiniteSet(DOMAIN map) /\ Cardinality(DOMAIN map) \in Nat
  BY CacheAssumption, MapOperations, FS_Subset, FS_CardinalityType
<1>2. Cardinality({}) = 0
  BY FS_EmptySet
<1>3. \A k : Cardinality({k}) = 1
  BY FS_Singleton
<1>4. DOMAIN map # {}
  BY <1>2
<1>5. \A k : DOMAIN map # {k}
  <2> SUFFICES ASSUME NEW k, DOMAIN map = {k} PROVE FALSE
    OBVIOUS
  <2>1. Cardinality(DOMAIN map) = 1
    BY <1>3
  <2> QED
    BY <2>1
<1> QED
  BY <1>4, <1>5

\* Taking a key out of a map does not put it over a limit.
LEMMA SmallerMap ==
    ASSUME NEW map \in Maps, NEW k, NEW limit \in Nat, ~(Cardinality(DOMAIN map) > limit)
    PROVE  ~(Cardinality(DOMAIN map \ {k}) > limit)
<1>1. IsFiniteSet(DOMAIN map) /\ Cardinality(DOMAIN map) \in Nat
  BY CacheAssumption, MapOperations, FS_Subset, FS_CardinalityType
<1>2. Cardinality(DOMAIN map \ {k}) \in Nat /\ Cardinality(DOMAIN map \ {k}) <= Cardinality(DOMAIN map)
  BY <1>1, FS_Subset, FS_CardinalityType
<1> QED
  BY <1>1, <1>2

-----------------------------------------------------------------------------
(* The invariant                                                           *)

CacheInv ==
    /\ QueuesAgree /\ EvictionProgresses
    /\ ~busy => wanted = {}
    /\ \A k \in wanted : hot_order # <<>> /\ Last(hot_order) = k

\* What the queues of an operation make of the parts of the invariant about one map.
LEMMA QueueFacts ==
    ASSUME QueuesAgree
    PROVE  /\ hot \in Maps /\ cold \in Maps
           /\ hot_order \in Seq(Keys) /\ Distinct(hot_order) /\ Range(hot_order) = DOMAIN hot
           /\ cold_order \in Seq(Keys) /\ Distinct(cold_order) /\ Range(cold_order) = DOMAIN cold
BY DEF QueuesAgree, IsQueueOf, Distinct

\* A loop over a map whose queue agrees with it has something to evict.
LEMMA FullQueue ==
    ASSUME NEW map \in Maps, NEW order \in Seq(Keys), Range(order) = DOMAIN map, Distinct(order),
           NEW limit \in Nat \ {0}, Cardinality(DOMAIN map) > limit
    PROVE  /\ order # <<>> /\ Head(order) \in DOMAIN map
           /\ Last(order) # Head(order)
<1>1. DOMAIN map # {} /\ \A k : DOMAIN map # {k}
  BY FullMap
<1>2. order # <<>>
  BY <1>1 DEF Range
<1> QED
  BY <1>1, <1>2, ShortenedQueue DEF Last

LEMMA InitCache == CacheInit => CacheInv
<1> SUFFICES ASSUME CacheInit PROVE CacheInv
  OBVIOUS
<1> USE DEF CacheInit
<1>1. <<>> \in Maps
  <2>1. <<>> \in [{} -> Values]
    OBVIOUS
  <2> QED
    BY <2>1 DEF Maps
<1>2. IsQueueOf(<<>>, <<>>)
  BY DEF IsQueueOf, Range
<1>3. ~hot_full /\ ~cold_full
  <2>1. DOMAIN hot = {} /\ DOMAIN cold = {}
    OBVIOUS
  <2>2. Cardinality({}) = 0
    BY FS_EmptySet
  <2> QED
    BY <2>1, <2>2, CacheAssumption DEF hot_full, cold_full
<1>4. DOMAIN hot \cap DOMAIN cold = {}
  OBVIOUS
<1>5. QueuesAgree
  BY <1>1, <1>2, <1>4 DEF QueuesAgree
<1>6. EvictionProgresses
  BY <1>3 DEF EvictionProgresses
<1> QED
  BY <1>5, <1>6 DEF CacheInv

\* Whatever an operation does to the maps: if the queues agree after it, the loops have
\* something to evict as long as the cache is busy.
LEMMA BusyProgressNext ==
    ASSUME QueuesAgree', busy'
    PROVE  EvictionProgresses'
<1>1. /\ hot' \in Maps /\ cold' \in Maps
      /\ hot_order' \in Seq(Keys) /\ Distinct(hot_order)' /\ Range(hot_order)' = DOMAIN hot'
      /\ cold_order' \in Seq(Keys) /\ Distinct(cold_order)' /\ Range(cold_order)' = DOMAIN cold'
  BY DEF QueuesAgree, IsQueueOf, Distinct
<1>2. hot_full' => hot_order' # <<>> /\ Head(hot_order') \in DOMAIN hot'
  BY <1>1, FullQueue, CacheAssumption DEF hot_full, Distinct
<1>3. cold_full' => cold_order' # <<>> /\ Head(cold_order') \in DOMAIN cold'
  BY <1>1, FullQueue, CacheAssumption DEF cold_full, Distinct
<1> QED
  BY <1>2, <1>3 DEF EvictionProgresses

LEMMA GetInvariant == ASSUME CacheInv, NEW k \in Keys, Get(k) PROVE CacheInv'
<1> USE DEF Get, CacheInv
<1>0. QueuesAgree
  OBVIOUS
<1>1. CASE k \in DOMAIN hot
  <2>1. /\ hot_order' = touch(hot_order, k) /\ hot' = hot /\ cold' = cold
        /\ cold_order' = cold_order /\ busy' /\ wanted' = {k}
    BY <1>1
  <2>2. /\ touch(hot_order, k) \in Seq(Keys)
        /\ Range(touch(hot_order, k)) = DOMAIN hot
        /\ Distinct(touch(hot_order, k))
        /\ touch(hot_order, k) # <<>> /\ Last(touch(hot_order, k)) = k
    <3>1. hot_order \in Seq(Keys) /\ Distinct(hot_order) /\ Range(hot_order) = DOMAIN hot
      BY <1>0, QueueFacts
    <3>2. Range(hot_order) \cup {k} = DOMAIN hot
      BY <1>1, <3>1
    <3> QED
      BY ONLY k \in Keys, <3>1, <3>2, TouchedQueue DEF Last
  <2>3. QueuesAgree'
    BY <1>0, <2>1, <2>2 DEF QueuesAgree, IsQueueOf, Distinct
  <2> QED
    BY <2>1, <2>2, <2>3, BusyProgressNext
<1>2. CASE k \notin DOMAIN hot
  <2>1. k \in DOMAIN cold
    BY <1>2 DEF contains
  <2>2. /\ cold' = Without(cold, k) /\ cold_order' = Removed(cold_order, k)
        /\ hot' = With(hot, k, cold[k]) /\ hot_order' = Append(hot_order, k)
        /\ busy' /\ wanted' = {k}
    BY <1>2 DEF promoted
  <2>3. /\ cold' \in Maps /\ DOMAIN cold' = DOMAIN cold \ {k}
        /\ hot' \in Maps /\ DOMAIN hot' = DOMAIN hot \cup {k}
    BY <1>0, <2>1, <2>2, QueueFacts, MapOperations
  <2>4. /\ cold_order' \in Seq(Keys) /\ Range(cold_order') = DOMAIN cold \ {k}
        /\ Distinct(cold_order')
    BY <1>0, <2>2, QueueFacts, RemovedQueue
  <2>5. /\ hot_order' \in Seq(Keys) /\ Range(hot_order') = DOMAIN hot \cup {k}
        /\ Distinct(hot_order') /\ hot_order' # <<>> /\ Last(hot_order') = k
    BY <1>0, <1>2, <2>2, QueueFacts, AppendedQueue DEF Last
  <2>6. DOMAIN hot' \cap DOMAIN cold' = {}
    BY <1>0, <2>3 DEF QueuesAgree
  <2>7. QueuesAgree'
    BY <2>2, <2>3, <2>4, <2>5, <2>6 DEF QueuesAgree, IsQueueOf, Distinct
  <2> QED
    BY <2>2, <2>5, <2>7, BusyProgressNext DEF Last
<1> QED
  BY <1>1, <1>2

LEMMA InsertInvariant ==
    ASSUME CacheInv, NEW k \in Keys, NEW v \in Values, Insert(k, v)
    PROVE  CacheInv'
<1> USE DEF Insert, CacheInv
<1>0. QueuesAgree /\ busy' /\ wanted' = {}
  OBVIOUS
<1>1. CASE k \in DOMAIN hot
  <2>1. hot' = With(hot, k, v) /\ hot_order' = touch(hot_order, k) /\ cold' = cold /\ cold_order' = cold_order
    BY <1>1
  <2>2. hot' \in Maps /\ DOMAIN hot' = DOMAIN hot
    <3>1. hot \in Maps
      BY <1>0, QueueFacts
    <3>2. With(hot, k, v) \in Maps /\ DOMAIN With(hot, k, v) = DOMAIN hot \cup {k}
      BY <3>1, MapOperations
    <3> QED
      BY <1>1, <2>1, <3>2
  <2>3. hot_order' \in Seq(Keys) /\ Range(hot_order') = DOMAIN hot /\ Distinct(hot_order')
    <3>1. hot_order \in Seq(Keys) /\ Distinct(hot_order) /\ Range(hot_order) = DOMAIN hot
      BY <1>0, QueueFacts
    <3>2. Range(hot_order) \cup {k} = DOMAIN hot
      BY <1>1, <3>1
    <3> QED
      BY <2>1, <3>1, <3>2, TouchedQueue
  <2>4. QueuesAgree'
    BY <1>0, <2>1, <2>2, <2>3 DEF QueuesAgree, IsQueueOf, Distinct
  <2> QED
    BY <1>0, <2>4, BusyProgressNext
<1>2. CASE k \notin DOMAIN hot
  <2>1. cold' = With(cold, k, v) /\ cold_order' = touch(cold_order, k) /\ hot' = hot /\ hot_order' = hot_order
    BY <1>2
  <2>2. cold' \in Maps /\ DOMAIN cold' = DOMAIN cold \cup {k}
    BY <1>0, <2>1, QueueFacts, MapOperations
  <2>3. /\ cold_order' \in Seq(Keys) /\ Range(cold_order') = DOMAIN cold \cup {k}
        /\ Distinct(cold_order')
    BY <1>0, <2>1, QueueFacts, TouchedQueue
  <2>4. DOMAIN hot' \cap DOMAIN cold' = {}
    BY <1>0, <1>2, <2>1, <2>2 DEF QueuesAgree
  <2>5. QueuesAgree'
    BY <1>0, <2>1, <2>2, <2>3, <2>4 DEF QueuesAgree, IsQueueOf, Distinct
  <2> QED
    BY <1>0, <2>5, BusyProgressNext
<1> QED
  BY <1>1, <1>2

LEMMA RemoveInvariant == ASSUME CacheInv, NEW k \in Keys, RemoveKey(k) PROVE CacheInv'
<1> USE DEF RemoveKey, CacheInv
<1>0. QueuesAgree /\ ~busy /\ ~busy' /\ wanted' = {} /\ ~hot_full /\ ~cold_full
  BY DEF EvictionProgresses
<1>1. CASE k \in DOMAIN hot
  <2>1. hot' = Without(hot, k) /\ hot_order' = Removed(hot_order, k) /\ cold' = cold /\ cold_order' = cold_order
    BY <1>1
  <2>2. hot' \in Maps /\ DOMAIN hot' = DOMAIN hot \ {k}
    BY <1>0, <2>1, QueueFacts, MapOperations
  <2>3. hot_order' \in Seq(Keys) /\ Range(hot_order') = DOMAIN hot \ {k} /\ Distinct(hot_order')
    BY <1>0, <2>1, QueueFacts, RemovedQueue
  <2>4. QueuesAgree'
    BY <1>0, <2>1, <2>2, <2>3 DEF QueuesAgree, IsQueueOf, Distinct
  <2>5. ~hot_full' /\ ~cold_full'
    BY <1>0, <2>1, <2>2, QueueFacts, SmallerMap, CacheAssumption DEF hot_full, cold_full
  <2> QED
    BY <1>0, <2>4, <2>5 DEF EvictionProgresses
<1>2. CASE k \notin DOMAIN hot
  <2>1. cold' = Without(cold, k) /\ cold_order' = Removed(cold_order, k) /\ hot' = hot /\ hot_order' = hot_order
    BY <1>2
  <2>2. cold' \in Maps /\ DOMAIN cold' = DOMAIN cold \ {k}
    BY <1>0, <2>1, QueueFacts, MapOperations
  <2>3. cold_order' \in Seq(Keys) /\ Range(cold_order') = DOMAIN cold \ {k} /\ Distinct(cold_order')
    BY <1>0, <2>1, QueueFacts, RemovedQueue
  <2>4. QueuesAgree'
    BY <1>0, <2>1, <2>2, <2>3 DEF QueuesAgree, IsQueueOf, Distinct
  <2>5. ~hot_full' /\ ~cold_full'
    BY <1>0, <2>1, <2>2, QueueFacts, SmallerMap, CacheAssumption DEF hot_full, cold_full
  <2> QED
    BY <1>0, <2>4, <2>5 DEF EvictionProgresses
<1> QED
  BY <1>1, <1>2

LEMMA EvictColdInvariant == ASSUME CacheInv, EvictCold PROVE CacheInv'
<1> USE DEF EvictCold, CacheInv
<1>1. QueuesAgree /\ busy /\ busy' /\ wanted' = wanted /\ hot' = hot /\ hot_order' = hot_order
  BY DEF QueuesAgree
<1>2. cold_order # <<>>
  BY DEF EvictionProgresses
<1>3. cold' = Without(cold, Head(cold_order)) /\ cold_order' = Tail(cold_order)
  BY <1>2
<1>4. cold' \in Maps /\ DOMAIN cold' = DOMAIN cold \ {Head(cold_order)}
  BY <1>1, <1>3, QueueFacts, MapOperations
<1>5. /\ cold_order' \in Seq(Keys) /\ Distinct(cold_order')
      /\ Range(cold_order') = DOMAIN cold \ {Head(cold_order)}
  BY <1>1, <1>2, <1>3, QueueFacts, ShortenedQueue
<1>6. QueuesAgree'
  BY <1>1, <1>4, <1>5 DEF QueuesAgree, IsQueueOf, Distinct
<1> QED
  BY <1>1, <1>6, BusyProgressNext DEF Last

LEMMA EvictHotInvariant == ASSUME CacheInv, EvictHot PROVE CacheInv'
<1> USE DEF EvictHot, CacheInv
<1> DEFINE oldest == Head(hot_order)
<1>1. QueuesAgree /\ busy' /\ wanted' = wanted /\ hot_full
  BY DEF QueuesAgree
<1>2. hot_order # <<>> /\ oldest \in DOMAIN hot /\ Last(hot_order) # oldest
  BY <1>1, QueueFacts, FullQueue, CacheAssumption DEF hot_full
<1>3. /\ hot_order' = Tail(hot_order)
      /\ hot' = Without(hot, oldest) /\ cold' = With(cold, oldest, hot[oldest])
      /\ cold_order' = Append(cold_order, oldest)
  BY <1>2
<1>4. oldest \in Keys /\ hot[oldest] \in Values /\ oldest \notin DOMAIN cold
  BY <1>1, <1>2, QueueFacts, MapOperations DEF QueuesAgree
<1>5. /\ hot' \in Maps /\ DOMAIN hot' = DOMAIN hot \ {oldest}
      /\ cold' \in Maps /\ DOMAIN cold' = DOMAIN cold \cup {oldest}
  BY <1>1, <1>3, <1>4, QueueFacts, MapOperations
<1>6. /\ hot_order' \in Seq(Keys) /\ Distinct(hot_order')
      /\ Range(hot_order') = DOMAIN hot \ {oldest}
      /\ hot_order' # <<>> /\ Last(hot_order') = Last(hot_order)
  BY <1>1, <1>2, <1>3, QueueFacts, ShortenedQueue DEF Last
<1>7. /\ cold_order' \in Seq(Keys) /\ Distinct(cold_order')
      /\ Range(cold_order') = DOMAIN cold \cup {oldest}
  BY <1>1, <1>3, <1>4, QueueFacts, AppendedQueue
<1>8. DOMAIN hot' \cap DOMAIN cold' = {}
  BY <1>1, <1>5 DEF QueuesAgree
<1>9. QueuesAgree'
  BY <1>1, <1>5, <1>6, <1>7, <1>8 DEF QueuesAgree, IsQueueOf, Distinct
<1> QED
  BY <1>1, <1>6, <1>9, BusyProgressNext DEF Last

LEMMA ReturnInvariant == ASSUME CacheInv, Return PROVE CacheInv'
BY DEF CacheInv, Return, QueuesAgree, IsQueueOf, EvictionProgresses, hot_full, cold_full, Last

LEMMA NextCache == CacheInv /\ [CacheNext]_cacheVars => CacheInv'
<1> SUFFICES ASSUME CacheInv, [CacheNext]_cacheVars PROVE CacheInv'
  OBVIOUS
<1>1. CASE UNCHANGED cacheVars
  BY <1>1 DEF CacheInv, cacheVars, QueuesAgree, IsQueueOf, EvictionProgresses, hot_full, cold_full, Last
<1>2. CASE Evict
  BY <1>2, EvictColdInvariant, EvictHotInvariant DEF Evict
<1>3. CASE Return
  BY <1>3, ReturnInvariant
<1>4. ASSUME NEW k \in Keys, Get(k) PROVE CacheInv'
  BY <1>4, GetInvariant
<1>5. ASSUME NEW k \in Keys, RemoveKey(k) PROVE CacheInv'
  BY <1>5, RemoveInvariant
<1>6. ASSUME NEW k \in Keys, NEW v \in Values, Insert(k, v) PROVE CacheInv'
  BY <1>6, InsertInvariant
<1> QED
  BY <1>1, <1>2, <1>3, <1>4, <1>5, <1>6 DEF CacheNext

\* A key whose value the operation under way returns is in the hot map.
LEMMA LookupFinds == ASSUME CacheInv, NEW k \in wanted PROVE k \in DOMAIN hot
<1>1. hot_order # <<>> /\ Last(hot_order) = k
  BY DEF CacheInv
<1>2. hot_order \in Seq(Keys) /\ Range(hot_order) = DOMAIN hot
  BY QueueFacts DEF CacheInv
<1>3. Len(hot_order) \in DOMAIN hot_order
  BY <1>1, <1>2
<1> QED
  BY <1>1, <1>2, <1>3 DEF Last, Range

LEMMA SoundCache == CacheInv => CacheSound
BY LookupFinds DEF CacheInv, CacheSound, LookupReturns

-----------------------------------------------------------------------------
(* Theorems                                                                *)

\* CacheInv is an invariant of every sequence of operations on the cache.
THEOREM CacheInvariant == CacheSpec => []CacheInv
BY InitCache, NextCache, PTL DEF CacheSpec

\* Whatever the operations and the sizes of the maps: the queues and the maps agree, the
\* eviction loops always have a key to evict, and a lookup returns the value it promoted.
THEOREM CacheIsSound == CacheSpec => []CacheSound
BY SoundCache, CacheInvariant, PTL

-----------------------------------------------------------------------------
(* The source                                                              *)

\* A caller that has read a row and not yet dealt it.
Pending(c) == pc[c] \in {"lookup", "cached", "joined"}

CrossOK ==
    \/ cross = {}
    \/ \E r \in DOMAIN source.rows, ix \in [1..source.crosses -> Nat] :
          /\ cross = {[row |-> r, indices |-> ix]}
          /\ \A j \in 1..source.crosses : ix[j] \in 1..width(r, j)

CallersOK ==
    /\ pc \in [Callers -> places]
    /\ row \in [Callers -> 0..Len(source.rows)]
    /\ found \in [Callers -> Values \cup {NoValue}]
    /\ again \in [Callers -> BOOLEAN]
    /\ calls \in [Callers -> Nat] /\ \A c \in Callers : calls[c] <= source.asks[c]

\* The cache works for the one caller that is at it, and for a key it has.
LockOK ==
    /\ busy => cache_locked
    /\ \A c, d \in Callers : pc[c] = "cached" /\ pc[d] = "cached" => c = d
    /\ \A c \in Callers : Pending(c) => row[c] \in DOMAIN source.rows
    /\ \A c \in Callers : pc[c] \in {"lookup", "cached"} => key(c) # NoValue

SourceInv ==
    /\ CacheInv
    /\ source \in Cases /\ cursor \in 0..Len(source.rows) /\ poisoned \in BOOLEAN
    /\ CrossOK /\ CallersOK /\ LockOK

\* The maps of the cache hold the rows of the dimension.
Coherent ==
    /\ \A k \in DOMAIN hot : hot[k] = Dimension[k]
    /\ \A k \in DOMAIN cold : cold[k] = Dimension[k]

\* What a caller has found is the row joined with its own.
FoundOK ==
    /\ \A c \in Callers : Pending(c) => source.rows[row[c]].kept
    /\ \A c \in Callers : pc[c] = "lookup" => found[c] = NoValue
    /\ \A c \in Callers : pc[c] = "cached" =>
          wanted = {key(c)} \/ (wanted = {} /\ found[c] = Looked(row[c]))
    /\ \A c \in Callers : pc[c] = "joined" /\ source.join # "none" => found[c] = Looked(row[c])

\* Before the first rewind, the rows dealt and those callers hold are rows read, each once.
Onwards ==
    /\ \A c \in Callers : again[c] => rewinds # 0
    /\ rewinds = 0 =>
        /\ \A i \in DOMAIN dealt : dealt[i].row \in 1..cursor
        /\ \A i, j \in DOMAIN dealt : dealt[i].row = dealt[j].row => i = j
        /\ \A c \in Callers : Pending(c) => row[c] <= cursor
        /\ \A c \in Callers, i \in DOMAIN dealt : Pending(c) => dealt[i].row # row[c]
        /\ \A c, d \in Callers : Pending(c) /\ Pending(d) /\ row[c] = row[d] => c = d

LEMMA SourceFacts ==
    ASSUME source \in Cases
    PROVE  /\ Len(source.rows) \in Nat /\ DOMAIN source.rows = 1..Len(source.rows)
           /\ source.crosses \in Nat /\ source.asks \in [Callers -> Nat]
           /\ source.join \in {"none", "inner", "left"} /\ source.indexed \in BOOLEAN
           /\ \A r \in DOMAIN source.rows :
                /\ source.rows[r].kept \in BOOLEAN
                /\ source.rows[r].key \in Keys \cup {NoValue}
                /\ source.rows[r].matches \in Seq(Nat)
                /\ Len(source.rows[r].matches) = source.crosses
<1>1. source \in Source
  BY RowAssumption
<1>2. source.rows \in Seq(Row) /\ source.crosses \in Nat /\ source.asks \in [Callers -> Nat]
      /\ source.join \in {"none", "inner", "left"} /\ source.indexed \in BOOLEAN
  BY <1>1 DEF Source
<1>3. Len(source.rows) \in Nat /\ DOMAIN source.rows = 1..Len(source.rows)
      /\ \A r \in DOMAIN source.rows : source.rows[r] \in Row
  BY <1>2, LenProperties, ElementOfSeq
<1>4. \A r \in DOMAIN source.rows : Len(source.rows[r].matches) = source.crosses
  BY RowAssumption
<1> QED
  BY <1>2, <1>3, <1>4 DEF Row

LEMMA WidthFacts ==
    ASSUME source \in Cases, NEW r \in DOMAIN source.rows, NEW j \in 1..source.crosses
    PROVE  /\ source.rows[r].matches[j] \in Nat /\ width(r, j) \in Nat /\ 1 <= width(r, j)
           /\ source.rows[r].matches[j] # 0 => width(r, j) = source.rows[r].matches[j]
<1>1. source.rows[r].matches[j] \in Nat
  BY SourceFacts, ElementOfSeq
<1> QED
  BY <1>1 DEF width

\* The key a caller looks up is a key of the dimension.
LEMMA LookedUp ==
    ASSUME SourceInv, NEW c \in Callers, pc[c] \in {"lookup", "cached"}
    PROVE  /\ row[c] \in DOMAIN source.rows /\ key(c) \in Keys
           /\ Dimension[key(c)] \in Values \cup {NoValue} /\ Looked(row[c]) = Dimension[key(c)]
<1>1. row[c] \in DOMAIN source.rows /\ key(c) # NoValue
  BY DEF SourceInv, LockOK, Pending
<1>2. key(c) \in Keys
  BY <1>1, SourceFacts DEF SourceInv, key
<1> QED
  BY <1>1, <1>2, RowAssumption DEF Looked, key

\* Every step is one of the cache, or leaves it alone.
LEMMA CacheSteps == SourceInv /\ [Next]_vars => [CacheNext]_cacheVars
<1> SUFFICES ASSUME SourceInv, [Next]_vars PROVE [CacheNext]_cacheVars
  OBVIOUS
<1>1. ASSUME NEW c \in Callers, Lookup(c) PROVE [CacheNext]_cacheVars
  <2>1. key(c) \in Keys /\ Dimension[key(c)] \in Values \cup {NoValue}
    BY <1>1, LookedUp DEF Lookup
  <2>2. Miss(key(c)) => UNCHANGED cacheVars
    BY DEF Miss
  <2> QED
    BY <1>1, <2>1, <2>2 DEF Lookup, CacheNext
<1>2. ASSUME NEW c \in Callers, Cached(c) PROVE [CacheNext]_cacheVars
  BY <1>2 DEF Cached, CacheNext
<1>3. CASE Evicts
  BY <1>3 DEF Evicts, CacheNext
<1>4. ASSUME NEW c \in Callers, Step(c), ~Lookup(c), ~Cached(c) PROVE UNCHANGED cacheVars
  BY <1>4 DEF Step, Call, Check, Read, Rewind, Joined, Combine
<1>5. CASE UNCHANGED vars
  BY <1>5 DEF vars
<1> QED
  BY <1>1, <1>2, <1>3, <1>4, <1>5 DEF Next, Done

\* The next combination of a CROSS join, if there is one, is within its matches.
LEMMA CombinedCross ==
    ASSUME SourceInv, NEW s \in cross, UNCHANGED source,
           cross' = {[s EXCEPT !.indices = i] : i \in advanced(s.indices, source.rows[s.row].matches)}
    PROVE  CrossOK'
<1>1. PICK r \in DOMAIN source.rows, ix \in [1..source.crosses -> Nat] :
          /\ s = [row |-> r, indices |-> ix]
          /\ \A j \in 1..source.crosses : ix[j] \in 1..width(r, j)
  BY DEF SourceInv, CrossOK
<1> DEFINE m == source.rows[r].matches
           growing == {j \in 1..source.crosses : ix[j] < m[j]}
           last == {j \in growing : \A i \in growing : i <= j}
           next(g) == [j \in 1..source.crosses |->
                         IF j < g THEN ix[j] ELSE IF j = g THEN ix[j] + 1 ELSE 1]
<1>2. advanced(s.indices, source.rows[s.row].matches) = {next(g) : g \in last}
  BY <1>1 DEF advanced
<1>3. cross' = {[row |-> r, indices |-> next(g)] : g \in last}
  BY <1>1, <1>2
<1>4. CASE last = {}
  <2>1. cross' = {}
    BY <1>3, <1>4
  <2> QED
    BY <2>1 DEF CrossOK
<1>5. ASSUME NEW g \in last PROVE CrossOK'
  <2>1. source \in Cases /\ source.crosses \in Nat
    BY SourceFacts DEF SourceInv
  <2>2. last = {g}
    BY <1>5, <2>1
  <2>3. cross' = {[row |-> r, indices |-> next(g)]}
    BY <1>3, <2>2
  <2>4. g \in 1..source.crosses /\ ix[g] < m[g]
    BY <1>5
  <2>5. ASSUME NEW j \in 1..source.crosses PROVE next(g)[j] \in 1..width(r, j)
    <3>1. m[j] \in Nat /\ width(r, j) \in Nat /\ 1 <= width(r, j) /\ (m[j] # 0 => width(r, j) = m[j])
      BY <2>1, WidthFacts
    <3>2. ix[j] \in Nat /\ ix[j] \in 1..width(r, j)
      BY <1>1
    <3>3. CASE j < g
      BY <3>2, <3>3
    <3>4. CASE j = g
      <4>1. next(g)[j] = ix[j] + 1 /\ ix[j] < m[j]
        BY <2>4, <3>4
      <4> HIDE DEF next, m
      <4> QED
        BY <3>1, <3>2, <4>1
    <3>5. CASE ~(j < g) /\ j # g
      BY <3>1, <3>5
    <3> QED
      BY <3>3, <3>4, <3>5
  <2>6. next(g) \in [1..source.crosses -> Nat]
    <3>1. \A j \in 1..source.crosses : next(g)[j] \in Nat
      <4> HIDE DEF next
      <4> QED
        BY <2>1, <2>5, WidthFacts
    <3> QED
      BY <3>1
  <2> HIDE DEF next
  <2>7. \E q \in DOMAIN source.rows, nx \in [1..source.crosses -> Nat] :
           /\ cross' = {[row |-> q, indices |-> nx]}
           /\ \A j \in 1..source.crosses : nx[j] \in 1..width(q, j)
    BY <2>3, <2>5, <2>6
  <2>8. \A q, j : width(q, j)' = width(q, j)
    BY DEF width
  <2> QED
    BY <2>7, <2>8 DEF CrossOK
<1> QED
  BY <1>4, <1>5

LEMMA CrossNext == SourceInv /\ [Next]_vars => CrossOK'
<1> SUFFICES ASSUME SourceInv, [Next]_vars PROVE CrossOK'
  OBVIOUS
<1>1. ASSUME UNCHANGED <<source, cross>> PROVE CrossOK'
  BY <1>1 DEF SourceInv, CrossOK, width
<1>2. ASSUME NEW c \in Callers, Joined(c), cross' # cross PROVE CrossOK'
  <2> DEFINE ones == [j \in 1..source.crosses |-> 1]
  <2>1. /\ cross' = {[row |-> row[c], indices |-> ones]} /\ source' = source /\ pc[c] = "joined"
    BY <1>2 DEF Joined
  <2>2. row[c] \in DOMAIN source.rows /\ source \in Cases
    BY <2>1 DEF SourceInv, LockOK, Pending
  <2>3. \A j \in 1..source.crosses : ones[j] \in 1..width(row[c], j)
    BY <2>2, WidthFacts
  <2>4. ones \in [1..source.crosses -> Nat]
    OBVIOUS
  <2> HIDE DEF ones
  <2>5. \E q \in DOMAIN source.rows, nx \in [1..source.crosses -> Nat] :
           /\ cross' = {[row |-> q, indices |-> nx]}
           /\ \A j \in 1..source.crosses : nx[j] \in 1..width(q, j)
    BY <2>1, <2>2, <2>3, <2>4
  <2>6. \A q, j : width(q, j)' = width(q, j)
    BY <2>1 DEF width
  <2> QED
    BY <2>1, <2>5, <2>6 DEF CrossOK
<1>3. ASSUME NEW c \in Callers, Combine(c), cross' # cross PROVE CrossOK'
  <2>1. PICK s \in cross :
           cross' = {[s EXCEPT !.indices = i] : i \in advanced(s.indices, source.rows[s.row].matches)}
    BY <1>3 DEF Combine
  <2> QED
    BY <1>3, <2>1, CombinedCross DEF Combine
<1>4. ASSUME NEW c \in Callers, Step(c), ~Joined(c), ~Combine(c) PROVE UNCHANGED <<source, cross>>
  BY <1>4 DEF Step, Call, Check, Read, Rewind, Lookup, Cached
<1>5. ASSUME NEW c \in Callers, Joined(c) \/ Combine(c) PROVE source' = source
  BY <1>5 DEF Joined, Combine
<1>6. ASSUME Evicts \/ UNCHANGED vars PROVE UNCHANGED <<source, cross>>
  BY <1>6 DEF Evicts, vars
<1> QED
  BY <1>1, <1>2, <1>3, <1>4, <1>5, <1>6 DEF Next, Done

\* A row to read is one of the file, past the cursor, which stops before it.
LEMMA UpcomingFacts ==
    ASSUME source \in Cases, cursor \in Nat, NEW r \in upcoming
    PROVE  r \in DOMAIN source.rows /\ r \in 1..Len(source.rows) /\ cursor < r /\ source.rows[r].kept
BY SourceFacts DEF upcoming

LEMMA CallersNext ==
    SourceInv /\ [Next]_vars => (CallersOK /\ cursor \in 0..Len(source.rows) /\ source \in Cases
                                 /\ poisoned \in BOOLEAN)'
<1> SUFFICES ASSUME SourceInv, [Next]_vars
             PROVE  (CallersOK /\ cursor \in 0..Len(source.rows) /\ source \in Cases
                     /\ poisoned \in BOOLEAN)'
  OBVIOUS
<1> DEFINE Ok == CallersOK /\ cursor \in 0..Len(source.rows) /\ source \in Cases /\ poisoned \in BOOLEAN
<1>0. Ok /\ Len(source.rows) \in Nat /\ source.asks \in [Callers -> Nat]
  BY SourceFacts DEF SourceInv
<1>1. ASSUME NEW c \in Callers, Call(c) PROVE Ok'
  <2>1. /\ pc' = [pc EXCEPT ![c] = "check"] /\ calls' = [calls EXCEPT ![c] = @ + 1]
        /\ again' = [again EXCEPT ![c] = FALSE] /\ calls[c] < source.asks[c]
        /\ UNCHANGED <<source, cursor, poisoned, row, found>>
    BY <1>1 DEF Call, Goto
  <2>2. calls[c] \in Nat /\ source.asks[c] \in Nat
    BY <1>0 DEF CallersOK
  <2>3. calls' \in [Callers -> Nat] /\ \A d \in Callers : calls'[d] <= source.asks[d]
    BY <1>0, <2>1, <2>2 DEF CallersOK
  <2> QED
    BY <1>0, <2>1, <2>3 DEF CallersOK, places
<1>2. ASSUME NEW c \in Callers, Check(c) PROVE Ok'
  BY <1>0, <1>2 DEF Check, Goto, Die, CallersOK, places
<1>3. ASSUME NEW c \in Callers, Read(c) PROVE Ok'
  <2>1. CASE \E r \in upcoming : cursor' = r /\ row' = [row EXCEPT ![c] = r]
                                 /\ found' = [found EXCEPT ![c] = NoValue]
                                 /\ Goto(c, IF source.join = "none" \/ source.rows[r].key = NoValue
                                            THEN "joined" ELSE "lookup")
    <3>1. PICK r \in upcoming : /\ cursor' = r /\ row' = [row EXCEPT ![c] = r]
                                /\ found' = [found EXCEPT ![c] = NoValue]
                                /\ \E place \in {"joined", "lookup"} : pc' = [pc EXCEPT ![c] = place]
      BY <2>1 DEF Goto
    <3>2. r \in 1..Len(source.rows)
      BY <1>0, UpcomingFacts
    <3>3. UNCHANGED <<source, poisoned, again, calls>>
      BY <1>3 DEF Read
    <3> QED
      BY <1>0, <3>1, <3>2, <3>3 DEF CallersOK, places
  <2>2. CASE cursor' = Len(source.rows) /\ UNCHANGED <<row, found>>
    <3>1. /\ \E place \in {"idle", "rewind", "joined", "lookup"} : pc' = [pc EXCEPT ![c] = place]
          /\ UNCHANGED <<source, poisoned, again, calls>>
      BY <1>3 DEF Read, Deal, Goto
    <3> QED
      BY <1>0, <2>2, <3>1 DEF CallersOK, places
  <2> QED
    BY <1>3, <2>1, <2>2 DEF Read
<1>4. ASSUME NEW c \in Callers, Rewind(c) PROVE Ok'
  BY <1>0, <1>4 DEF Rewind, Goto, CallersOK, places
<1>5. ASSUME NEW c \in Callers, Lookup(c) PROVE Ok'
  <2>1. Dimension[key(c)] \in Values \cup {NoValue}
    BY <1>5, LookedUp DEF Lookup
  <2>2. /\ \E place \in {"joined", "cached"} : pc' = [pc EXCEPT ![c] = place]
        /\ found' = found \/ found' = [found EXCEPT ![c] = Dimension[key(c)]]
        /\ UNCHANGED <<source, cursor, poisoned, row, again, calls>>
    BY <1>5 DEF Lookup, Goto
  <2> QED
    BY <1>0, <2>1, <2>2 DEF CallersOK, places
<1>6. ASSUME NEW c \in Callers, Cached(c) PROVE Ok'
  <2>1. returned \subseteq Values \cup {NoValue}
    <3>1. hot \in Maps
      BY DEF SourceInv, CacheInv, QueuesAgree
    <3> QED
      BY <3>1, MapOperations DEF returned
  <2>2. wanted # {} => returned # {}
    BY DEF returned
  <2>3. wanted # {} => (CHOOSE v \in returned : TRUE) \in Values \cup {NoValue}
    BY <2>1, <2>2
  <2>4. /\ pc' = [pc EXCEPT ![c] = "joined"]
        /\ found' = found \/ (wanted # {} /\ found' = [found EXCEPT ![c] = CHOOSE v \in returned : TRUE])
        /\ UNCHANGED <<source, cursor, poisoned, row, again, calls>>
    <3>1. found' = [found EXCEPT ![c] = IF wanted = {} THEN @ ELSE CHOOSE v \in returned : TRUE]
      BY <1>6 DEF Cached
    <3>2. wanted = {} => found' = found
      BY <1>0, <3>1 DEF CallersOK
    <3> QED
      BY <1>6, <3>1, <3>2 DEF Cached, Goto
  <2> QED
    BY <1>0, <2>3, <2>4 DEF CallersOK, places
<1>7. ASSUME NEW c \in Callers, Joined(c) PROVE Ok'
  BY <1>0, <1>7 DEF Joined, Deal, Die, Goto, CallersOK, places
<1>8. ASSUME NEW c \in Callers, Combine(c) PROVE Ok'
  BY <1>0, <1>8 DEF Combine, Deal, Die, Goto, CallersOK, places
<1>9. ASSUME Evicts \/ UNCHANGED vars PROVE Ok'
  BY <1>0, <1>9 DEF Evicts, vars, callerVars, CallersOK
<1> QED
  BY <1>1, <1>2, <1>3, <1>4, <1>5, <1>6, <1>7, <1>8, <1>9 DEF Next, Done, Step

\* A step of a caller that does not touch the cache, after which it is not looking up.
LEMMA LockStands ==
    ASSUME SourceInv, NEW c \in Callers, NEW place \in places \ {"lookup", "cached"},
           pc[c] # "cached", pc' = [pc EXCEPT ![c] = place], UNCHANGED <<busy, source>>,
           \A d \in Callers \ {c} : row'[d] = row[d],
           place = "joined" => row'[c] \in DOMAIN source.rows
    PROVE  LockOK'
<1>1. \A d \in Callers \ {c} : pc'[d] = pc[d] /\ key(d)' = key(d)
  BY DEF SourceInv, CallersOK, key
<1>2. pc'[c] = place /\ place # "cached"
  BY DEF SourceInv, CallersOK
<1>3. cache_locked' <=> cache_locked
  BY <1>1, <1>2 DEF cache_locked
<1> QED
  BY <1>1, <1>2, <1>3 DEF SourceInv, LockOK, Pending

LEMMA LockNext == SourceInv /\ [Next]_vars => LockOK'
<1> SUFFICES ASSUME SourceInv, [Next]_vars PROVE LockOK'
  OBVIOUS
<1>1. ASSUME NEW c \in Callers, Call(c) \/ Check(c) \/ Rewind(c) \/ Combine(c) PROVE LockOK'
  <2>1. /\ pc[c] \in {"idle", "check", "rewind", "combine"}
        /\ \E place \in {"check", "dead", "combine", "read", "idle"} : pc' = [pc EXCEPT ![c] = place]
        /\ UNCHANGED <<busy, source, row>>
    BY <1>1 DEF Call, Check, Rewind, Combine, Goto, Deal, Die, cacheVars
  <2> QED
    BY <2>1, LockStands DEF places
<1>2. ASSUME NEW c \in Callers, Read(c) PROVE LockOK'
  <2>1. pc[c] = "read" /\ UNCHANGED <<busy, source>>
    BY <1>2 DEF Read, cacheVars
  <2>2. CASE upcoming = {}
    <3>1. /\ \E place \in {"idle", "rewind"} : pc' = [pc EXCEPT ![c] = place]
          /\ UNCHANGED row
      BY <1>2, <2>2 DEF Read, Deal, Goto
    <3> QED
      BY <2>1, <3>1, LockStands DEF places
  <2>3. CASE upcoming # {}
    <3>1. PICK r \in upcoming :
             /\ row' = [row EXCEPT ![c] = r]
             /\ pc' = [pc EXCEPT ![c] = IF source.join = "none" \/ source.rows[r].key = NoValue
                                        THEN "joined" ELSE "lookup"]
      BY <1>2, <2>3 DEF Read, Goto
    <3>2. r \in DOMAIN source.rows /\ row'[c] = r /\ \A d \in Callers \ {c} : row'[d] = row[d]
      BY <3>1, SourceFacts, UpcomingFacts DEF SourceInv, CallersOK
    <3>3. CASE pc' = [pc EXCEPT ![c] = "joined"]
      BY <2>1, <3>2, <3>3, LockStands DEF places
    <3>4. CASE pc' = [pc EXCEPT ![c] = "lookup"] /\ source.rows[r].key # NoValue
      <4>1. \A d \in Callers \ {c} : pc'[d] = pc[d] /\ key(d)' = key(d)
        BY <2>1, <3>2, <3>4 DEF SourceInv, CallersOK, key
      <4>2. pc'[c] = "lookup" /\ key(c)' # NoValue
        BY <2>1, <3>2, <3>4 DEF SourceInv, CallersOK, key
      <4>3. cache_locked' <=> cache_locked
        BY <2>1, <4>1, <4>2 DEF cache_locked
      <4> QED
        BY <2>1, <3>2, <4>1, <4>2, <4>3 DEF SourceInv, LockOK, Pending
    <3> QED
      BY <3>1, <3>3, <3>4
  <2> QED
    BY <2>2, <2>3
<1>3. ASSUME NEW c \in Callers, Lookup(c) PROVE LockOK'
  <2>1. pc[c] = "lookup" /\ row[c] \in DOMAIN source.rows /\ UNCHANGED <<source, row>> /\ key(c) # NoValue
    BY <1>3, LookedUp DEF Lookup, SourceInv, LockOK
  <2>2. CASE pc' = [pc EXCEPT ![c] = "joined"] /\ UNCHANGED cacheVars
    BY <2>1, <2>2, LockStands DEF places, cacheVars
  <2>3. CASE pc' = [pc EXCEPT ![c] = "cached"] /\ ~cache_locked
    <3>1. pc'[c] = "cached" /\ \A d \in Callers \ {c} : pc'[d] = pc[d] /\ pc[d] # "cached"
      BY <2>3 DEF SourceInv, CallersOK, cache_locked
    <3>2. \A d \in Callers : key(d)' = key(d)
      BY <2>1 DEF key
    <3> QED
      BY <2>1, <3>1, <3>2 DEF SourceInv, LockOK, Pending, cache_locked
  <2> QED
    BY <1>3, <2>2, <2>3 DEF Lookup, Goto, Miss
<1>4. ASSUME NEW c \in Callers, Cached(c) PROVE LockOK'
  <2>1. pc[c] = "cached" /\ pc' = [pc EXCEPT ![c] = "joined"] /\ busy' = FALSE /\ UNCHANGED <<source, row>>
    BY <1>4 DEF Cached, Goto, Return
  <2>2. pc'[c] = "joined" /\ \A d \in Callers : key(d)' = key(d) /\ (d # c => pc'[d] = pc[d])
    BY <2>1 DEF SourceInv, CallersOK, key
  <2> QED
    BY <2>1, <2>2 DEF SourceInv, LockOK, Pending
<1>5. ASSUME NEW c \in Callers, Joined(c) PROVE LockOK'
  <2>1. /\ pc[c] = "joined" /\ UNCHANGED <<busy, source, row>>
        /\ \E place \in {"read", "idle", "combine", "dead"} : pc' = [pc EXCEPT ![c] = place]
    BY <1>5 DEF Joined, Goto, Deal, Die, cacheVars
  <2> QED
    BY <2>1, LockStands DEF places
<1>6. CASE Evicts
  <2>1. UNCHANGED <<pc, row, source, busy>>
    BY <1>6 DEF Evicts, callerVars, Evict, EvictCold, EvictHot
  <2> QED
    BY <2>1 DEF SourceInv, LockOK, Pending, key, cache_locked
<1>7. CASE UNCHANGED vars
  BY <1>7 DEF vars, SourceInv, LockOK, Pending, key, cache_locked, cacheVars
<1> QED
  BY <1>1, <1>2, <1>3, <1>4, <1>5, <1>6, <1>7 DEF Next, Done, Step

LEMMA SourceNext == SourceInv /\ [Next]_vars => SourceInv'
<1>1. SourceInv /\ [Next]_vars => CacheInv'
  BY CacheSteps, NextCache DEF SourceInv
<1> QED
  BY <1>1, CrossNext, CallersNext, LockNext DEF SourceInv

LEMMA SourceInit == Init => SourceInv
<1> SUFFICES ASSUME Init PROVE SourceInv
  OBVIOUS
<1>1. CacheInv /\ busy = FALSE /\ wanted = {}
  BY InitCache DEF Init, CacheInit
<1>2. source \in Cases /\ Len(source.rows) \in Nat /\ source.asks \in [Callers -> Nat]
  BY SourceFacts DEF Init
<1>3. CallersOK
  BY <1>2 DEF Init, CallersOK, places
<1>4. cursor \in 0..Len(source.rows) /\ poisoned \in BOOLEAN /\ CrossOK
  <2>1. cursor = 0 /\ poisoned = FALSE /\ cross = {}
    BY DEF Init
  <2>2. CrossOK
    BY <2>1 DEF CrossOK
  <2>3. cursor \in 0..Len(source.rows)
    BY <1>2, <2>1
  <2>4. poisoned \in BOOLEAN
    BY <2>1
  <2> QED
    BY <2>2, <2>3, <2>4
<1>5. LockOK
  <2>1. \A c \in Callers : pc[c] = "idle"
    BY DEF Init
  <2> QED
    BY <1>1, <2>1 DEF LockOK, Pending
<1> QED
  BY <1>1, <1>2, <1>3, <1>4, <1>5 DEF SourceInv

\* A map of the cache holds rows of the dimension.
Holds(map) == \A k \in DOMAIN map : map[k] = Dimension[k]

LEMMA HoldsWith ==
    ASSUME NEW map, Holds(map), NEW k PROVE Holds(With(map, k, Dimension[k]))
BY DEF Holds, With

LEMMA HoldsWithout == ASSUME NEW map, Holds(map), NEW k PROVE Holds(Without(map, k))
BY DEF Holds, Without

LEMMA CoherentNext == SourceInv /\ Coherent /\ [Next]_vars => Coherent'
<1> SUFFICES ASSUME SourceInv, Coherent, [Next]_vars PROVE Coherent'
  OBVIOUS
<1>0. Holds(hot) /\ Holds(cold) /\ (Holds(hot') /\ Holds(cold') => Coherent')
  BY DEF Coherent, Holds
<1>1. ASSUME NEW k, Get(k) PROVE Coherent'
  <2>1. CASE k \in DOMAIN hot
    BY <1>0, <1>1, <2>1 DEF Get
  <2>2. CASE k \notin DOMAIN hot
    <3>1. k \in DOMAIN cold /\ cold' = Without(cold, k) /\ hot' = With(hot, k, cold[k])
      BY <1>1, <2>2 DEF Get, contains
    <3>2. cold[k] = Dimension[k]
      BY <3>1 DEF Coherent
    <3> QED
      BY <1>0, <3>1, <3>2, HoldsWith, HoldsWithout
  <2> QED
    BY <2>1, <2>2
<1>2. ASSUME NEW k, Insert(k, Dimension[k]) PROVE Coherent'
  BY <1>0, <1>2, HoldsWith DEF Insert
<1>3. ASSUME NEW c \in Callers, Lookup(c) PROVE Coherent'
  BY <1>0, <1>1, <1>2, <1>3 DEF Lookup, Miss, cacheVars
<1>4. CASE EvictCold
  BY <1>0, <1>4, HoldsWithout DEF EvictCold
<1>5. CASE EvictHot
  <2>1. CASE UNCHANGED <<hot, cold>>
    BY <1>0, <2>1
  <2>2. ASSUME NEW k, k \in DOMAIN hot, hot' = Without(hot, k), cold' = With(cold, k, hot[k])
        PROVE  Coherent'
    <3>1. hot[k] = Dimension[k]
      BY <2>2 DEF Coherent
    <3> QED
      BY <1>0, <2>2, <3>1, HoldsWith, HoldsWithout
  <2> QED
    BY <1>5, <2>1, <2>2 DEF EvictHot
<1>6. ASSUME NEW c \in Callers, Step(c), ~Lookup(c) PROVE UNCHANGED <<hot, cold>>
  BY <1>6 DEF Step, Call, Check, Read, Rewind, Cached, Joined, Combine, cacheVars, Return
<1>7. CASE UNCHANGED vars
  BY <1>0, <1>7 DEF vars, cacheVars
<1> QED
  BY <1>0, <1>3, <1>4, <1>5, <1>6, <1>7 DEF Next, Done, Evicts, Evict

\* A step of a caller after which it holds no row.
LEMMA FoundStands ==
    ASSUME SourceInv, FoundOK, NEW c \in Callers,
           NEW place \in places \ {"lookup", "cached", "joined"},
           pc' = [pc EXCEPT ![c] = place], UNCHANGED <<source, row, found, wanted>>
    PROVE  FoundOK'
<1>1. pc'[c] = place /\ \A d \in Callers \ {c} : pc'[d] = pc[d]
  BY DEF SourceInv, CallersOK
<1>2. \A d \in Callers : key(d)' = key(d)
  BY DEF key
<1>3. \A r : Looked(r)' = Looked(r)
  BY DEF Looked
<1> QED
  BY <1>1, <1>2, <1>3 DEF FoundOK, Pending

\* A lookup that has its answer: the value the cache returns is the row of the dimension.
LEMMA AnswerIsJoined ==
    ASSUME SourceInv, Coherent, FoundOK, NEW c \in Callers, Cached(c)
    PROVE  found'[c] = Looked(row[c])
<1>1. /\ pc[c] = "cached"
      /\ found' = [found EXCEPT ![c] = IF wanted = {} THEN @ ELSE CHOOSE v \in returned : TRUE]
  BY DEF Cached
<1>2. found'[c] = IF wanted = {} THEN found[c] ELSE CHOOSE v \in returned : TRUE
  BY <1>1 DEF SourceInv, CallersOK
<1>3. CASE wanted = {key(c)}
  <2>1. key(c) \in DOMAIN hot
    BY <1>3, LookupFinds DEF SourceInv
  <2>2. returned = {hot[key(c)]}
    BY <1>3, <2>1 DEF returned
  <2>3. hot[key(c)] = Dimension[key(c)] /\ Looked(row[c]) = Dimension[key(c)]
    BY <1>1, <2>1, LookedUp DEF Coherent
  <2> QED
    BY <1>2, <1>3, <2>2, <2>3
<1>4. CASE wanted = {} /\ found[c] = Looked(row[c])
  BY <1>2, <1>4
<1> QED
  BY <1>1, <1>3, <1>4 DEF FoundOK

LEMMA FoundNext == SourceInv /\ Coherent /\ FoundOK /\ [Next]_vars => FoundOK'
<1> SUFFICES ASSUME SourceInv, Coherent, FoundOK, [Next]_vars PROVE FoundOK'
  OBVIOUS
<1>1. ASSUME NEW c \in Callers, Call(c) \/ Check(c) \/ Rewind(c) \/ Combine(c) \/ Joined(c) PROVE FoundOK'
  <2>1. /\ \E place \in {"check", "dead", "combine", "read", "idle"} : pc' = [pc EXCEPT ![c] = place]
        /\ UNCHANGED <<source, row, found, wanted>>
    BY <1>1 DEF Call, Check, Rewind, Combine, Joined, Goto, Deal, Die, cacheVars
  <2> QED
    BY <2>1, FoundStands DEF places
<1>2. ASSUME NEW c \in Callers, Read(c) PROVE FoundOK'
  <2>1. UNCHANGED <<source, wanted>>
    BY <1>2 DEF Read, cacheVars
  <2>2. CASE upcoming = {}
    <3>1. /\ \E place \in {"idle", "rewind"} : pc' = [pc EXCEPT ![c] = place]
          /\ UNCHANGED <<row, found>>
      BY <1>2, <2>2 DEF Read, Deal, Goto
    <3> QED
      BY <2>1, <3>1, FoundStands DEF places
  <2>3. CASE upcoming # {}
    <3>1. PICK r \in upcoming :
             /\ row' = [row EXCEPT ![c] = r] /\ found' = [found EXCEPT ![c] = NoValue]
             /\ pc' = [pc EXCEPT ![c] = IF source.join = "none" \/ source.rows[r].key = NoValue
                                        THEN "joined" ELSE "lookup"]
      BY <1>2, <2>3 DEF Read, Goto
    <3>2. source.rows[r].kept
      BY DEF upcoming
    <3>3. /\ row'[c] = r /\ found'[c] = NoValue
          /\ pc'[c] = "lookup" \/ (pc'[c] = "joined" /\ (source.join = "none" \/ source.rows[r].key = NoValue))
          /\ \A d \in Callers \ {c} : row'[d] = row[d] /\ found'[d] = found[d] /\ pc'[d] = pc[d]
      BY <3>1 DEF SourceInv, CallersOK
    <3>4. \A d \in Callers \ {c} : key(d)' = key(d)
      BY <2>1, <3>3 DEF key
    <3>5. (\A q : Looked(q)' = Looked(q)) /\ (source.rows[r].key = NoValue => Looked(r) = NoValue)
      BY <2>1 DEF Looked
    <3> QED
      BY <2>1, <3>2, <3>3, <3>4, <3>5 DEF FoundOK, Pending
  <2> QED
    BY <2>2, <2>3
<1>3. ASSUME NEW c \in Callers, Lookup(c) PROVE FoundOK'
  <2>1. pc[c] = "lookup" /\ UNCHANGED <<source, row>> /\ found[c] = NoValue
    BY <1>3 DEF Lookup, FoundOK
  <2>2. Looked(row[c]) = Dimension[key(c)]
    BY <2>1, LookedUp
  <2>3. (\A d \in Callers : key(d)' = key(d)) /\ (\A q : Looked(q)' = Looked(q))
    BY <2>1 DEF key, Looked
  <2>4. \A place \in {"joined", "cached"} : pc' = [pc EXCEPT ![c] = place] =>
           pc'[c] = place /\ \A d \in Callers \ {c} : pc'[d] = pc[d]
    BY DEF SourceInv, CallersOK
  <2>5. CASE /\ pc' = [pc EXCEPT ![c] = "joined"] /\ UNCHANGED wanted
             /\ found'[c] = Dimension[key(c)] /\ \A d \in Callers \ {c} : found'[d] = found[d]
    BY <2>1, <2>2, <2>3, <2>4, <2>5 DEF FoundOK, Pending
  <2>6. CASE /\ pc' = [pc EXCEPT ![c] = "cached"] /\ ~cache_locked
             /\ wanted' = {key(c)} \/ (wanted' = {} /\ found'[c] = Dimension[key(c)])
             /\ \A d \in Callers \ {c} : found'[d] = found[d]
    <3>1. \A d \in Callers : pc[d] # "cached"
      BY <2>6 DEF cache_locked
    <3> QED
      BY <2>1, <2>2, <2>3, <2>4, <2>6, <3>1 DEF FoundOK, Pending
  <2>7. ASSUME found' = [found EXCEPT ![c] = Dimension[key(c)]]
        PROVE  found'[c] = Dimension[key(c)] /\ \A d \in Callers \ {c} : found'[d] = found[d]
    BY <2>7 DEF SourceInv, CallersOK
  <2> QED
    BY <1>3, <2>1, <2>5, <2>6, <2>7 DEF Lookup, Goto, Miss, Get, Insert, cacheVars
<1>4. ASSUME NEW c \in Callers, Cached(c) PROVE FoundOK'
  <2>1. /\ pc[c] = "cached" /\ pc' = [pc EXCEPT ![c] = "joined"] /\ UNCHANGED <<source, row>>
        /\ \E v : found' = [found EXCEPT ![c] = v]
    BY <1>4 DEF Cached, Goto
  <2>2. pc'[c] = "joined" /\ \A d \in Callers \ {c} : pc'[d] = pc[d] /\ found'[d] = found[d] /\ pc[d] # "cached"
    BY <2>1 DEF SourceInv, CallersOK, LockOK
  <2>3. found'[c] = Looked(row[c])
    BY <1>4, AnswerIsJoined
  <2>4. (\A d \in Callers : key(d)' = key(d)) /\ (\A q : Looked(q)' = Looked(q))
    BY <2>1 DEF key, Looked
  <2> QED
    BY <2>1, <2>2, <2>3, <2>4 DEF FoundOK, Pending
<1>5. CASE Evicts
  BY <1>5 DEF Evicts, callerVars, Evict, EvictCold, EvictHot, FoundOK, Pending, key, Looked
<1>6. CASE UNCHANGED vars
  BY <1>6 DEF vars, callerVars, cacheVars, FoundOK, Pending, key, Looked
<1> QED
  BY <1>1, <1>2, <1>3, <1>4, <1>5, <1>6 DEF Next, Done, Step

\* What a call may return of a source without CROSS joins.
Returned == {Empty} \cup {Joint(r) : r \in {q \in DOMAIN source.rows : Fits(q)}}

DealtOK ==
    /\ rewinds \in Nat
    /\ source.crosses = 0 =>
         /\ cross = {} /\ \A c \in Callers : pc[c] # "combine"
         /\ dealt \in Seq(Returned) /\ Onwards

LEMMA OnlyPassed ==
    ASSUME SourceInv, source.crosses = 0, DealtOK, UNCHANGED <<source, cross, rewinds, dealt>>,
           \A c \in Callers : pc'[c] # "combine",
           Onwards'
    PROVE  DealtOK'
<1>1. Returned' = Returned
  BY DEF Returned, Empty, Joint, Fits, Looked
<1> QED
  BY <1>1 DEF DealtOK

\* A step that deals nothing, and after which a caller holds no other row than before.
LEMMA OnwardsStands ==
    ASSUME SourceInv, Onwards, UNCHANGED <<rewinds, dealt>>,
           cursor' \in Nat, cursor <= cursor',
           \A c \in Callers : /\ again'[c] => again[c]
                              /\ Pending(c)' => Pending(c) /\ row'[c] = row[c]
    PROVE  Onwards'
<1>1. cursor \in Nat /\ \A n \in 1..cursor : n \in 1..cursor'
  BY SourceFacts DEF SourceInv
<1>2. \A c \in Callers : row[c] \in Nat
  BY SourceFacts DEF SourceInv, CallersOK
<1> QED
  BY <1>1, <1>2 DEF Onwards

\* A caller has read a row past the cursor.
LEMMA OnwardsReads ==
    ASSUME SourceInv, Onwards, UNCHANGED <<rewinds, dealt, again>>, NEW c \in Callers,
           NEW r \in Nat, cursor < r, cursor' = r, row'[c] = r,
           \A d \in Callers \ {c} : row'[d] = row[d] /\ (Pending(d)' => Pending(d))
    PROVE  Onwards'
<1>1. cursor \in Nat /\ \A n \in 1..cursor : n \in 1..cursor' /\ n # r
  BY SourceFacts DEF SourceInv
<1>2. \A d \in Callers : row[d] \in Nat
  BY SourceFacts DEF SourceInv, CallersOK
<1> SUFFICES ASSUME rewinds = 0
             PROVE  /\ \A i \in DOMAIN dealt : dealt[i].row \in 1..cursor'
                    /\ \A d \in Callers : Pending(d)' => row'[d] <= cursor'
                    /\ \A d \in Callers, i \in DOMAIN dealt : Pending(d)' => dealt[i].row # row'[d]
                    /\ \A d, e \in Callers : Pending(d)' /\ Pending(e)' /\ row'[d] = row'[e] => d = e
  BY DEF Onwards
<1>3. \A i \in DOMAIN dealt : dealt[i].row \in 1..cursor' /\ dealt[i].row # r
  BY <1>1 DEF Onwards
<1>4. \A d \in Callers \ {c} : Pending(d)' => Pending(d) /\ row'[d] = row[d] /\ row[d] <= cursor /\ row[d] < r
  BY <1>1, <1>2 DEF Onwards
<1>5. \A d \in Callers : Pending(d)' => row'[d] <= cursor'
  BY <1>1, <1>2, <1>4
<1>6. \A d \in Callers, i \in DOMAIN dealt : Pending(d)' => dealt[i].row # row'[d]
  BY <1>3, <1>4 DEF Onwards
<1>7. \A d, e \in Callers : Pending(d)' /\ Pending(e)' /\ row'[d] = row'[e] => d = e
  BY <1>2, <1>4 DEF Onwards
<1> QED
  BY <1>3, <1>5, <1>6, <1>7

\* A caller deals the row it holds.
LEMMA OnwardsDeals ==
    ASSUME SourceInv, Onwards, UNCHANGED <<rewinds, again, cursor, row>>, NEW c \in Callers, Pending(c),
           NEW S, dealt \in Seq(S), NEW x, x.row = row[c], dealt' = Append(dealt, x),
           ~Pending(c)', \A d \in Callers : Pending(d)' => Pending(d)
    PROVE  Onwards'
<1>1. /\ Len(dealt) \in Nat /\ DOMAIN dealt = 1..Len(dealt) /\ DOMAIN dealt' = 1..(Len(dealt) + 1)
      /\ dealt'[Len(dealt) + 1] = x /\ \A i \in 1..Len(dealt) : dealt'[i] = dealt[i]
  <2>1. dealt \in Seq(S \cup {x}) /\ x \in S \cup {x}
    OBVIOUS
  <2> QED
    BY <2>1, AppendProperties, LenProperties
<1>2. \A i \in DOMAIN dealt' : (i \in DOMAIN dealt /\ dealt'[i] = dealt[i]) \/ (i = Len(dealt) + 1 /\ dealt'[i] = x)
  BY <1>1
<1>3. cursor \in Nat /\ row[c] \in Nat /\ row[c] \in DOMAIN source.rows /\ row[c] >= 1
  BY SourceFacts DEF SourceInv, CallersOK, LockOK
<1> SUFFICES ASSUME rewinds = 0
             PROVE  /\ \A i \in DOMAIN dealt' : dealt'[i].row \in 1..cursor
                    /\ \A i, j \in DOMAIN dealt' : dealt'[i].row = dealt'[j].row => i = j
                    /\ \A d \in Callers, i \in DOMAIN dealt' : Pending(d)' => dealt'[i].row # row[d]
  BY DEF Onwards
<1>4. row[c] \in 1..cursor
  BY <1>3 DEF Onwards
<1>5. \A i \in DOMAIN dealt' : dealt'[i].row \in 1..cursor
  BY <1>2, <1>4 DEF Onwards
<1>6. \A i, j \in DOMAIN dealt' : dealt'[i].row = dealt'[j].row => i = j
  BY <1>2 DEF Onwards
<1>7. \A d \in Callers, i \in DOMAIN dealt' : Pending(d)' => dealt'[i].row # row[d]
  BY <1>2 DEF Onwards
<1> QED
  BY <1>5, <1>6, <1>7

LEMMA DealtNext == SourceInv /\ FoundOK /\ DealtOK /\ [Next]_vars => DealtOK'
<1> SUFFICES ASSUME SourceInv, FoundOK, DealtOK, [Next]_vars PROVE DealtOK'
  OBVIOUS
<1>0. source' = source /\ rewinds' \in Nat
  BY DEF Next, Step, Evicts, Done, vars, Call, Check, Read, Rewind, Lookup, Cached, Joined, Combine, DealtOK
<1> SUFFICES ASSUME source.crosses = 0 PROVE DealtOK'
  BY <1>0 DEF DealtOK
<1>A. /\ cross = {} /\ (\A c \in Callers : pc[c] # "combine")
      /\ dealt \in Seq(Returned) /\ Onwards /\ cursor \in Nat
  BY SourceFacts DEF DealtOK, SourceInv
<1>B. Returned' = Returned
  BY <1>0 DEF Returned, Empty, Joint, Fits, Looked
<1>C. ASSUME NEW c \in Callers, NEW place, pc' = [pc EXCEPT ![c] = place]
      PROVE  pc'[c] = place /\ \A d \in Callers \ {c} : pc'[d] = pc[d]
  BY <1>C DEF SourceInv, CallersOK
<1>1. ASSUME NEW c \in Callers, Call(c) PROVE DealtOK'
  <2>1. pc' = [pc EXCEPT ![c] = "check"] /\ again' = [again EXCEPT ![c] = FALSE]
        /\ UNCHANGED <<source, cross, rewinds, dealt, cursor, row>>
    BY <1>1 DEF Call, Goto
  <2>2. \A d \in Callers : again'[d] => again[d]
    BY <2>1 DEF SourceInv, CallersOK
  <2>3. \A d \in Callers : pc'[d] # "combine" /\ (Pending(d)' => Pending(d) /\ row'[d] = row[d])
    BY <1>A, <1>C, <2>1 DEF Pending
  <2>4. Onwards'
    BY <1>A, <2>1, <2>2, <2>3, OnwardsStands
  <2> QED
    BY <2>1, <2>3, <2>4, OnlyPassed
<1>2. ASSUME NEW c \in Callers, Check(c) PROVE DealtOK'
  <2>1. (\E place \in {"dead", "read"} : pc' = [pc EXCEPT ![c] = place])
        /\ UNCHANGED <<source, cross, rewinds, dealt, cursor, row, again>>
    BY <1>A, <1>2 DEF Check, Goto, Die
  <2>2. \A d \in Callers : pc'[d] # "combine" /\ (Pending(d)' => Pending(d) /\ row'[d] = row[d])
    BY <1>A, <1>C, <2>1 DEF Pending
  <2>3. Onwards'
    BY <1>A, <2>1, <2>2, OnwardsStands
  <2> QED
    BY <2>1, <2>2, <2>3, OnlyPassed
<1>3. ASSUME NEW c \in Callers, Read(c) PROVE DealtOK'
  <2>1. UNCHANGED <<source, cross, rewinds, again>> /\ pc[c] = "read"
    BY <1>3 DEF Read
  <2>2. CASE upcoming # {}
    <3>1. PICK r \in upcoming :
             /\ cursor' = r /\ row' = [row EXCEPT ![c] = r] /\ UNCHANGED dealt
             /\ \E place \in {"joined", "lookup"} : pc' = [pc EXCEPT ![c] = place]
      BY <1>3, <2>2 DEF Read, Goto
    <3>2. r \in Nat /\ cursor < r
      BY <1>A, UpcomingFacts, SourceFacts DEF SourceInv
    <3>3. row'[c] = r /\ \A d \in Callers \ {c} : row'[d] = row[d]
      BY <3>1 DEF SourceInv, CallersOK
    <3>4. \A d \in Callers : pc'[d] # "combine" /\ (d # c => (Pending(d)' => Pending(d)))
      BY <1>A, <1>C, <3>1 DEF Pending
    <3>5. Onwards'
      BY <1>A, <2>1, <3>1, <3>2, <3>3, <3>4, OnwardsReads
    <3> QED
      BY <2>1, <3>1, <3>4, <3>5, OnlyPassed
  <2>3. CASE upcoming = {}
    <3>1. cursor' = Len(source.rows) /\ UNCHANGED row
      BY <1>3, <2>3 DEF Read
    <3>2. cursor' \in Nat /\ cursor <= cursor'
      BY <3>1, SourceFacts DEF SourceInv
    <3>3. CASE ~again[c]
      <4>1. pc' = [pc EXCEPT ![c] = "rewind"] /\ UNCHANGED dealt
        BY <1>3, <2>3, <3>3 DEF Read, Goto
      <4>2. \A d \in Callers : pc'[d] # "combine" /\ (Pending(d)' => Pending(d) /\ row'[d] = row[d])
        BY <1>A, <1>C, <3>1, <4>1 DEF Pending
      <4>3. Onwards'
        BY <1>A, <2>1, <3>2, <4>1, <4>2, OnwardsStands
      <4> QED
        BY <2>1, <4>1, <4>2, <4>3, OnlyPassed
    <3>4. CASE again[c]
      <4>1. pc' = [pc EXCEPT ![c] = "idle"] /\ dealt' = Append(dealt, Empty)
        BY <1>3, <2>3, <3>4 DEF Read, Deal, Goto, Empty
      <4>2. \A d \in Callers : pc'[d] # "combine"
        BY <1>A, <1>C, <4>1
      <4>3. dealt' \in Seq(Returned)
        BY <1>A, <4>1 DEF Returned
      <4>4. rewinds # 0 /\ rewinds' = rewinds
        BY <1>A, <2>1, <3>4 DEF Onwards
      <4>5. Onwards'
        BY <1>A, <2>1, <4>4 DEF Onwards
      <4> QED
        BY <1>0, <1>A, <1>B, <2>1, <4>2, <4>3, <4>5 DEF DealtOK
    <3> QED
      BY <3>3, <3>4
  <2> QED
    BY <2>2, <2>3
<1>4. ASSUME NEW c \in Callers, Rewind(c) PROVE DealtOK'
  <2>1. pc' = [pc EXCEPT ![c] = "check"] /\ rewinds' = rewinds + 1 /\ UNCHANGED <<cross, dealt>>
    BY <1>4 DEF Rewind, Goto
  <2>2. \A d \in Callers : pc'[d] # "combine"
    BY <1>A, <1>C, <2>1
  <2>3. rewinds' # 0
    BY <2>1 DEF DealtOK
  <2>4. Onwards'
    BY <2>3 DEF Onwards
  <2> QED
    BY <1>0, <1>A, <1>B, <2>1, <2>2, <2>4 DEF DealtOK
<1>5. ASSUME NEW c \in Callers, Lookup(c) \/ Cached(c) PROVE DealtOK'
  <2>1. (\E place \in {"cached", "joined"} : pc' = [pc EXCEPT ![c] = place]) /\ Pending(c)
        /\ UNCHANGED <<source, cross, rewinds, dealt, cursor, row, again>>
    BY <1>5 DEF Lookup, Cached, Goto, Pending
  <2>2. \A d \in Callers : pc'[d] # "combine" /\ (Pending(d)' => Pending(d) /\ row'[d] = row[d])
    BY <1>A, <1>C, <2>1 DEF Pending
  <2>3. Onwards'
    BY <1>A, <2>1, <2>2, OnwardsStands
  <2> QED
    BY <2>1, <2>2, <2>3, OnlyPassed
<1>6. ASSUME NEW c \in Callers, Joined(c) PROVE DealtOK'
  <2>1. pc[c] = "joined" /\ Pending(c) /\ UNCHANGED <<source, cross, rewinds, cursor, row, again>>
    BY <1>6, <1>A DEF Joined, Pending
  <2>2. CASE pc' = [pc EXCEPT ![c] = "read"] /\ UNCHANGED dealt
    <3>1. \A d \in Callers : pc'[d] # "combine" /\ (Pending(d)' => Pending(d) /\ row'[d] = row[d])
      BY <1>A, <1>C, <2>1, <2>2 DEF Pending
    <3>2. Onwards'
      BY <1>A, <2>1, <2>2, <3>1, OnwardsStands
    <3> QED
      BY <2>1, <2>2, <3>1, <3>2, OnlyPassed
  <2>3. CASE Deal(c, row[c], IF source.join = "left" THEN found[c] ELSE NoValue, <<>>)
             /\ (source.join = "inner" => found[c] # NoValue)
    <3> DEFINE x == Joint(row[c])
    <3>1. row[c] \in DOMAIN source.rows /\ source.rows[row[c]].kept
      BY <2>1 DEF SourceInv, LockOK, FoundOK
    <3>2. source.join # "none" => found[c] = Looked(row[c])
      BY <2>1 DEF FoundOK
    <3>3. pc' = [pc EXCEPT ![c] = "idle"] /\ dealt' = Append(dealt, x)
      BY <2>3, <3>2 DEF Deal, Goto, Joint
    <3>4. x \in Returned
      BY <2>3, <3>1, <3>2 DEF Returned, Fits
    <3>5. x.row = row[c]
      BY DEF Joint
    <3>6. pc'[c] = "idle" /\ \A d \in Callers \ {c} : pc'[d] = pc[d]
      BY <1>C, <3>3
    <3>7. ~Pending(c)' /\ \A d \in Callers : pc'[d] # "combine" /\ (Pending(d)' => Pending(d))
      BY <1>A, <3>6 DEF Pending
    <3> HIDE DEF x
    <3>8. dealt' \in Seq(Returned)
      BY <1>A, <3>3, <3>4
    <3>9. Onwards'
      BY <1>A, <2>1, <3>3, <3>5, <3>7, OnwardsDeals
    <3> QED
      BY <1>0, <1>A, <1>B, <2>1, <3>7, <3>8, <3>9 DEF DealtOK
  <2> QED
    BY <1>6, <2>2, <2>3 DEF Joined, Goto
<1>7. ASSUME NEW c \in Callers, Combine(c) PROVE DealtOK'
  BY <1>A, <1>7 DEF Combine
<1>8. CASE Evicts \/ UNCHANGED vars
  <2>1. UNCHANGED <<source, cross, rewinds, dealt, cursor, row, again, pc>>
    BY <1>8 DEF Evicts, vars, callerVars
  <2>2. \A d \in Callers : pc'[d] # "combine" /\ (Pending(d)' => Pending(d) /\ row'[d] = row[d])
    BY <1>A, <2>1 DEF Pending
  <2>3. Onwards'
    BY <1>A, <2>1, <2>2, OnwardsStands
  <2> QED
    BY <2>1, <2>2, <2>3, OnlyPassed
<1> QED
  BY <1>1, <1>2, <1>3, <1>4, <1>5, <1>6, <1>7, <1>8 DEF Next, Done, Step

LEMMA DealtInit == Init => Coherent /\ FoundOK /\ DealtOK
<1> SUFFICES ASSUME Init PROVE Coherent /\ FoundOK /\ DealtOK
  OBVIOUS
<1>1. (\A c \in Callers : pc[c] = "idle" /\ again[c] = FALSE) /\ cross = {} /\ rewinds = 0 /\ dealt = <<>>
  BY DEF Init
<1>2. Coherent
  BY DEF Init, CacheInit, Coherent
<1>3. FoundOK
  BY <1>1 DEF FoundOK, Pending
<1>4. DOMAIN dealt = {} /\ dealt \in Seq(Returned)
  BY <1>1
<1>5. Onwards
  BY <1>1, <1>4 DEF Onwards, Pending
<1> QED
  BY <1>1, <1>2, <1>3, <1>4, <1>5 DEF DealtOK

-----------------------------------------------------------------------------
(* The order of the rows: numbers and recursive definitions                *)

\* A set of numbers that holds 0, and with each number the next, holds them all.
LEMMA SetInduction ==
    ASSUME NEW S, 0 \in S, \A n \in Nat : n \in S => n + 1 \in S
    PROVE  \A n \in Nat : n \in S
<1> SUFFICES ASSUME NEW n \in Nat, n \notin S PROVE FALSE
  OBVIOUS
<1> DEFINE out == Nat \ S
<1>1. out \subseteq Nat /\ out # {}
  OBVIOUS
<1> HIDE DEF out
<1>2. PICK m \in out : \A k \in out : ~(<<k, m>> \in OpToRel(<, Nat))
  BY <1>1, NatLessThanWellFounded, WFMin, Zenon
<1>3. \A k \in out : ~(k < m)
  BY <1>1, <1>2, Zenon DEF OpToRel
<1>4. m # 0 /\ m \in Nat
  BY <1>2, <1>1 DEF out
<1>5. m - 1 \in Nat /\ m - 1 < m /\ (m - 1) + 1 = m
  BY <1>4
<1>6. m - 1 \in S
  BY <1>3, <1>5 DEF out
<1> QED
  BY <1>2, <1>5, <1>6 DEF out

\* The first dimensions of a row have a number of combinations.
LEMMA CountsExist ==
    ASSUME NEW r, NEW n \in Nat
    PROVE  \E g : g = [k \in 0..n |-> IF k = 0 THEN 1 ELSE g[k - 1] * width(r, k)]
<1> DEFINE next(s, k) == s * width(r, k)
           value(g, k) == IF k = 0 THEN 1 ELSE next(g[k - 1], k)
           S == {m \in Nat : \E g : g = [k \in 0..m |-> value(g, k)]}
<1> HIDE DEF next
<1>1. 0 \in S
  <2> DEFINE g == [k \in 0..0 |-> 1]
  <2>1. g = [k \in 0..0 |-> value(g, k)]
    OBVIOUS
  <2> QED
    BY <2>1
<1>2. ASSUME NEW m \in Nat, m \in S PROVE m + 1 \in S
  <2>1. PICK g : g = [k \in 0..m |-> value(g, k)]
    BY <1>2
  <2> DEFINE h == [k \in 0..(m + 1) |-> IF k = m + 1 THEN next(g[m], m + 1) ELSE g[k]]
  <2>2. ASSUME NEW k \in 0..(m + 1) PROVE h[k] = value(h, k)
    <3>1. CASE k = m + 1
      BY <3>1
    <3>2. CASE k \in 0..m
      <4>1. h[k] = g[k] /\ (k # 0 => h[k - 1] = g[k - 1])
        BY <3>2
      <4>2. g[k] = value(g, k)
        BY <2>1, <3>2
      <4> QED
        BY <4>1, <4>2
    <3> QED
      BY <3>1, <3>2
  <2>3. h = [k \in 0..(m + 1) |-> value(h, k)]
    BY <2>2
  <2> HIDE DEF h
  <2> QED
    BY <2>3
<1>3. n \in S
  <2> HIDE DEF S
  <2> QED
    BY <1>1, <1>2, SetInduction
<1> QED
  BY <1>3 DEF next

\* A number has its rests.
AreRests(g, r, first, n) ==
    g = [k \in 0..n |-> IF k = 0 THEN first ELSE g[k - 1] \div width(r, source.crosses - k + 1)]

LEMMA RestsExist ==
    ASSUME NEW r, NEW first, NEW n \in Nat
    PROVE  \E g : AreRests(g, r, first, n)
<1> DEFINE next(s, k) == s \div width(r, source.crosses - k + 1)
           value(g, k) == IF k = 0 THEN first ELSE next(g[k - 1], k)
           S == {m \in Nat : \E g : g = [k \in 0..m |-> value(g, k)]}
<1> HIDE DEF next
<1>1. 0 \in S
  <2> DEFINE g == [k \in 0..0 |-> first]
  <2>1. g = [k \in 0..0 |-> value(g, k)]
    OBVIOUS
  <2> QED
    BY <2>1
<1>2. ASSUME NEW m \in Nat, m \in S PROVE m + 1 \in S
  <2>1. PICK g : g = [k \in 0..m |-> value(g, k)]
    BY <1>2
  <2> DEFINE h == [k \in 0..(m + 1) |-> IF k = m + 1 THEN next(g[m], m + 1) ELSE g[k]]
  <2>2. ASSUME NEW k \in 0..(m + 1) PROVE h[k] = value(h, k)
    <3>1. CASE k = m + 1
      BY <3>1
    <3>2. CASE k \in 0..m
      <4>1. h[k] = g[k] /\ (k # 0 => h[k - 1] = g[k - 1])
        BY <3>2
      <4>2. g[k] = value(g, k)
        BY <2>1, <3>2
      <4> QED
        BY <4>1, <4>2
    <3> QED
      BY <3>1, <3>2
  <2>3. h = [k \in 0..(m + 1) |-> value(h, k)]
    BY <2>2
  <2> HIDE DEF h
  <2> QED
    BY <2>3
<1>3. n \in S
  <2> HIDE DEF S
  <2> QED
    BY <1>1, <1>2, SetInduction
<1> QED
  BY <1>3 DEF next, AreRests

\* The first rows have their items.
LEMMA RowsExist ==
    ASSUME  NEW n \in Nat
    PROVE  \E g : g = [k \in 0..n |-> IF k = 0 THEN <<>> ELSE g[k - 1] \o (IF Fits(k) THEN [i \in 1..combinations(k) |-> Item(k, i - 1)] ELSE <<>>)]
<1> DEFINE next(s, k) == s \o (IF Fits(k) THEN [i \in 1..combinations(k) |-> Item(k, i - 1)] ELSE <<>>)
           value(g, k) == IF k = 0 THEN <<>> ELSE next(g[k - 1], k)
           S == {m \in Nat : \E g : g = [k \in 0..m |-> value(g, k)]}
<1> HIDE DEF next
<1>1. 0 \in S
  <2> DEFINE g == [k \in 0..0 |-> <<>>]
  <2>1. g = [k \in 0..0 |-> value(g, k)]
    OBVIOUS
  <2> QED
    BY <2>1
<1>2. ASSUME NEW m \in Nat, m \in S PROVE m + 1 \in S
  <2>1. PICK g : g = [k \in 0..m |-> value(g, k)]
    BY <1>2
  <2> DEFINE h == [k \in 0..(m + 1) |-> IF k = m + 1 THEN next(g[m], m + 1) ELSE g[k]]
  <2>2. ASSUME NEW k \in 0..(m + 1) PROVE h[k] = value(h, k)
    <3>1. CASE k = m + 1
      BY <3>1
    <3>2. CASE k \in 0..m
      <4>1. h[k] = g[k] /\ (k # 0 => h[k - 1] = g[k - 1])
        BY <3>2
      <4>2. g[k] = value(g, k)
        BY <2>1, <3>2
      <4> QED
        BY <4>1, <4>2
    <3> QED
      BY <3>1, <3>2
  <2>3. h = [k \in 0..(m + 1) |-> value(h, k)]
    BY <2>2
  <2> HIDE DEF h
  <2> QED
    BY <2>3
<1>3. n \in S
  <2> HIDE DEF S
  <2> QED
    BY <1>1, <1>2, SetInduction
<1> QED
  BY <1>3 DEF next


LEMMA CountsStep ==
    ASSUME source \in Cases, NEW r \in DOMAIN source.rows
    PROVE  /\ counts(r)[0] = 1
           /\ \A j \in 1..source.crosses : counts(r)[j] = counts(r)[j - 1] * width(r, j)
<1> DEFINE g == counts(r)
           C == source.crosses
<1>1. C \in Nat
  BY SourceFacts
<1>2. g = [k \in 0..C |-> IF k = 0 THEN 1 ELSE g[k - 1] * width(r, k)]
  BY <1>1, CountsExist DEF counts
<1> HIDE DEF g
<1>3. g[0] = 1 /\ \A k \in 1..C : g[k] = g[k - 1] * width(r, k)
  BY <1>1, <1>2
<1> QED
  BY <1>3 DEF g

LEMMA RestsStep ==
    ASSUME source \in Cases, NEW r \in DOMAIN source.rows, NEW n
    PROVE  /\ rests(r, n)[0] = n
           /\ \A j \in 1..source.crosses :
                rests(r, n)[j] = rests(r, n)[j - 1] \div width(r, source.crosses - j + 1)
<1> DEFINE g == rests(r, n)
           C == source.crosses
<1>1. C \in Nat
  BY SourceFacts
<1>2. g = [k \in 0..C |-> IF k = 0 THEN n ELSE g[k - 1] \div width(r, C - k + 1)]
  <2>1. \E f : AreRests(f, r, n, C)
    BY <1>1, RestsExist
  <2> QED
    BY <2>1 DEF rests, AreRests
<1> HIDE DEF g
<1>3. g[0] = n /\ \A k \in 1..C : g[k] = g[k - 1] \div width(r, C - k + 1)
  BY <1>1, <1>2
<1> QED
  BY <1>3 DEF g

\* The items of one row.
Block(r) == IF Fits(r) THEN [i \in 1..combinations(r) |-> Item(r, i - 1)] ELSE <<>>

LEMMA RowsStep ==
    ASSUME source \in Cases
    PROVE  /\ Rows[0] = <<>>
           /\ \A r \in 1..Len(source.rows) : Rows[r] = Rows[r - 1] \o Block(r)
<1> DEFINE N == Len(source.rows)
           g == Rows
<1>1. N \in Nat
  BY SourceFacts
<1> DEFINE next(s, k) == s \o Block(k)
<1>2. g = [k \in 0..N |-> IF k = 0 THEN <<>> ELSE next(g[k - 1], k)]
  BY <1>1, RowsExist DEF Rows, Block
<1> HIDE DEF g, next
<1>3. g[0] = <<>> /\ \A k \in 1..N : g[k] = next(g[k - 1], k)
  BY <1>1, <1>2
<1> QED
  BY <1>3 DEF g, next

-----------------------------------------------------------------------------
(* The combinations of a row                                               *)

LEMMA Division ==
    ASSUME NEW a \in Nat, NEW w \in Nat \ {0}
    PROVE  a \div w \in Nat /\ a % w \in 0..(w - 1) /\ a = w * (a \div w) + (a % w)
OBVIOUS

LEMMA DivisionCarry ==
    ASSUME NEW a \in Nat, NEW w \in Nat \ {0}
    PROVE  /\ a % w < w - 1 => (a + 1) \div w = a \div w /\ (a + 1) % w = (a % w) + 1
           /\ a % w = w - 1 => (a + 1) \div w = (a \div w) + 1 /\ (a + 1) % w = 0
<1> DEFINE q == a \div w
           d == a % w
<1>1. q \in Nat /\ d \in 0..(w - 1) /\ a = w * q + d
  OBVIOUS
<1>2. \A b, p \in Nat : \A e \in 0..(w - 1) : b = w * p + e => b \div w = p /\ b % w = e
  OBVIOUS
<1> HIDE DEF q, d
<1>3. d < w - 1 => (a + 1) \div w = q /\ (a + 1) % w = d + 1
  <2> HAVE d < w - 1
  <2>1. a + 1 = w * q + (d + 1) /\ d + 1 \in 0..(w - 1) /\ a + 1 \in Nat
    BY <1>1
  <2> QED
    BY <1>1, <1>2, <2>1
<1>4. d = w - 1 => (a + 1) \div w = q + 1 /\ (a + 1) % w = 0
  <2> HAVE d = w - 1
  <2>1. a + 1 = w * (q + 1) + 0 /\ 0 \in 0..(w - 1) /\ a + 1 \in Nat /\ q + 1 \in Nat
    BY <1>1
  <2> QED
    BY <1>2, <2>1
<1> QED
  BY <1>3, <1>4 DEF q, d

LEMMA DivisionBound ==
    ASSUME NEW a \in Nat, NEW b \in Nat, NEW w \in Nat \ {0}, a < b * w
    PROVE  a \div w < b
OBVIOUS

LEMMA DivisionLast ==
    ASSUME NEW b \in Nat \ {0}, NEW w \in Nat \ {0}
    PROVE  /\ b * w \in Nat \ {0} /\ (b * w - 1) \div w = b - 1 /\ (b * w - 1) % w = w - 1
OBVIOUS

LEMMA DivisionOnlyLast ==
    ASSUME NEW a \in Nat, NEW b \in Nat \ {0}, NEW w \in Nat \ {0}, a \div w = b - 1, a % w = w - 1
    PROVE  a = b * w - 1
<1>1. a = w * (a \div w) + (a % w)
  BY Division
<1>2. w * (b - 1) + (w - 1) = b * w - 1
  OBVIOUS
<1> QED
  BY <1>1, <1>2

LEMMA CountsType ==
    ASSUME source \in Cases, NEW r \in DOMAIN source.rows
    PROVE  \A j \in 0..source.crosses : counts(r)[j] \in Nat \ {0}
<1> DEFINE C == source.crosses
           S == {k \in Nat : k <= C => counts(r)[k] \in Nat \ {0}}
<1>1. C \in Nat
  BY SourceFacts
<1>2. 0 \in S
  BY CountsStep
<1>3. ASSUME NEW k \in Nat, k \in S PROVE k + 1 \in S
  <2> SUFFICES ASSUME k + 1 <= C PROVE counts(r)[k + 1] \in Nat \ {0}
    OBVIOUS
  <2>1. k + 1 \in 1..C /\ (k + 1) - 1 = k /\ k <= C
    BY <1>1
  <2>2. counts(r)[k] \in Nat \ {0} /\ width(r, k + 1) \in Nat \ {0}
    BY <1>3, <2>1, WidthFacts
  <2>3. counts(r)[k + 1] = counts(r)[k] * width(r, k + 1)
    BY <2>1, CountsStep
  <2> QED
    BY <2>2, <2>3, DivisionLast
<1>4. \A k \in Nat : k \in S
  <2> HIDE DEF S
  <2> QED
    BY <1>2, <1>3, SetInduction
<1> QED
  BY <1>1, <1>4

\* The last j dimensions taken off a number leave one below the combinations of the others.
LEMMA RestsBound ==
    ASSUME source \in Cases, NEW r \in DOMAIN source.rows, NEW n \in Nat, n < combinations(r)
    PROVE  \A j \in 0..source.crosses :
                rests(r, n)[j] \in Nat /\ rests(r, n)[j] < counts(r)[source.crosses - j]
<1> DEFINE C == source.crosses
           below(k) == rests(r, n)[k] \in Nat /\ rests(r, n)[k] < counts(r)[C - k]
           S == {k \in Nat : k <= C => below(k)}
<1>1. C \in Nat
  BY SourceFacts
<1>2. 0 \in S
  BY <1>1, RestsStep DEF combinations
<1>3. ASSUME NEW k \in Nat, k \in S PROVE k + 1 \in S
  <2> SUFFICES ASSUME k + 1 <= C PROVE below(k + 1)
    OBVIOUS
  <2> DEFINE j == C - k
             w == width(r, j)
  <2>1. k + 1 \in 1..C /\ (k + 1) - 1 = k /\ k <= C /\ C - (k + 1) + 1 = j /\ j \in 1..C /\ C - (k + 1) = j - 1 /\ j - 1 \in 0..C
    BY <1>1
  <2>2. rests(r, n)[k] \in Nat /\ rests(r, n)[k] < counts(r)[j]
    BY <1>3, <2>1
  <2>3. w \in Nat \ {0} /\ counts(r)[j - 1] \in Nat /\ counts(r)[j] = counts(r)[j - 1] * w
    BY <2>1, WidthFacts, CountsStep, CountsType
  <2>4. rests(r, n)[k + 1] = rests(r, n)[k] \div w
    BY <2>1, RestsStep
  <2> HIDE DEF w
  <2>5. rests(r, n)[k] \div w \in Nat /\ rests(r, n)[k] \div w < counts(r)[j - 1]
    BY <2>2, <2>3, Division, DivisionBound
  <2> QED
    BY <2>1, <2>4, <2>5
<1>4. \A k \in Nat : k \in S
  <2> HIDE DEF S
  <2> QED
    BY <1>2, <1>3, SetInduction
<1> QED
  BY <1>1, <1>4

digit(r, n, j) == rests(r, n)[source.crosses - j] % width(r, j)
LastDigit(r, n, j) == digit(r, n, j) = width(r, j) - 1
Carry(r, n, j) == \A i \in (j + 1)..source.crosses : LastDigit(r, n, i)

LEMMA Digits ==
    ASSUME source \in Cases, NEW r \in DOMAIN source.rows, NEW n \in Nat, n < combinations(r)
    PROVE  /\ Combination(r, n) \in [1..source.crosses -> Nat]
           /\ \A j \in 1..source.crosses :
                digit(r, n, j) \in 0..(width(r, j) - 1) /\ Combination(r, n)[j] = digit(r, n, j) + 1
<1> DEFINE C == source.crosses
<1>1. ASSUME NEW j \in 1..C PROVE digit(r, n, j) \in 0..(width(r, j) - 1) /\ Combination(r, n)[j] = digit(r, n, j) + 1
  <2>1. C - j \in 0..C
    BY SourceFacts
  <2>2. rests(r, n)[C - j] \in Nat /\ width(r, j) \in Nat \ {0}
    BY <2>1, RestsBound, WidthFacts
  <2>3. digit(r, n, j) \in 0..(width(r, j) - 1)
    BY <2>2, Division DEF digit
  <2> QED
    BY <2>3 DEF Combination, digit
<1>2. Combination(r, n) = [j \in 1..C |-> digit(r, n, j) + 1]
  BY DEF Combination, digit
<1>3. \A j \in 1..C : digit(r, n, j) + 1 \in Nat
  <2> TAKE j \in 1..C
  <2>1. width(r, j) \in Nat /\ digit(r, n, j) \in 0..(width(r, j) - 1)
    BY <1>1, WidthFacts
  <2> QED
    BY <2>1
<1> QED
  BY <1>1, <1>2, <1>3

\* What is left of the next number is one more as long as every digit taken off was the last.
LEMMA Carried ==
    ASSUME source \in Cases, NEW r \in DOMAIN source.rows, NEW n \in Nat, n < combinations(r)
    PROVE  \A j \in 0..source.crosses :
                rests(r, n + 1)[source.crosses - j] =
                    rests(r, n)[source.crosses - j] + (IF Carry(r, n, j) THEN 1 ELSE 0)
<1> DEFINE C == source.crosses
           a(k) == rests(r, n)[k]
           b(k) == rests(r, n + 1)[k]
           right(k) == b(k) = a(k) + (IF Carry(r, n, C - k) THEN 1 ELSE 0)
           S == {k \in Nat : k <= C => right(k)}
<1>1. C \in Nat
  BY SourceFacts
<1>2. 0 \in S
  <2>1. Carry(r, n, C - 0)
    BY <1>1 DEF Carry
  <2> QED
    BY <2>1, RestsStep
<1>3. ASSUME NEW k \in Nat, k \in S PROVE k + 1 \in S
  <2> SUFFICES ASSUME k + 1 <= C PROVE right(k + 1)
    OBVIOUS
  <2> DEFINE j == C - k
             w == width(r, j)
  <2>1. k + 1 \in 1..C /\ (k + 1) - 1 = k /\ k \in 0..C /\ C - (k + 1) + 1 = j /\ j \in 1..C /\ C - (k + 1) = j - 1 /\ C - j = k
    BY <1>1
  <2>2. right(k)
    BY <1>3, <2>1
  <2>3. a(k) \in Nat /\ w \in Nat \ {0}
    BY <2>1, RestsBound, WidthFacts
  <2>4. a(k + 1) = a(k) \div w /\ b(k + 1) = b(k) \div w
    BY <2>1, RestsStep
  <2>5. LastDigit(r, n, j) <=> a(k) % w = w - 1
    BY <2>1 DEF LastDigit, digit
  <2>7. Carry(r, n, j - 1) <=> Carry(r, n, j) /\ LastDigit(r, n, j)
    <3>1. \A i : i \in ((j - 1) + 1)..C <=> i = j \/ i \in (j + 1)..C
      BY <1>1, <2>1
    <3> QED
      BY <3>1 DEF Carry
  <2> HIDE DEF a, b, w, j
  <2>6. a(k) \div w \in Nat /\ a(k) % w \in 0..(w - 1)
    BY <2>3, Division
  <2>8. CASE Carry(r, n, j)
    <3>1. b(k) = a(k) + 1
      BY <2>2, <2>8 DEF j
    <3>2. CASE LastDigit(r, n, j)
      <4>1. b(k + 1) = a(k + 1) + 1
        <5>1. (a(k) + 1) \div w = (a(k) \div w) + 1
          BY <2>3, <2>5, <3>2, DivisionCarry
        <5> QED
          BY <2>4, <3>1, <5>1
      <4> QED
        BY <2>1, <2>7, <2>8, <3>2, <4>1
    <3>3. CASE ~LastDigit(r, n, j)
      <4>1. b(k + 1) = a(k + 1)
        <5>1. a(k) % w < w - 1
          BY <2>3, <2>5, <2>6, <3>3
        <5>2. (a(k) + 1) \div w = a(k) \div w
          BY <2>3, <5>1, DivisionCarry
        <5> QED
          BY <2>4, <3>1, <5>2
      <4> QED
        BY <2>1, <2>4, <2>6, <2>7, <3>3, <4>1
    <3> QED
      BY <3>2, <3>3
  <2>9. CASE ~Carry(r, n, j)
    <3>1. b(k) = a(k)
      BY <2>2, <2>3, <2>9 DEF j
    <3> QED
      BY <2>1, <2>4, <2>6, <2>7, <2>9, <3>1
  <2> QED
    BY <2>8, <2>9
<1>4. \A k \in Nat : k \in S
  <2> HIDE DEF S
  <2> QED
    BY <1>2, <1>3, SetInduction
<1>5. \A j \in 0..C : right(C - j)
  <2> TAKE j \in 0..C
  <2>1. C - j \in Nat /\ C - j <= C
    BY <1>1
  <2> HIDE DEF right
  <2> QED
    BY <1>4, <2>1
<1>6. \A j \in 0..C : C - (C - j) = j
  BY <1>1
<1> QED
  BY <1>5, <1>6

LEMMA NextDigits ==
    ASSUME source \in Cases, NEW r \in DOMAIN source.rows, NEW n \in Nat, n < combinations(r),
           NEW j \in 1..source.crosses
    PROVE  digit(r, n + 1, j) = IF ~Carry(r, n, j) THEN digit(r, n, j)
                                ELSE IF LastDigit(r, n, j) THEN 0 ELSE digit(r, n, j) + 1
<1> DEFINE a == rests(r, n)[source.crosses - j]
           w == width(r, j)
<1>1. source.crosses - j \in 0..source.crosses /\ j \in 0..source.crosses
  BY SourceFacts
<1>2. a \in Nat /\ w \in Nat \ {0}
  BY <1>1, RestsBound, WidthFacts
<1>3. rests(r, n + 1)[source.crosses - j] = a + (IF Carry(r, n, j) THEN 1 ELSE 0)
  BY <1>1, Carried
<1>4. digit(r, n, j) = a % w
  BY DEF digit
<1>5. digit(r, n + 1, j) = (a + (IF Carry(r, n, j) THEN 1 ELSE 0)) % w
  BY <1>3 DEF digit
<1>6. LastDigit(r, n, j) <=> a % w = w - 1
  BY <1>4 DEF LastDigit
<1> HIDE DEF a, w
<1>7. a % w \in 0..(w - 1)
  BY <1>2, Division
<1>8. CASE Carry(r, n, j) /\ LastDigit(r, n, j)
  BY <1>2, <1>5, <1>6, <1>8, DivisionCarry
<1>9. CASE Carry(r, n, j) /\ ~LastDigit(r, n, j)
  <2>1. a % w < w - 1
    BY <1>2, <1>6, <1>7, <1>9
  <2> QED
    BY <1>2, <1>4, <1>5, <1>6, <1>9, <2>1, DivisionCarry
<1>10. CASE ~Carry(r, n, j)
  BY <1>2, <1>4, <1>5, <1>10
<1> QED
  BY <1>8, <1>9, <1>10

\* Only the last combination has every digit at its last.
LEMMA LastCombination ==
    ASSUME source \in Cases, NEW r \in DOMAIN source.rows, NEW n \in Nat, n < combinations(r)
    PROVE  (\A j \in 1..source.crosses : LastDigit(r, n, j)) <=> n = combinations(r) - 1
<1> DEFINE C == source.crosses
           a(k) == rests(r, n)[k]
<1>1. C \in Nat /\ combinations(r) = counts(r)[C] /\ a(0) = n /\ C - 0 = C
  BY SourceFacts, RestsStep DEF combinations
<1>2. ASSUME \A j \in 1..C : LastDigit(r, n, j) PROVE n = combinations(r) - 1
  <2> DEFINE right(k) == a(C - k) = counts(r)[k] - 1
             S == {k \in Nat : k <= C => right(k)}
  <2>1. 0 \in S
    <3>1. C \in 0..C /\ C - C = 0
      BY <1>1
    <3>2. a(C) \in Nat /\ a(C) < counts(r)[0] /\ counts(r)[0] = 1
      BY <3>1, RestsBound, CountsStep
    <3> QED
      BY <1>1, <3>2
  <2>2. ASSUME NEW k \in Nat, k \in S PROVE k + 1 \in S
    <3> SUFFICES ASSUME k + 1 <= C PROVE right(k + 1)
      OBVIOUS
    <3> DEFINE j == k + 1
               w == width(r, j)
    <3>1. j \in 1..C /\ j - 1 = k /\ k \in 0..C /\ C - k \in 1..C /\ (C - k) - 1 = C - j /\ C - (C - k) + 1 = j /\ C - j \in 0..C
      BY <1>1
    <3>2. a(C - k) = counts(r)[k] - 1
      BY <2>2, <3>1
    <3>3. a(C - k) = a(C - j) \div w /\ a(C - j) % w = w - 1
      BY <1>2, <3>1, RestsStep DEF LastDigit, digit
    <3>4. w \in Nat \ {0} /\ counts(r)[k] \in Nat \ {0} /\ a(C - j) \in Nat
      BY <3>1, WidthFacts, CountsType, RestsBound
    <3>5. counts(r)[j] = counts(r)[k] * w
      BY <3>1, CountsStep
    <3> DEFINE x == a(C - j)
               y == counts(r)[k]
    <3>6. x \div w = y - 1 /\ x % w = w - 1 /\ x \in Nat /\ y \in Nat \ {0}
      BY <3>2, <3>3, <3>4
    <3> HIDE DEF w, j, a, x, y
    <3>7. x = y * w - 1
      BY <3>4, <3>6, DivisionOnlyLast
    <3>8. a(C - j) = counts(r)[j] - 1
      BY <3>5, <3>7 DEF x, y
    <3> QED
      BY <3>8 DEF j
  <2>3. \A k \in Nat : k \in S
    <3> HIDE DEF S
    <3> QED
      BY <2>1, <2>2, SetInduction
  <2>4. a(C - C) = counts(r)[C] - 1
    BY <1>1, <2>3
  <2>5. C - C = 0
    BY <1>1
  <2> QED
    BY <1>1, <2>4, <2>5
<1>3. ASSUME n = combinations(r) - 1, NEW i \in 1..C PROVE LastDigit(r, n, i)
  <2> DEFINE right(k) == a(k) = counts(r)[C - k] - 1
             S == {k \in Nat : k <= C => right(k)}
  <2>1. 0 \in S
    BY <1>1, <1>3
  <2>2. ASSUME NEW k \in Nat, k + 1 <= C, right(k)
        PROVE  right(k + 1) /\ LastDigit(r, n, C - k)
    <3> DEFINE j == C - k
               w == width(r, j)
    <3>1. j \in 1..C /\ k + 1 \in 1..C /\ (k + 1) - 1 = k /\ C - (k + 1) + 1 = j /\ C - (k + 1) = j - 1 /\ j - 1 \in 0..C /\ C - j = k
      BY <1>1, <2>2
    <3>2. a(k) = counts(r)[j] - 1
      BY <2>2
    <3>3. a(k + 1) = a(k) \div w
      BY <3>1, RestsStep
    <3>4. w \in Nat \ {0} /\ counts(r)[j - 1] \in Nat \ {0} /\ counts(r)[j] = counts(r)[j - 1] * w
      BY <3>1, WidthFacts, CountsType, CountsStep
    <3>5. digit(r, n, j) = a(k) % w
      BY <3>1 DEF digit
    <3> DEFINE y == counts(r)[j - 1]
    <3>8. a(k) = y * w - 1 /\ y \in Nat \ {0}
      BY <3>2, <3>4
    <3> HIDE DEF w, j, a, y
    <3>9. (y * w - 1) \div w = y - 1 /\ (y * w - 1) % w = w - 1
      BY <3>4, <3>8, DivisionLast
    <3>6. a(k + 1) = counts(r)[j - 1] - 1 /\ a(k) % w = w - 1
      BY <3>3, <3>8, <3>9 DEF y
    <3>7. LastDigit(r, n, j)
      BY <3>5, <3>6 DEF LastDigit, w
    <3> QED
      BY <3>1, <3>6, <3>7 DEF j
  <2>3. \A k \in Nat : k \in S => k + 1 \in S
    <3> HIDE DEF right
    <3> SUFFICES ASSUME NEW k \in Nat, k \in S, k + 1 <= C PROVE right(k + 1)
      OBVIOUS
    <3>1. k <= C
      BY <1>1
    <3> QED
      BY <2>2, <3>1
  <2>4. \A k \in Nat : k \in S
    <3> HIDE DEF S
    <3> QED
      BY <2>1, <2>3, SetInduction
  <2>5. C - i \in Nat /\ (C - i) + 1 <= C /\ C - (C - i) = i /\ C - i <= C
    BY <1>1
  <2>6. right(C - i)
    <3> HIDE DEF right
    <3> QED
      BY <2>4, <2>5
  <2> HIDE DEF right
  <2>7. LastDigit(r, n, C - (C - i))
    BY <2>2, <2>5, <2>6
  <2> QED
    BY <2>5, <2>7
<1> QED
  BY <1>2, <1>3

\* A set of numbers that are not too large has a greatest.
LEMMA Greatest ==
    ASSUME NEW C \in Nat, NEW G \in SUBSET (1..C), G # {}
    PROVE  \E g \in G : \A i \in G : i <= g
<1> DEFINE S == {m \in Nat : \A H \in SUBSET (1..m) : H # {} => \E g \in H : \A i \in H : i <= g}
<1>1. 0 \in S
  <2>1. \A H \in SUBSET (1..0) : H = {}
    OBVIOUS
  <2> QED
    BY <2>1
<1>2. ASSUME NEW m \in Nat, m \in S PROVE m + 1 \in S
  <2> SUFFICES ASSUME NEW H \in SUBSET (1..(m + 1)), H # {} PROVE \E g \in H : \A i \in H : i <= g
    OBVIOUS
  <2>1. CASE m + 1 \in H
    <3>1. \A i \in H : i <= m + 1
      OBVIOUS
    <3> QED
      BY <2>1, <3>1
  <2>2. CASE m + 1 \notin H
    <3>1. H \in SUBSET (1..m)
      BY <2>2
    <3> QED
      BY <1>2, <3>1
  <2> QED
    BY <2>1, <2>2
<1>3. C \in S
  <2> HIDE DEF S
  <2> QED
    BY <1>1, <1>2, SetInduction
<1> QED
  BY <1>3

\* The state of a CROSS join counts: its next combination has the next number, and after
\* the last there is none.
LEMMA Advances ==
    ASSUME source \in Cases, NEW r \in DOMAIN source.rows, NEW n \in Nat, n < combinations(r)
    PROVE  advanced(Combination(r, n), source.rows[r].matches) =
               IF n + 1 < combinations(r) THEN {Combination(r, n + 1)} ELSE {}
<1> DEFINE C == source.crosses
           m == source.rows[r].matches
           ix == Combination(r, n)
           growing == {j \in 1..C : ix[j] < m[j]}
           last == {j \in growing : \A i \in growing : i <= j}
           next(g) == [j \in 1..C |-> IF j < g THEN ix[j] ELSE IF j = g THEN ix[j] + 1 ELSE 1]
<1>1. C \in Nat /\ combinations(r) \in Nat
  <2>1. C \in Nat /\ C \in 0..C
    BY SourceFacts
  <2> QED
    BY <2>1, CountsType DEF combinations
<1>2. DOMAIN ix = 1..C /\ \A j \in 1..C : digit(r, n, j) \in 0..(width(r, j) - 1) /\ ix[j] = digit(r, n, j) + 1
  BY Digits
<1>3. advanced(ix, m) = {next(g) : g \in last}
  BY <1>2 DEF advanced
<1>4. \A j \in 1..C : j \in growing <=> ~LastDigit(r, n, j)
  <2> TAKE j \in 1..C
  <2>1. m[j] \in Nat /\ width(r, j) \in Nat /\ (m[j] # 0 => width(r, j) = m[j]) /\ (m[j] = 0 => width(r, j) = 1)
    BY WidthFacts DEF width
  <2>2. digit(r, n, j) \in 0..(width(r, j) - 1) /\ ix[j] = digit(r, n, j) + 1
    BY <1>2
  <2>3. ix[j] < m[j] <=> digit(r, n, j) # width(r, j) - 1
    BY <2>1, <2>2
  <2> QED
    BY <2>3 DEF LastDigit
<1>5. growing = {} <=> n = combinations(r) - 1
  BY <1>4, LastCombination
<1> HIDE DEF ix, m
<1>6. CASE growing = {}
  <2>1. ~(n + 1 < combinations(r))
    BY <1>1, <1>5, <1>6
  <2>2. advanced(ix, m) = {}
    BY <1>3, <1>6
  <2> QED
    BY <2>1, <2>2 DEF ix, m
<1>7. CASE growing # {}
  <2>1. n + 1 < combinations(r) /\ n + 1 \in Nat
    BY <1>1, <1>5, <1>7
  <2>2. PICK g \in growing : \A i \in growing : i <= g
    <3>1. growing \in SUBSET (1..C)
      OBVIOUS
    <3> HIDE DEF growing
    <3> QED
      BY <1>1, <1>7, <3>1, Greatest
  <2>3. last = {g}
    BY <1>1, <2>2
  <2>4. g \in 1..C /\ ~LastDigit(r, n, g) /\ \A j \in (g + 1)..C : LastDigit(r, n, j)
    BY <1>1, <1>4, <2>2
  <2>5. ASSUME NEW j \in 1..C PROVE next(g)[j] = Combination(r, n + 1)[j]
    <3>1. Combination(r, n + 1)[j] = digit(r, n + 1, j) + 1
      BY <2>1, Digits
    <3>2. ix[j] = digit(r, n, j) + 1 /\ digit(r, n, j) \in Nat
      <4>1. width(r, j) \in Nat /\ digit(r, n, j) \in 0..(width(r, j) - 1)
        BY <1>2, WidthFacts
      <4> QED
        BY <1>2, <4>1
    <3>3. CASE j < g
      <4>1. ~Carry(r, n, j)
        <5>1. g \in (j + 1)..C
          BY <1>1, <2>4, <3>3
        <5> QED
          BY <2>4, <5>1 DEF Carry
      <4>2. digit(r, n + 1, j) = digit(r, n, j)
        BY <4>1, NextDigits
      <4> QED
        BY <3>1, <3>2, <3>3, <4>2
    <3>4. CASE j = g
      <4>1. Carry(r, n, j) /\ ~LastDigit(r, n, j)
        BY <2>4, <3>4 DEF Carry
      <4>2. digit(r, n + 1, j) = digit(r, n, j) + 1
        BY <4>1, NextDigits
      <4> QED
        BY <3>1, <3>2, <3>4, <4>2
    <3>5. CASE j > g
      <4>1. Carry(r, n, j) /\ LastDigit(r, n, j)
        <5>1. j \in (g + 1)..C /\ \A i \in (j + 1)..C : i \in (g + 1)..C
          BY <1>1, <2>4, <3>5
        <5> QED
          BY <2>4, <5>1 DEF Carry
      <4>2. digit(r, n + 1, j) = 0
        BY <4>1, NextDigits
      <4>3. ~(j < g) /\ j # g
        BY <2>4, <3>5
      <4> QED
        BY <3>1, <4>2, <4>3
    <3> QED
      BY <2>4, <3>3, <3>4, <3>5
  <2>6. next(g) = Combination(r, n + 1)
    <3>1. Combination(r, n + 1) = [j \in 1..C |-> Combination(r, n + 1)[j]]
      BY DEF Combination
    <3>2. next(g) = [j \in 1..C |-> next(g)[j]]
      OBVIOUS
    <3> HIDE DEF next
    <3> QED
      BY <2>5, <3>1, <3>2
  <2> HIDE DEF next, last
  <2>7. advanced(ix, m) = {Combination(r, n + 1)}
    BY <1>3, <2>3, <2>6
  <2> QED
    BY <2>1, <2>7 DEF ix, m
<1> QED
  BY <1>6, <1>7

\* The first combination is the first of every dimension.
LEMMA FirstCombination ==
    ASSUME source \in Cases, NEW r \in DOMAIN source.rows
    PROVE  Combination(r, 0) = [j \in 1..source.crosses |-> 1] /\ combinations(r) \in Nat \ {0}
<1> DEFINE C == source.crosses
           S == {k \in Nat : k <= C => rests(r, 0)[k] = 0}
<1>1. C \in Nat /\ C \in 0..C
  BY SourceFacts
<1>2. 0 \in S
  BY RestsStep
<1>3. \A w \in Nat \ {0} : 0 \div w = 0 /\ 0 % w = 0
  OBVIOUS
<1>4. ASSUME NEW k \in Nat, k \in S PROVE k + 1 \in S
  <2> SUFFICES ASSUME k + 1 <= C PROVE rests(r, 0)[k + 1] = 0
    OBVIOUS
  <2>1. k + 1 \in 1..C /\ (k + 1) - 1 = k /\ k <= C /\ C - (k + 1) + 1 \in 1..C
    BY <1>1
  <2>2. rests(r, 0)[k + 1] = rests(r, 0)[k] \div width(r, C - (k + 1) + 1)
    BY <2>1, RestsStep
  <2>3. width(r, C - (k + 1) + 1) \in Nat \ {0}
    BY <2>1, WidthFacts
  <2> QED
    BY <1>3, <1>4, <2>1, <2>2, <2>3
<1>5. \A k \in Nat : k \in S
  <2> HIDE DEF S
  <2> QED
    BY <1>2, <1>4, SetInduction
<1>6. \A j \in 1..C : (rests(r, 0)[C - j] % width(r, j)) + 1 = 1
  <2> TAKE j \in 1..C
  <2>1. C - j \in Nat /\ C - j <= C
    BY <1>1
  <2>2. rests(r, 0)[C - j] = 0 /\ width(r, j) \in Nat \ {0}
    BY <1>5, <2>1, WidthFacts
  <2> QED
    BY <1>3, <2>2
<1> QED
  BY <1>1, <1>6, CountsType DEF Combination, combinations

-----------------------------------------------------------------------------
(* A pass over the source                                                  *)

Each == {Item(r, n) : r \in DOMAIN source.rows, n \in Nat}

LEMMA BlockType ==
    ASSUME source \in Cases, NEW r \in DOMAIN source.rows
    PROVE  /\ Block(r) \in Seq(Each)
           /\ ~Fits(r) => Block(r) = <<>>
           /\ Fits(r) => /\ Len(Block(r)) = combinations(r)
                         /\ \A n \in 0..(combinations(r) - 1) : Block(r)[n + 1] = Item(r, n)
<1> DEFINE T == combinations(r)
           b == [i \in 1..T |-> Item(r, i - 1)]
<1>1. T \in Nat
  BY FirstCombination
<1>2. b \in Seq(Each)
  <2>1. \A i \in 1..T : Item(r, i - 1) \in Each
    BY DEF Each
  <2>2. b \in [1..T -> Each]
    BY <2>1
  <2> HIDE DEF b, T
  <2> QED
    BY <1>1, <2>2
<1>3. Len(b) = T
  BY <1>1
<1>4. \A n \in 0..(T - 1) : b[n + 1] = Item(r, n)
  <2> TAKE n \in 0..(T - 1)
  <2>1. n + 1 \in 1..T /\ (n + 1) - 1 = n
    BY <1>1
  <2> QED
    BY <2>1
<1>5. <<>> \in Seq(Each)
  OBVIOUS
<1> HIDE DEF b
<1>6. Block(r) = IF Fits(r) THEN b ELSE <<>>
  BY DEF Block, b
<1> QED
  BY <1>2, <1>3, <1>4, <1>5, <1>6

LEMMA RowsType ==
    ASSUME source \in Cases
    PROVE  /\ \A k \in 0..Len(source.rows) : Rows[k] \in Seq(Each) /\ Len(Rows[k]) \in Nat
           /\ Pass \in Seq(Each) /\ Len(Pass) \in Nat /\ Pass = Rows[Len(source.rows)]
<1> DEFINE N == Len(source.rows)
           S == {k \in Nat : k <= N => Rows[k] \in Seq(Each)}
<1>1. N \in Nat /\ DOMAIN source.rows = 1..N
  BY SourceFacts
<1>2. 0 \in S
  <2>1. Rows[0] = <<>> /\ <<>> \in Seq(Each)
    BY RowsStep
  <2> QED
    BY <2>1
<1>3. ASSUME NEW k \in Nat, k \in S PROVE k + 1 \in S
  <2> SUFFICES ASSUME k + 1 <= N PROVE Rows[k + 1] \in Seq(Each)
    OBVIOUS
  <2>1. k + 1 \in 1..N /\ (k + 1) - 1 = k /\ k <= N
    BY <1>1
  <2>2. Rows[k + 1] = Rows[k] \o Block(k + 1)
    BY <2>1, RowsStep
  <2>3. Rows[k] \in Seq(Each) /\ Block(k + 1) \in Seq(Each)
    BY <1>1, <1>3, <2>1, BlockType
  <2> QED
    BY <2>2, <2>3, ConcatProperties
<1>4. \A k \in Nat : k \in S
  <2> HIDE DEF S
  <2> QED
    BY <1>2, <1>3, SetInduction
<1>5. \A k \in 0..N : Rows[k] \in Seq(Each)
  BY <1>1, <1>4
<1>6. \A k \in 0..N : Len(Rows[k]) \in Nat
  BY <1>5, LenProperties
<1>7. N \in 0..N
  BY <1>1
<1> QED
  BY <1>5, <1>6, <1>7 DEF Pass

\* What comes after a row changes nothing before it.
LEMMA RowsGrow ==
    ASSUME source \in Cases, NEW i \in 0..Len(source.rows), NEW j \in i..Len(source.rows)
    PROVE  /\ Len(Rows[i]) <= Len(Rows[j])
           /\ \A x \in 1..Len(Rows[i]) : Rows[j][x] = Rows[i][x]
<1> DEFINE N == Len(source.rows)
           grows(k) == /\ Len(Rows[i]) <= Len(Rows[k])
                       /\ \A x \in 1..Len(Rows[i]) : Rows[k][x] = Rows[i][x]
           S == {k \in Nat : i + k <= N => grows(i + k)}
<1>1. N \in Nat /\ i \in Nat /\ j \in Nat /\ DOMAIN source.rows = 1..N
  BY SourceFacts
<1>2. 0 \in S
  <2>1. i + 0 = i /\ Len(Rows[i]) \in Nat
    BY <1>1, RowsType
  <2> QED
    BY <2>1
<1>3. ASSUME NEW k \in Nat, k \in S PROVE k + 1 \in S
  <2> SUFFICES ASSUME i + (k + 1) <= N PROVE grows(i + (k + 1))
    OBVIOUS
  <2> DEFINE r == i + (k + 1)
             s == Rows[r - 1]
             t == Block(r)
  <2>1. r \in 1..N /\ r - 1 = i + k /\ r - 1 \in 0..N
    BY <1>1
  <2>2. grows(r - 1)
    BY <1>3, <2>1
  <2>3. s \in Seq(Each) /\ t \in Seq(Each) /\ Len(s) \in Nat /\ Len(t) \in Nat /\ Len(Rows[i]) \in Nat
    <3>1. s \in Seq(Each) /\ Len(s) \in Nat /\ Len(Rows[i]) \in Nat
      BY <2>1, RowsType
    <3>2. t \in Seq(Each)
      BY <1>1, <2>1, BlockType
    <3> QED
      BY <3>1, <3>2, LenProperties
  <2>4. Rows[r] = s \o t
    BY <2>1, RowsStep
  <2> HIDE DEF s, t, r
  <2>5. Len(Rows[r]) = Len(s) + Len(t) /\ \A x \in 1..Len(s) : Rows[r][x] = s[x]
    <3>1. \A x \in 1..Len(s) : x \in 1..(Len(s) + Len(t)) /\ x <= Len(s)
      BY <2>3
    <3> QED
      BY <2>3, <2>4, <3>1, ConcatProperties
  <2>6. \A x \in 1..Len(Rows[i]) : x \in 1..Len(s) /\ s[x] = Rows[i][x]
    BY <2>2, <2>3 DEF s
  <2>7. grows(r)
    BY <2>2, <2>3, <2>5, <2>6 DEF s
  <2> QED
    BY <2>7 DEF r
<1>4. \A k \in Nat : k \in S
  <2> HIDE DEF S
  <2> QED
    BY <1>2, <1>3, SetInduction
<1>5. j - i \in Nat /\ i + (j - i) = j /\ j <= N
  BY <1>1
<1>6. j - i \in S
  BY <1>4, <1>5
<1> HIDE DEF grows
<1>7. grows(j)
  BY <1>5, <1>6
<1> QED
  BY <1>7 DEF grows

\* Where the combinations of a row stand in the pass.
LEMMA PlaceOf ==
    ASSUME source \in Cases, NEW r \in DOMAIN source.rows
    PROVE  /\ Len(Rows[r - 1]) \in Nat /\ Len(Rows[r]) \in Nat /\ Len(Rows[r]) <= Len(Pass)
           /\ ~Fits(r) => Len(Rows[r]) = Len(Rows[r - 1])
           /\ Fits(r) => /\ Len(Rows[r]) = Len(Rows[r - 1]) + combinations(r)
                         /\ \A n \in 0..(combinations(r) - 1) :
                              Pass[Len(Rows[r - 1]) + n + 1] = Item(r, n)
<1> DEFINE N == Len(source.rows)
           s == Rows[r - 1]
           t == Block(r)
<1>1. N \in Nat /\ r \in 1..N /\ r - 1 \in 0..N /\ r \in 0..N /\ N \in r..N
  BY SourceFacts
<1>2. s \in Seq(Each) /\ t \in Seq(Each) /\ Len(s) \in Nat /\ Len(t) \in Nat /\ Len(Rows[r]) \in Nat
  <2>1. s \in Seq(Each) /\ Len(s) \in Nat /\ Len(Rows[r]) \in Nat
    BY <1>1, RowsType
  <2>2. t \in Seq(Each)
    BY BlockType
  <2> QED
    BY <2>1, <2>2, LenProperties
<1>3. Rows[r] = s \o t
  BY <1>1, RowsStep
<1>4. Len(Rows[r]) <= Len(Pass) /\ \A x \in 1..Len(Rows[r]) : Pass[x] = Rows[r][x]
  BY <1>1, RowsGrow DEF Pass
<1> HIDE DEF s
<1>5. Len(Rows[r]) = Len(s) + Len(t)
  <2> HIDE DEF t
  <2> QED
    BY <1>2, <1>3, ConcatProperties
<1>6. ~Fits(r) => Len(t) = 0
  BY BlockType
<1>7. ASSUME Fits(r), NEW n \in 0..(combinations(r) - 1)
      PROVE  Pass[Len(s) + n + 1] = Item(r, n)
  <2>1. Len(t) = combinations(r) /\ t[n + 1] = Item(r, n) /\ combinations(r) \in Nat
    BY <1>7, BlockType, FirstCombination
  <2> HIDE DEF t
  <2>2. /\ Len(s) + n + 1 \in 1..(Len(s) + Len(t)) /\ ~(Len(s) + n + 1 <= Len(s))
        /\ (Len(s) + n + 1) - Len(s) = n + 1
    BY <1>2, <2>1
  <2>3. (s \o t)[Len(s) + n + 1] = t[n + 1]
    BY <1>2, <2>2, ConcatProperties
  <2> QED
    BY <1>3, <1>4, <1>5, <2>1, <2>2, <2>3
<1>8. Fits(r) => Len(t) = combinations(r)
  BY BlockType
<1> HIDE DEF t
<1>9. ~Fits(r) => Len(Rows[r]) = Len(s)
  BY <1>2, <1>5, <1>6
<1> QED
  BY <1>2, <1>4, <1>5, <1>7, <1>8, <1>9 DEF s

\* Rows that do not fit take no place.
LEMMA Skipped ==
    ASSUME source \in Cases, NEW i \in 0..Len(source.rows), NEW j \in i..Len(source.rows),
           \A r \in (i + 1)..j : ~Fits(r)
    PROVE  Len(Rows[j]) = Len(Rows[i])
<1> DEFINE N == Len(source.rows)
           S == {k \in Nat : i + k <= j => Len(Rows[i + k]) = Len(Rows[i])}
<1>1. N \in Nat /\ i \in Nat /\ j \in Nat /\ j <= N /\ DOMAIN source.rows = 1..N
  BY SourceFacts
<1>2. 0 \in S
  BY <1>1
<1>3. ASSUME NEW k \in Nat, k \in S PROVE k + 1 \in S
  <2> SUFFICES ASSUME i + (k + 1) <= j PROVE Len(Rows[i + (k + 1)]) = Len(Rows[i])
    OBVIOUS
  <2>1. i + (k + 1) \in 1..N /\ (i + (k + 1)) - 1 = i + k /\ i + k <= j /\ i + (k + 1) \in (i + 1)..j
    BY <1>1
  <2>2. Len(Rows[i + (k + 1)]) = Len(Rows[i + k])
    BY <1>1, <2>1, PlaceOf
  <2> QED
    BY <1>3, <2>1, <2>2
<1>4. \A k \in Nat : k \in S
  <2> HIDE DEF S
  <2> QED
    BY <1>2, <1>3, SetInduction
<1>5. j - i \in Nat /\ i + (j - i) = j
  BY <1>1
<1> QED
  BY <1>4, <1>5

-----------------------------------------------------------------------------
(* One caller alone                                                        *)

\* The others of the callers ask for nothing.
One(c) == \A d \in Callers \ {c} : source.asks[d] = 0

\* How much of the pass is behind the row caller c is at.
Behind(c) ==
    IF cross # {} \/ Pending(c) THEN Len(Rows[cursor - 1]) ELSE Len(Rows[cursor])

\* The CROSS join under way is at combination n of the row read last.
Under(n) ==
    /\ cursor \in DOMAIN source.rows /\ Fits(cursor) /\ n \in 0..(combinations(cursor) - 1)
    /\ cross = {[row |-> cursor, indices |-> Combination(cursor, n)]}

\* Caller c is at place p of the pass.
Place(c, p) ==
    \/ cross = {} /\ p = Behind(c)
    \/ \E n \in Nat : Under(n) /\ p = Behind(c) + n

Items == {Empty} \cup {Pass[i] : i \in 1..Len(Pass)}

\* What was dealt is some passes and p items of the next.
InPass(p) ==
    /\ dealt \in Seq(Items)
    /\ IF Pass = <<>> THEN \A i \in DOMAIN dealt : dealt[i] = Empty
       ELSE /\ \E k \in Nat : Len(dealt) = k * Len(Pass) + p
            /\ \A i \in DOMAIN dealt : dealt[i] = Pass[((i - 1) % Len(Pass)) + 1]

\* What a caller alone knows of the state where it is.
Control(c) ==
    /\ \A d \in Callers \ {c} : pc[d] = "idle"
    /\ ~poisoned /\ pc[c] # "dead"
    /\ pc[c] = "combine" => cross # {}
    /\ pc[c] \in {"read", "rewind", "lookup", "cached", "joined"} => cross = {}
    /\ Pending(c) => row[c] = cursor
    /\ pc[c] = "rewind" => cursor = Len(source.rows)
    /\ pc[c] = "check" /\ again[c] => cross = {}

\* A caller that has rewound the file starts the pass.
Restart(c, p) == pc[c] \in {"check", "read", "lookup", "cached", "joined"} /\ again[c] => p = 0

InOrder(c) ==
    /\ Control(c)
    /\ \E p \in 0..Len(Pass) : Place(c, p) /\ InPass(p) /\ Restart(c, p)

OrderOK == \A c \in Callers : One(c) => InOrder(c)

-----------------------------------------------------------------------------
(* The pass of one caller                                                  *)

\* The pass is that of the source.
LEMMA SameSource ==
    ASSUME source' = source
    PROVE  /\ Rows' = Rows /\ Pass' = Pass /\ (Items)' = Items
           /\ \A r : Fits(r)' <=> Fits(r)
           /\ \A r : combinations(r)' = combinations(r)
           /\ \A r, n : Combination(r, n)' = Combination(r, n)
<1>1. \A r : Fits(r)' <=> Fits(r)
  BY DEF Fits, Looked
<1>2. \A r : combinations(r)' = combinations(r)
  BY DEF combinations, counts, width
<1>3. \A r, n : Combination(r, n)' = Combination(r, n)
  BY DEF Combination, rests, width
<1>4. Rows' = Rows
  BY DEF Rows, Item, Fits, Looked, Combination, rests, width, combinations, counts
<1>5. Pass' = Pass
  BY <1>4 DEF Pass
<1> QED
  BY <1>1, <1>2, <1>3, <1>4, <1>5 DEF Items, Empty

\* The items of whole passes leave no remainder.
LEMMA Remainder ==
    ASSUME NEW k \in Nat, NEW L \in Nat, NEW p \in Nat, p < L
    PROVE  (k * L + p) % L = p
OBVIOUS

LEMMA DealsOne ==
    ASSUME source \in Cases, source' = source, NEW p \in 0..Len(Pass), InPass(p),
           NEW x, dealt' = Append(dealt, x),
           IF Pass = <<>> THEN x = Empty ELSE p < Len(Pass) /\ x = Pass[p + 1]
    PROVE  IF Pass = <<>> THEN InPass(p)' ELSE InPass(p + 1)'
<1> DEFINE L == Len(Pass)
<1>1. L \in Nat /\ Pass \in Seq(Each) /\ p \in Nat /\ (Pass # <<>> => L # 0)
  <2>1. Pass \in Seq(Each) /\ L \in Nat
    BY RowsType
  <2>2. Pass # <<>> => L # 0
    BY <2>1, EmptySeq
  <2> QED
    BY <2>1, <2>2
<1>2. x \in Items
  <2>1. Pass # <<>> => p + 1 \in 1..L
    BY <1>1
  <2> QED
    BY <2>1 DEF Items
<1>3. /\ dealt' \in Seq(Items) /\ Len(dealt) \in Nat /\ DOMAIN dealt = 1..Len(dealt)
      /\ DOMAIN dealt' = 1..(Len(dealt) + 1) /\ Len(dealt') = Len(dealt) + 1
      /\ dealt'[Len(dealt) + 1] = x
      /\ \A i \in 1..Len(dealt) : dealt'[i] = dealt[i]
  BY <1>2, AppendProperties, LenProperties DEF InPass
<1>4. Pass' = Pass /\ Items' = Items
  BY SameSource
<1>5. CASE Pass = <<>>
  <2>1. \A i \in DOMAIN dealt' : dealt'[i] = Empty
    <3> TAKE i \in DOMAIN dealt'
    <3>1. CASE i = Len(dealt) + 1
      BY <1>3, <1>5, <3>1
    <3>2. CASE i \in DOMAIN dealt
      BY <1>3, <1>5, <3>2 DEF InPass
    <3> QED
      BY <1>3, <3>1, <3>2
  <2> QED
    BY <1>3, <1>4, <1>5, <2>1 DEF InPass
<1>6. CASE Pass # <<>>
  <2>1. PICK k \in Nat : Len(dealt) = k * L + p
    BY <1>6 DEF InPass
  <2>2. k * L \in Nat
    BY <1>1
  <2>3. Len(dealt') = k * L + (p + 1) /\ p + 1 \in Nat
    BY <1>1, <1>3, <2>1, <2>2
  <2>4. (k * L + p) % L = p
    BY <1>1, <1>6, Remainder
  <2>5. \A i \in DOMAIN dealt' : dealt'[i] = Pass[((i - 1) % L) + 1]
    <3> TAKE i \in DOMAIN dealt'
    <3>1. CASE i = Len(dealt) + 1
      <4>1. i - 1 = k * L + p
        BY <2>1, <2>2, <1>1, <3>1
      <4> HIDE DEF L
      <4> QED
        BY <1>3, <1>6, <2>4, <3>1, <4>1
    <3>2. CASE i \in DOMAIN dealt
      BY <1>3, <1>6, <3>2 DEF InPass
    <3> QED
      BY <1>3, <3>1, <3>2
  <2> QED
    BY <1>3, <1>4, <1>6, <2>3, <2>5 DEF InPass
<1> QED
  BY <1>5, <1>6

\* At the end of a pass the next one starts.
LEMMA Wraps ==
    ASSUME source \in Cases, UNCHANGED <<source, dealt>>, InPass(Len(Pass))
    PROVE  InPass(0)'
<1> DEFINE L == Len(Pass)
<1>1. L \in Nat
  BY RowsType
<1>2. Pass' = Pass /\ Items' = Items
  BY SameSource
<1>3. ASSUME Pass # <<>> PROVE \E k \in Nat : Len(dealt) = k * L + 0
  <2>1. PICK k \in Nat : Len(dealt) = k * L + L
    BY <1>3 DEF InPass
  <2>2. k + 1 \in Nat /\ (k + 1) * L + 0 = k * L + L
    BY <1>1
  <2> QED
    BY <2>1, <2>2
<1> QED
  BY <1>2, <1>3 DEF InPass

\* A step that deals nothing.
LEMMA StaysInPass ==
    ASSUME UNCHANGED <<source, dealt>>, NEW p, InPass(p)
    PROVE  InPass(p)'
BY SameSource DEF InPass

LEMMA PlaceStays ==
    ASSUME UNCHANGED <<source, cursor, cross>>, NEW c, cross # {} \/ (Pending(c)' <=> Pending(c)),
           NEW p, Place(c, p)
    PROVE  Place(c, p)'
<1>1. Behind(c)' = Behind(c)
  BY SameSource DEF Behind
<1>2. ASSUME NEW n \in Nat, Under(n) PROVE Under(n)'
  <2>1. Fits(cursor)' /\ combinations(cursor)' = combinations(cursor)
        /\ Combination(cursor, n)' = Combination(cursor, n)
    BY <1>2, SameSource DEF Under
  <2> QED
    BY <1>2, <2>1 DEF Under
<1> QED
  BY <1>1, <1>2 DEF Place

\* A caller that moves on with the rows as they are.
LEMMA StaysInOrder ==
    ASSUME UNCHANGED <<source, cursor, cross, dealt>>, NEW c \in Callers, InOrder(c), Control(c)',
           cross # {} \/ (Pending(c)' <=> Pending(c)),
           \A p \in 0..Len(Pass) : Restart(c, p) => Restart(c, p)'
    PROVE  InOrder(c)'
<1>1. PICK p \in 0..Len(Pass) : Place(c, p) /\ InPass(p) /\ Restart(c, p)
  BY DEF InOrder
<1>2. Place(c, p)'
  BY <1>1, PlaceStays
<1>3. InPass(p)'
  BY <1>1, StaysInPass
<1>4. Len(Pass)' = Len(Pass)
  BY SameSource
<1> QED
  BY <1>1, <1>2, <1>3, <1>4 DEF InOrder

\* The other callers stay where they are.
LEMMA Alone ==
    ASSUME SourceInv, NEW c \in Callers, One(c), Control(c), NEW d \in Callers \ {c}, Step(d)
    PROVE  FALSE
<1>1. pc[d] = "idle" /\ source.asks[d] = 0 /\ calls[d] \in Nat
  BY DEF Control, One, SourceInv, CallersOK
<1> QED
  BY <1>1 DEF Step, Call, Check, Read, Rewind, Lookup, Cached, Joined, Combine

LEMMA GoesTo ==
    ASSUME SourceInv, NEW c \in Callers, Control(c), NEW place, Goto(c, place)
    PROVE  pc'[c] = place /\ \A d \in Callers \ {c} : pc'[d] = "idle"
BY DEF SourceInv, CallersOK, Control, Goto

LEMMA OrderCall ==
    ASSUME SourceInv, NEW c \in Callers, InOrder(c), Call(c) PROVE InOrder(c)'
<1>1. /\ pc[c] = "idle" /\ pc'[c] = "check" /\ again'[c] = FALSE
      /\ UNCHANGED <<source, cursor, cross, poisoned, row, dealt>>
  BY GoesTo DEF Call, InOrder, SourceInv, CallersOK
<1>2. \A d \in Callers \ {c} : pc'[d] = "idle"
  BY GoesTo DEF Call, InOrder
<1>3. Control(c)'
  BY <1>1, <1>2 DEF InOrder, Control, Pending
<1>4. (Pending(c)' <=> Pending(c)) /\ \A p \in 0..Len(Pass) : Restart(c, p)'
  BY <1>1 DEF Pending, Restart
<1> QED
  BY <1>1, <1>3, <1>4, StaysInOrder

LEMMA OrderCheck ==
    ASSUME SourceInv, NEW c \in Callers, InOrder(c), Check(c) PROVE InOrder(c)'
<1>1. /\ pc[c] = "check" /\ UNCHANGED <<source, cursor, cross, poisoned, row, again, dealt>>
      /\ (cross # {} /\ Goto(c, "combine")) \/ (cross = {} /\ Goto(c, "read"))
  BY DEF Check, InOrder, Control
<1>2. /\ (cross # {} /\ pc'[c] = "combine") \/ (cross = {} /\ pc'[c] = "read")
      /\ \A d \in Callers \ {c} : pc'[d] = "idle"
  BY <1>1, GoesTo DEF InOrder
<1>3. Control(c)'
  BY <1>1, <1>2 DEF InOrder, Control, Pending
<1>4. (Pending(c)' <=> Pending(c)) /\ \A p \in 0..Len(Pass) : Restart(c, p) => Restart(c, p)'
  BY <1>1, <1>2 DEF Pending, Restart
<1> QED
  BY <1>1, <1>3, <1>4, StaysInOrder

LEMMA OrderLookup ==
    ASSUME SourceInv, NEW c \in Callers, InOrder(c), Lookup(c) \/ Cached(c) PROVE InOrder(c)'
<1>1. /\ pc[c] \in {"lookup", "cached"} /\ UNCHANGED <<source, cursor, cross, poisoned, row, again, dealt>>
      /\ Goto(c, "cached") \/ Goto(c, "joined")
  BY DEF Lookup, Cached
<1>2. pc'[c] \in {"cached", "joined"} /\ \A d \in Callers \ {c} : pc'[d] = "idle"
  BY <1>1, GoesTo DEF InOrder
<1>3. Control(c)'
  BY <1>1, <1>2 DEF InOrder, Control, Pending
<1>4. (Pending(c)' <=> Pending(c)) /\ \A p \in 0..Len(Pass) : Restart(c, p) => Restart(c, p)'
  BY <1>1, <1>2 DEF Pending, Restart
<1> QED
  BY <1>1, <1>3, <1>4, StaysInOrder

\* Where a caller is that no CROSS join keeps.
LEMMA Here ==
    ASSUME NEW c \in Callers, InOrder(c), cross = {}
    PROVE  \E p \in 0..Len(Pass) : p = Behind(c) /\ InPass(p) /\ Restart(c, p)
BY DEF InOrder, Place, Under

LEMMA OrderRead ==
    ASSUME SourceInv, NEW c \in Callers, InOrder(c), Read(c) PROVE InOrder(c)'
<1> DEFINE N == Len(source.rows)
<1>1. /\ pc[c] = "read" /\ cross = {} /\ ~poisoned
      /\ UNCHANGED <<source, cross, poisoned, again>>
  BY DEF Read, InOrder, Control
<1>2. source \in Cases /\ N \in Nat /\ DOMAIN source.rows = 1..N /\ cursor \in 0..N /\ cursor \in Nat
      /\ \A r \in 1..N : source.rows[r].kept \in BOOLEAN
  BY SourceFacts DEF SourceInv
<1>3. PICK p \in 0..Len(Pass) : p = Len(Rows[cursor]) /\ InPass(p) /\ (again[c] => p = 0)
  BY <1>1, Here DEF Behind, Pending, Restart
<1>4. Rows' = Rows /\ Pass' = Pass
  BY <1>1, SameSource
<1>5. Len(Pass) \in Nat /\ Pass \in Seq(Each) /\ Pass = Rows[N]
  BY <1>2, RowsType
<1>6. ASSUME NEW r \in upcoming, \A i \in upcoming : r <= i, cursor' = r,
             row' = [row EXCEPT ![c] = r], NEW place \in {"joined", "lookup"}, Goto(c, place), UNCHANGED dealt
      PROVE  InOrder(c)'
  <2>1. pc'[c] = place /\ (\A d \in Callers \ {c} : pc'[d] = "idle") /\ row'[c] = r
    BY <1>6, GoesTo DEF InOrder, SourceInv, CallersOK
  <2>2. r \in 1..N /\ cursor < r /\ r - 1 \in cursor..N
    BY <1>2 DEF upcoming
  <2>3. ASSUME NEW i \in (cursor + 1)..(r - 1) PROVE ~Fits(i)
    <3>1. i \in 1..N /\ i > cursor /\ ~(r <= i)
      BY <1>2, <2>2
    <3> QED
      BY <1>2, <1>6, <3>1 DEF Fits, upcoming
  <2>4. Len(Rows[r - 1]) = p
    BY <1>2, <1>3, <2>2, <2>3, Skipped
  <2>5. Control(c)'
    BY <1>1, <1>6, <2>1 DEF Control, Pending
  <2>6. Place(c, p)'
    <3>1. Pending(c)'
      BY <2>1 DEF Pending
    <3> QED
      BY <1>1, <1>4, <1>6, <2>4, <3>1 DEF Place, Behind
  <2>7. InPass(p)'
    BY <1>1, <1>3, <1>6, StaysInPass
  <2>8. Restart(c, p)'
    BY <1>1, <1>3 DEF Restart
  <2> QED
    BY <1>4, <2>5, <2>6, <2>7, <2>8 DEF InOrder
<1>7. ASSUME upcoming = {}, cursor' = N, UNCHANGED row,
             IF again[c] THEN Deal(c, 0, NoValue, <<>>) ELSE Goto(c, "rewind") /\ UNCHANGED dealt
      PROVE  InOrder(c)'
  <2>1. ASSUME NEW i \in (cursor + 1)..N PROVE ~Fits(i)
    <3>1. i \in 1..N /\ i > cursor
      BY <1>2
    <3> QED
      BY <1>2, <1>7, <3>1 DEF Fits, upcoming
  <2>2. p = Len(Pass)
    <3>1. N \in cursor..N
      BY <1>2
    <3>2. Len(Rows[N]) = Len(Rows[cursor])
      BY <1>2, <2>1, <3>1, Skipped
    <3> QED
      BY <1>3, <1>5, <3>2
  <2>3. pc'[c] \in {"idle", "rewind"} /\ \A d \in Callers \ {c} : pc'[d] = "idle"
    <3>1. Goto(c, "idle") \/ Goto(c, "rewind")
      BY <1>7 DEF Deal
    <3> QED
      BY <3>1, GoesTo DEF InOrder
  <2>4. Control(c)'
    BY <1>1, <1>7, <2>3 DEF Control, Pending
  <2>5. Place(c, p)'
    <3>1. ~Pending(c)'
      BY <2>3 DEF Pending
    <3> QED
      BY <1>1, <1>4, <1>5, <1>7, <2>2, <3>1 DEF Place, Behind
  <2>6. InPass(p)'
    <3>1. CASE again[c]
      <4>1. Pass = <<>>
        BY <1>3, <1>5, <2>2, <3>1, EmptySeq
      <4>2. dealt' = Append(dealt, Empty)
        BY <1>7, <3>1 DEF Deal, Empty
      <4> QED
        BY <1>1, <1>2, <1>3, <4>1, <4>2, DealsOne
    <3>2. CASE ~again[c]
      BY <1>1, <1>3, <1>7, <3>2, StaysInPass
    <3> QED
      BY <3>1, <3>2
  <2>7. Restart(c, p)'
    BY <2>3 DEF Restart
  <2> QED
    BY <1>4, <2>4, <2>5, <2>6, <2>7 DEF InOrder
<1>8. (\E r \in upcoming :
          /\ \A i \in upcoming : r <= i
          /\ cursor' = r /\ row' = [row EXCEPT ![c] = r] /\ UNCHANGED dealt
          /\ \E place \in {"joined", "lookup"} : Goto(c, place))
      \/ (/\ upcoming = {} /\ cursor' = N /\ UNCHANGED row
          /\ IF again[c] THEN Deal(c, 0, NoValue, <<>>) ELSE Goto(c, "rewind") /\ UNCHANGED dealt)
  BY DEF Read
<1> QED
  BY <1>6, <1>7, <1>8

LEMMA OrderRewind ==
    ASSUME SourceInv, NEW c \in Callers, InOrder(c), Rewind(c) PROVE InOrder(c)'
<1>1. /\ pc[c] = "rewind" /\ cross = {} /\ ~poisoned /\ cursor = Len(source.rows)
      /\ UNCHANGED <<source, cross, poisoned, dealt>> /\ cursor' = 0 /\ Goto(c, "check")
  BY DEF Rewind, InOrder, Control
<1>2. pc'[c] = "check" /\ \A d \in Callers \ {c} : pc'[d] = "idle"
  BY <1>1, GoesTo DEF InOrder
<1>3. source \in Cases
  BY DEF SourceInv
<1>4. Rows' = Rows /\ Pass' = Pass
  BY <1>1, SameSource
<1>5. Len(Pass) \in Nat /\ Rows[0] = <<>> /\ Pass = Rows[Len(source.rows)]
  BY <1>3, RowsType, RowsStep
<1>6. InPass(Len(Pass))
  BY <1>1, <1>5, Here DEF Behind, Pending
<1>7. InPass(0)'
  BY <1>1, <1>3, <1>6, Wraps
<1>8. Control(c)'
  BY <1>1, <1>2 DEF Control, Pending
<1>9. Place(c, 0)'
  BY <1>1, <1>2, <1>4, <1>5 DEF Place, Behind, Pending
<1> QED
  BY <1>4, <1>5, <1>7, <1>8, <1>9 DEF InOrder, Restart

\* A source without CROSS joins has one combination of a row, and it is empty.
LEMMA NoCombination ==
    ASSUME source \in Cases, NEW r \in DOMAIN source.rows, source.crosses = 0
    PROVE  combinations(r) = 1 /\ Combination(r, 0) = <<>>
<1>1. combinations(r) = 1
  BY CountsStep DEF combinations
<1>2. Combination(r, 0) = [j \in 1..0 |-> 1]
  BY FirstCombination
<1> QED
  BY <1>1, <1>2

LEMMA OrderJoined ==
    ASSUME SourceInv, FoundOK, NEW c \in Callers, InOrder(c), Joined(c) PROVE InOrder(c)'
<1> DEFINE r == cursor
<1>1. /\ pc[c] = "joined" /\ cross = {} /\ ~poisoned /\ row[c] = r
      /\ UNCHANGED <<source, cursor, poisoned, row, again>>
  BY DEF Joined, InOrder, Control, Pending
<1>2. source \in Cases /\ r \in DOMAIN source.rows /\ source.crosses \in Nat
      /\ source.rows[r].kept /\ (source.join # "none" => found[c] = Looked(r))
  BY <1>1, SourceFacts DEF SourceInv, LockOK, Pending, FoundOK
<1>3. PICK p \in 0..Len(Pass) : p = Len(Rows[r - 1]) /\ InPass(p) /\ (again[c] => p = 0)
  BY <1>1, Here DEF Behind, Pending, Restart
<1>4. /\ Rows' = Rows /\ Pass' = Pass /\ Fits(r)' = Fits(r) /\ combinations(r)' = combinations(r)
      /\ Combination(r, 0)' = Combination(r, 0)
  BY <1>1, SameSource DEF Fits
<1>5. /\ Len(Pass) \in Nat /\ Len(Rows[r - 1]) \in Nat /\ combinations(r) \in Nat \ {0}
      /\ Len(Rows[r]) <= Len(Pass) /\ (~Fits(r) => Len(Rows[r]) = p)
  BY <1>2, <1>3, PlaceOf, RowsType, FirstCombination
<1>6. CASE /\ source.join = "inner" /\ found[c] = NoValue
           /\ Goto(c, "read") /\ UNCHANGED <<dealt, cross>>
  <2>1. pc'[c] = "read" /\ \A d \in Callers \ {c} : pc'[d] = "idle"
    BY <1>6, GoesTo DEF InOrder
  <2>2. ~Fits(r)
    BY <1>2, <1>6 DEF Fits
  <2>3. Control(c)'
    BY <1>1, <1>6, <2>1 DEF Control, Pending
  <2>4. Place(c, p)'
    BY <1>1, <1>4, <1>5, <1>6, <2>1, <2>2 DEF Place, Behind, Pending
  <2>5. InPass(p)'
    BY <1>1, <1>3, <1>6, StaysInPass
  <2>6. Restart(c, p)'
    BY <1>1, <1>3 DEF Restart
  <2> QED
    BY <1>4, <2>3, <2>4, <2>5, <2>6 DEF InOrder
<1>7. CASE /\ source.join = "inner" => found[c] # NoValue
           /\ source.crosses = 0
           /\ Deal(c, row[c], IF source.join = "left" THEN found[c] ELSE NoValue, <<>>)
           /\ UNCHANGED cross
  <2>1. pc'[c] = "idle" /\ \A d \in Callers \ {c} : pc'[d] = "idle"
    BY <1>7, GoesTo DEF InOrder, Deal
  <2>2. Fits(r) /\ combinations(r) = 1 /\ Combination(r, 0) = <<>>
    BY <1>2, <1>7, NoCombination DEF Fits
  <2>3. Len(Rows[r]) = p + 1 /\ Pass[p + 1] = Item(r, 0) /\ p + 1 \in 0..Len(Pass) /\ p < Len(Pass)
    BY <1>2, <1>3, <1>5, <2>2, PlaceOf
  <2>4. Pass # <<>>
    BY <1>5, <2>3
  <2>5. dealt' = Append(dealt, Item(r, 0))
    BY <1>1, <1>2, <1>7, <2>2 DEF Deal, Item
  <2>6. InPass(p + 1)'
    BY <1>1, <1>2, <1>3, <2>3, <2>4, <2>5, DealsOne
  <2>7. Control(c)'
    BY <1>1, <1>7, <2>1 DEF Control, Pending
  <2>8. Place(c, p + 1)'
    BY <1>1, <1>4, <1>7, <2>1, <2>3 DEF Place, Behind, Pending
  <2>9. Restart(c, p + 1)'
    BY <2>1 DEF Restart
  <2> QED
    BY <1>4, <2>3, <2>6, <2>7, <2>8, <2>9 DEF InOrder
<1>8. CASE /\ source.join = "inner" => found[c] # NoValue
           /\ source.crosses > 0 /\ ~poisoned
           /\ cross' = {[row |-> row[c], indices |-> [j \in 1..source.crosses |-> 1]]}
           /\ Goto(c, "combine") /\ UNCHANGED dealt
  <2>1. pc'[c] = "combine" /\ \A d \in Callers \ {c} : pc'[d] = "idle"
    BY <1>8, GoesTo DEF InOrder
  <2>2. Fits(r)
    BY <1>2, <1>8 DEF Fits
  <2>3. cross' = {[row |-> r, indices |-> Combination(r, 0)]}
    BY <1>1, <1>2, <1>8, FirstCombination
  <2>4. Under(0)'
    <3>1. 0 \in 0..(combinations(r) - 1)
      BY <1>5
    <3> QED
      BY <1>1, <1>2, <1>4, <2>2, <2>3, <3>1 DEF Under
  <2>5. Control(c)'
    BY <1>1, <2>1, <2>3 DEF Control, Pending
  <2>6. Place(c, p)'
    <3>1. Behind(c)' = p
      BY <1>1, <1>3, <1>4, <2>3 DEF Behind
    <3>2. p = Behind(c)' + 0 /\ 0 \in Nat
      BY <1>3, <3>1
    <3> QED
      BY <2>4, <3>2 DEF Place
  <2>7. InPass(p)'
    BY <1>1, <1>3, <1>8, StaysInPass
  <2>8. Restart(c, p)'
    BY <2>1 DEF Restart
  <2> QED
    BY <1>4, <2>5, <2>6, <2>7, <2>8 DEF InOrder
<1> QED
  BY <1>1, <1>6, <1>7, <1>8 DEF Joined

LEMMA OrderCombine ==
    ASSUME SourceInv, DealtOK, NEW c \in Callers, InOrder(c), Combine(c) PROVE InOrder(c)'
<1> DEFINE r == cursor
<1>1. /\ pc[c] = "combine" /\ cross # {} /\ ~poisoned
      /\ UNCHANGED <<source, cursor, poisoned, row, again>>
      /\ \E s \in cross :
            /\ Deal(c, s.row, NoValue, s.indices)
            /\ cross' = {[s EXCEPT !.indices = i] :
                           i \in advanced(s.indices, source.rows[s.row].matches)}
  BY DEF Combine, InOrder, Control
<1>2. PICK p \in 0..Len(Pass) : Place(c, p) /\ InPass(p)
  BY DEF InOrder
<1>3. PICK n \in Nat : Under(n) /\ p = Behind(c) + n
  BY <1>1, <1>2 DEF Place
<1>4. /\ r \in DOMAIN source.rows /\ Fits(r) /\ n \in 0..(combinations(r) - 1)
      /\ cross = {[row |-> r, indices |-> Combination(r, n)]} /\ p = Len(Rows[r - 1]) + n
  BY <1>1, <1>3 DEF Under, Behind
<1>5. source \in Cases /\ combinations(r) \in Nat /\ source.crosses # 0
  BY <1>1, <1>4, FirstCombination DEF SourceInv, DealtOK
<1>6. Rows' = Rows /\ Pass' = Pass /\ Fits(r)' = Fits(r) /\ combinations(r)' = combinations(r)
      /\ Combination(r, n + 1)' = Combination(r, n + 1)
  BY <1>1, SameSource DEF Fits
<1>7. /\ Len(Pass) \in Nat /\ Len(Rows[r - 1]) \in Nat /\ Len(Rows[r]) <= Len(Pass)
      /\ Len(Rows[r]) = Len(Rows[r - 1]) + combinations(r) /\ Pass[p + 1] = Item(r, n)
  BY <1>4, <1>5, PlaceOf, RowsType
<1>8. p + 1 \in 0..Len(Pass) /\ p < Len(Pass) /\ p + 1 = Len(Rows[r - 1]) + (n + 1)
      /\ p \in Nat /\ n + 1 \in Nat
  <2> DEFINE T == combinations(r)
             a == Len(Rows[r - 1])
             b == Len(Rows[r])
             L == Len(Pass)
  <2>1. n \in 0..(T - 1) /\ p = a + n /\ T \in Nat /\ L \in Nat /\ a \in Nat /\ b <= L /\ b = a + T
    BY <1>4, <1>5, <1>7
  <2> HIDE DEF T, a, b, L
  <2>2. p + 1 \in 0..L /\ p < L /\ p + 1 = a + (n + 1) /\ p \in Nat /\ n + 1 \in Nat
    BY <2>1
  <2> QED
    BY <2>2 DEF a, L
<1>9. /\ Deal(c, r, NoValue, Combination(r, n))
      /\ cross' = {[row |-> r, indices |-> i] : i \in advanced(Combination(r, n), source.rows[r].matches)}
  BY <1>1, <1>4
<1>10. pc'[c] = "idle" /\ \A d \in Callers \ {c} : pc'[d] = "idle"
  BY <1>9, GoesTo DEF InOrder, Deal
<1>11. Control(c)'
  BY <1>1, <1>10 DEF Control, Pending
<1>12. InPass(p + 1)'
  <2>1. Pass # <<>>
    BY <1>7, <1>8
  <2>2. dealt' = Append(dealt, Item(r, n))
    BY <1>5, <1>9 DEF Deal, Item
  <2> QED
    BY <1>1, <1>2, <1>5, <1>7, <1>8, <2>1, <2>2, DealsOne
<1>13. Restart(c, p + 1)'
  BY <1>10 DEF Restart
<1>14. Place(c, p + 1)'
  <2> DEFINE next == advanced(Combination(r, n), source.rows[r].matches)
  <2>0. next = IF n + 1 < combinations(r) THEN {Combination(r, n + 1)} ELSE {}
    <3>1. n \in Nat /\ n < combinations(r)
      BY <1>4, <1>5
    <3> QED
      BY <1>4, <1>5, <3>1, Advances
  <2> HIDE DEF next
  <2>X. cross' = {[row |-> r, indices |-> i] : i \in next}
    BY <1>9 DEF next
  <2>1. CASE n + 1 < combinations(r)
    <3>1. cross' = {[row |-> r, indices |-> Combination(r, n + 1)]}
      BY <2>0, <2>X, <2>1
    <3>2. Under(n + 1)'
      <4>1. n + 1 \in 0..(combinations(r) - 1)
        BY <1>4, <1>5, <2>1
      <4> QED
        BY <1>1, <1>4, <1>6, <3>1, <4>1 DEF Under
    <3>3. Behind(c)' = Len(Rows[r - 1])
      BY <1>1, <1>6, <3>1 DEF Behind
    <3> QED
      BY <1>8, <3>2, <3>3 DEF Place
  <2>2. CASE ~(n + 1 < combinations(r))
    <3>1. cross' = {}
      BY <2>0, <2>X, <2>2
    <3>2. n + 1 = combinations(r)
      BY <1>4, <1>5, <2>2
    <3>3. Behind(c)' = Len(Rows[r])
      BY <1>1, <1>6, <1>10, <3>1 DEF Behind, Pending
    <3> QED
      BY <1>7, <1>8, <3>1, <3>2, <3>3 DEF Place
  <2> QED
    BY <2>1, <2>2
<1> QED
  BY <1>6, <1>8, <1>11, <1>12, <1>13, <1>14 DEF InOrder

LEMMA OrderNext == SourceInv /\ FoundOK /\ DealtOK /\ OrderOK /\ [Next]_vars => OrderOK'
<1> SUFFICES ASSUME SourceInv, FoundOK, DealtOK, OrderOK, [Next]_vars, NEW c \in Callers, One(c)'
             PROVE  InOrder(c)'
  BY DEF OrderOK
<1>1. source' = source
  BY DEF Next, Step, Evicts, Done, vars, Call, Check, Read, Rewind, Lookup, Cached, Joined, Combine
<1>2. One(c) /\ InOrder(c) /\ Control(c)
  BY <1>1 DEF OrderOK, One, InOrder
<1>3. ASSUME NEW d \in Callers, Step(d) PROVE InOrder(c)'
  <2>1. d = c
    BY <1>2, <1>3, Alone
  <2>2. CASE Call(c)
    BY <1>2, <2>2, OrderCall
  <2>3. CASE Check(c)
    BY <1>2, <2>3, OrderCheck
  <2>4. CASE Read(c)
    BY <1>2, <2>4, OrderRead
  <2>5. CASE Rewind(c)
    BY <1>2, <2>5, OrderRewind
  <2>6. CASE Lookup(c) \/ Cached(c)
    BY <1>2, <2>6, OrderLookup
  <2>7. CASE Joined(c)
    BY <1>2, <2>7, OrderJoined
  <2>8. CASE Combine(c)
    BY <1>2, <2>8, OrderCombine
  <2> QED
    BY <1>3, <2>1, <2>2, <2>3, <2>4, <2>5, <2>6, <2>7, <2>8 DEF Step
<1>4. ASSUME UNCHANGED <<source, cursor, cross, poisoned, pc, row, again, dealt>> PROVE InOrder(c)'
  <2>1. Control(c)' /\ (Pending(c)' <=> Pending(c)) /\ \A p \in 0..Len(Pass) : Restart(c, p) => Restart(c, p)'
    BY <1>2, <1>4 DEF Control, Pending, Restart
  <2> QED
    BY <1>2, <1>4, <2>1, StaysInOrder
<1>5. Evicts \/ UNCHANGED vars => UNCHANGED <<source, cursor, cross, poisoned, pc, row, again, dealt>>
  BY DEF Evicts, vars, callerVars
<1> QED
  BY <1>3, <1>4, <1>5 DEF Next, Done

LEMMA OrderInit == Init => OrderOK
<1> SUFFICES ASSUME Init, NEW c \in Callers PROVE InOrder(c)
  BY DEF OrderOK
<1>1. /\ source \in Cases /\ cursor = 0 /\ cross = {} /\ poisoned = FALSE /\ dealt = <<>>
      /\ \A d \in Callers : pc[d] = "idle"
  BY DEF Init
<1>2. Len(Pass) \in Nat /\ Rows[0] = <<>>
  BY <1>1, RowsType, RowsStep
<1>3. Control(c) /\ Restart(c, 0)
  BY <1>1 DEF Control, Pending, Restart
<1>4. Place(c, 0)
  BY <1>1, <1>2 DEF Place, Behind, Pending
<1>5. InPass(0)
  <2>1. dealt \in Seq(Items) /\ DOMAIN dealt = {} /\ Len(dealt) = 0
    BY <1>1
  <2>2. Len(dealt) = 0 * Len(Pass) + 0 /\ 0 \in Nat
    BY <1>2, <2>1
  <2> QED
    BY <2>1, <2>2 DEF InPass
<1> QED
  BY <1>2, <1>3, <1>4, <1>5 DEF InOrder

LEMMA InOrderDealt == SourceInv /\ OrderOK => DealtInOrder
<1> SUFFICES ASSUME SourceInv, OrderOK, Cardinality({c \in Callers : source.asks[c] > 0}) = 1
             PROVE  \A i \in DOMAIN dealt :
                        dealt[i] = IF Pass = <<>> THEN Empty ELSE Pass[((i - 1) % Len(Pass)) + 1]
  BY DEF DealtInOrder
<1> DEFINE S == {c \in Callers : source.asks[c] > 0}
<1>1. \E c \in Callers : S = {c}
  <2>1. IsFiniteSet(S)
    BY RowAssumption, FS_Subset
  <2>2. \E c : S = {c}
    BY <2>1, FS_Singleton
  <2> QED
    BY <2>2
<1>2. PICK c \in Callers : S = {c}
  BY <1>1
<1>3. One(c)
  <2>1. \A d \in Callers : source.asks[d] \in Nat
    BY SourceFacts DEF SourceInv
  <2> QED
    BY <1>2, <2>1 DEF One
<1>4. InOrder(c)
  BY <1>3 DEF OrderOK
<1> QED
  BY <1>4 DEF InOrder, InPass

LEMMA Inductive == Spec => [](SourceInv /\ Coherent /\ FoundOK /\ DealtOK /\ OrderOK)
<1>1. Init => SourceInv /\ Coherent /\ FoundOK /\ DealtOK /\ OrderOK
  BY SourceInit, DealtInit, OrderInit
<1>2. SourceInv /\ Coherent /\ FoundOK /\ DealtOK /\ OrderOK /\ [Next]_vars
      => (SourceInv /\ Coherent /\ FoundOK /\ DealtOK /\ OrderOK)'
  BY SourceNext, CoherentNext, FoundNext, DealtNext, OrderNext
<1> QED
  BY <1>1, <1>2, PTL DEF Spec

-----------------------------------------------------------------------------
(* Theorems                                                                *)

\* The cache is sound under the callers of a source too: they hold its mutex one at a
\* time, and an eviction never takes the key a lookup is about.
THEOREM RowCacheSound == Spec => []CacheSound
<1>1. SourceInv => CacheSound
  BY SoundCache DEF SourceInv
<1> QED
  BY <1>1, Inductive, PTL

\* The types of a source and its callers, for every source, number of callers and size
\* of the cache: a CROSS join never runs past the rows that match, and the cache is busy
\* only for a caller that holds its mutex.
THEOREM RowTypeOK == Spec => []TypeOK
<1>1. SourceInv => TypeOK
  <2> SUFFICES ASSUME SourceInv PROVE TypeOK
    OBVIOUS
  <2>1. cross = {} \/ \E s \in cross :
                         /\ cross = {s} /\ s.row \in DOMAIN source.rows
                         /\ \A j \in 1..source.crosses : s.indices[j] \in 1..width(s.row, j)
    BY DEF SourceInv, CrossOK
  <2>2. \A c \in Callers : calls[c] \in 0..source.asks[c]
    BY SourceFacts DEF SourceInv, CallersOK
  <2> QED
    BY <2>1, <2>2 DEF SourceInv, CallersOK, LockOK, TypeOK
<1> QED
  BY <1>1, Inductive, PTL

\* The rows of a source, for every source and any number of workers.  One worker is dealt
\* the join in the order of the file, each combination once, pass after pass, whatever the
\* cache evicts.  Workers that share it are dealt rows of the join with the values joined
\* to them, whatever the steps of the others between theirs, and no row goes to two of
\* them before the file is rewound.
THEOREM RowsDealtCorrect == Spec => []RowsDealt
<1>1. DealtOK => DealtOnce
  <2> SUFFICES ASSUME DealtOK, source.crosses = 0
               PROVE  /\ \A i \in DOMAIN dealt : dealt[i] = Empty \/ \E r \in DOMAIN source.rows : Fits(r) /\ dealt[i] = Joint(r)
                      /\ rewinds = 0 => \A i, j \in DOMAIN dealt : dealt[i] = dealt[j] => i = j
    BY DEF DealtOnce
  <2>1. \A i \in DOMAIN dealt : dealt[i] \in Returned
    BY ElementOfSeq, LenProperties DEF DealtOK
  <2>2. rewinds = 0 => \A i, j \in DOMAIN dealt : dealt[i] = dealt[j] => i = j
    BY DEF DealtOK, Onwards
  <2> QED
    BY <2>1, <2>2 DEF Returned
<1>2. SourceInv /\ DealtOK /\ OrderOK => RowsDealt
  BY <1>1, InOrderDealt DEF RowsDealt
<1> QED
  BY <1>2, Inductive, PTL

===========================================================================
