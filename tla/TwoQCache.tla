----------------------------- MODULE TwoQCache -----------------------------
(***************************************************************************)
(* TwoQCache: a hot and a cold map, each with a queue of its keys from the *)
(* least to the most recently used.                                        *)
(*                                                                         *)
(* A new key goes to the cold map; a key found there moves to the hot one. *)
(* Whatever a map holds over its limit is evicted by a loop that pops its  *)
(* queue: hot keys fall back to the cold map, cold keys are gone.  One     *)
(* iteration of a loop is one step here, taken while the cache is busy     *)
(* with an operation.                                                      *)
(***************************************************************************)
EXTENDS Naturals, Sequences, FiniteSets, Functions

CONSTANTS
    Keys, Values,
    NoValue,                \* None
    HotLimit, ColdLimit

ASSUME CacheAssumption ==
    /\ IsFiniteSet(Keys) /\ NoValue \notin Values
    /\ HotLimit \in Nat \ {0} /\ ColdLimit \in Nat \ {0}

VARIABLES
    hot, cold,              \* partial maps from keys to values
    hot_order, cold_order,  \* their queues
    busy,                   \* an operation is under way
    wanted                  \* {} or the key whose value the operation returns

cacheVars == <<hot, cold, hot_order, cold_order, busy, wanted>>

Maps == UNION {[S -> Values] : S \in SUBSET Keys}

position(order, k) == CHOOSE i \in DOMAIN order : order[i] = k

\* The queue without the entry of a key.
Removed(order, k) ==
    IF k \notin Range(order) THEN order
    ELSE LET p == position(order, k)
         IN  [i \in 1..(Len(order) - 1) |-> IF i < p THEN order[i] ELSE order[i + 1]]

\* Variant: the key leaves its place and takes no new one.
TouchLoses(order, k) == Removed(order, k)

\* The key at the most recently used end.
touch(order, k) == Append(Removed(order, k), k)

Without(map, k) == [x \in DOMAIN map \ {k} |-> map[x]]
With(map, k, v) == [x \in DOMAIN map \cup {k} |-> IF x = k THEN v ELSE map[x]]

CacheInit ==
    /\ hot = <<>> /\ cold = <<>> /\ hot_order = <<>> /\ cold_order = <<>>
    /\ busy = FALSE /\ wanted = {}

contains(k) == k \in DOMAIN hot \cup DOMAIN cold

-----------------------------------------------------------------------------
(* Operations                                                              *)

\* Variant: a key promoted to the hot map stays in the queue of the cold one.
PromoteKeepsOrder(order, k) == order

promoted(order, k) == Removed(order, k)

\* A hot key is touched; a cold key moves to the hot map, which may then be too large.
Get(k) ==
    /\ ~busy /\ contains(k)
    /\ busy' = TRUE /\ wanted' = {k}
    /\ IF k \in DOMAIN hot
       THEN /\ hot_order' = touch(hot_order, k)
            /\ UNCHANGED <<hot, cold, cold_order>>
       ELSE /\ cold' = Without(cold, k) /\ cold_order' = promoted(cold_order, k)
            /\ hot' = With(hot, k, cold[k]) /\ hot_order' = Append(hot_order, k)

Miss(k) == ~busy /\ ~contains(k) /\ UNCHANGED cacheVars

\* A key the cache has keeps its place and is touched; a new one goes to the cold map.
Insert(k, v) ==
    /\ ~busy
    /\ busy' = TRUE /\ wanted' = {}
    /\ IF k \in DOMAIN hot
       THEN /\ hot' = With(hot, k, v) /\ hot_order' = touch(hot_order, k)
            /\ UNCHANGED <<cold, cold_order>>
       ELSE /\ cold' = With(cold, k, v) /\ cold_order' = touch(cold_order, k)
            /\ UNCHANGED <<hot, hot_order>>

RemoveKey(k) ==
    /\ ~busy
    /\ IF k \in DOMAIN hot
       THEN /\ hot' = Without(hot, k) /\ hot_order' = Removed(hot_order, k)
            /\ UNCHANGED <<cold, cold_order>>
       ELSE /\ cold' = Without(cold, k) /\ cold_order' = Removed(cold_order, k)
            /\ UNCHANGED <<hot, hot_order>>
    /\ UNCHANGED <<busy, wanted>>

-----------------------------------------------------------------------------
(* Eviction                                                                *)

cold_full == Cardinality(DOMAIN cold) > ColdLimit
hot_full == Cardinality(DOMAIN hot) > HotLimit

\* One turn of evict_cold.  With nothing to pop the loop turns for ever.
EvictCold ==
    /\ busy /\ cold_full
    /\ IF cold_order = <<>> THEN UNCHANGED <<cold, cold_order>>
       ELSE cold' = Without(cold, Head(cold_order)) /\ cold_order' = Tail(cold_order)
    /\ UNCHANGED <<hot, hot_order, busy, wanted>>

\* One turn of evict_hot, whose evicted key makes evict_cold run before the next.
EvictHot ==
    /\ busy /\ ~cold_full /\ hot_full
    /\ IF hot_order = <<>> THEN UNCHANGED <<hot, hot_order, cold, cold_order>>
       ELSE LET oldest == Head(hot_order) IN
            /\ hot_order' = Tail(hot_order)
            /\ IF oldest \in DOMAIN hot
               THEN /\ hot' = Without(hot, oldest)
                    /\ cold' = With(cold, oldest, hot[oldest])
                    /\ cold_order' = Append(cold_order, oldest)
               ELSE UNCHANGED <<hot, cold, cold_order>>
    /\ UNCHANGED <<busy, wanted>>

\* What a lookup returns, taken from the hot map after the evictions.
returned == {IF k \in DOMAIN hot THEN hot[k] ELSE NoValue : k \in wanted}

Return ==
    /\ busy /\ ~cold_full /\ ~hot_full
    /\ busy' = FALSE /\ wanted' = {}
    /\ UNCHANGED <<hot, cold, hot_order, cold_order>>

Evict == EvictCold \/ EvictHot

CacheNext ==
    \/ Evict \/ Return
    \/ \E k \in Keys : Get(k) \/ RemoveKey(k) \/ \E v \in Values : Insert(k, v)

CacheSpec == CacheInit /\ [][CacheNext]_cacheVars

-----------------------------------------------------------------------------
(* Properties                                                              *)

IsQueueOf(order, map) ==
    /\ order \in Seq(Keys)
    /\ Range(order) = DOMAIN map
    /\ \A i, j \in DOMAIN order : order[i] = order[j] => i = j

\* The queues and the maps agree: each key of a map stands once in its queue, and no
\* key is in both maps.
QueuesAgree ==
    /\ hot \in Maps /\ cold \in Maps /\ busy \in BOOLEAN /\ wanted \subseteq Keys
    /\ IsQueueOf(hot_order, hot) /\ IsQueueOf(cold_order, cold)
    /\ DOMAIN hot \cap DOMAIN cold = {}

\* A loop that has to evict has something to evict, and no loop runs while the cache
\* is at rest.
EvictionProgresses ==
    /\ hot_full => hot_order # <<>> /\ Head(hot_order) \in DOMAIN hot
    /\ cold_full => cold_order # <<>> /\ Head(cold_order) \in DOMAIN cold
    /\ ~busy => ~hot_full /\ ~cold_full

\* A lookup of a key the cache holds returns its value: the key just promoted is the
\* last the evictions would take.
LookupReturns == busy => \A k \in wanted : k \in DOMAIN hot

CacheSound == QueuesAgree /\ EvictionProgresses /\ LookupReturns

=============================================================================
