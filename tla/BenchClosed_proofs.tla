------------------------- MODULE BenchClosed_proofs -------------------------
(***************************************************************************)
(* For every number of workers and documents, every clock and schedule: a  *)
(* worker keeps its pace and sends at most one late request, the run keeps *)
(* its budget, and it is a load run as BenchSpec has it.                   *)
(***************************************************************************)
EXTENDS BenchClosed, FiniteSetTheorems, TLAPS

-----------------------------------------------------------------------------
(* Totals                                                                  *)

\* Two sets that share no element have together as many as both.
LEMMA DisjointUnion ==
    ASSUME NEW S, NEW T, IsFiniteSet(S), IsFiniteSet(T), S \cap T = {}
    PROVE  Cardinality(S \cup T) = Cardinality(S) + Cardinality(T)
<1>1. Cardinality(S \cup T) = Cardinality(S) + Cardinality(T) - Cardinality(S \cap T)
  BY FS_Union
<1>2. Cardinality(S \cap T) = 0
  BY FS_EmptySet
<1>3. Cardinality(S) \in Nat /\ Cardinality(T) \in Nat
  BY FS_CardinalityType
<1> QED  BY <1>1, <1>2, <1>3

\* A unit of f belongs to one element and is numbered within it.
LEMMA UnitsOf ==
    ASSUME NEW S, NEW f \in [S -> Nat]
    PROVE  \A p : p \in Units(f) <=> \E x \in S : \E i \in 1..f[x] : p = <<x, i>>
<1>1. DOMAIN f = S
  OBVIOUS
<1>2. ASSUME NEW p, NEW x PROVE p \in {x} \X (1..f[x]) <=> \E i \in 1..f[x] : p = <<x, i>>
  BY SMT
<1>3. ASSUME NEW p PROVE p \in Units(f) <=> \E x \in S : p \in {x} \X (1..f[x])
  BY <1>1 DEF Units
<1> QED  BY <1>2, <1>3

\* There are n numbers from 1 to n.
LEMMA UnitsInterval ==
    ASSUME NEW n \in Nat
    PROVE  IsFiniteSet(1..n) /\ Cardinality(1..n) = n
<1>1. 1 \in Int /\ n \in Int /\ (IF 1 > n THEN 0 ELSE n - 1 + 1) = n
  OBVIOUS
<1> QED  BY <1>1, FS_Interval

\* The units of one element are as many as f says.
LEMMA UnitsOfOne ==
    ASSUME NEW x, NEW n \in Nat
    PROVE  IsFiniteSet({x} \X (1..n)) /\ Cardinality({x} \X (1..n)) = n
<1>1. IsFiniteSet({x}) /\ Cardinality({x}) = 1
  BY FS_Singleton
<1>2. IsFiniteSet(1..n) /\ Cardinality(1..n) = n
  BY UnitsInterval
<1>3. IsFiniteSet({x} \X (1..n)) /\ Cardinality({x} \X (1..n)) = Cardinality({x}) * Cardinality(1..n)
  BY <1>1, <1>2, FS_Product
<1>4. 1 * n = n
  OBVIOUS
<1> QED  BY <1>1, <1>2, <1>3, <1>4

\* The units of a function on a finite set are finitely many.
LEMMA UnitsFinite ==
    ASSUME NEW S, IsFiniteSet(S), NEW f \in [S -> Nat]
    PROVE  IsFiniteSet(Units(f)) /\ Total(f) \in Nat
<1> DEFINE cell(x) == {x} \X (1..f[x])
           cells == {cell(x) : x \in S}
<1>1. \A x \in S : IsFiniteSet(cell(x))
  BY UnitsOfOne
<1>2. [x \in S |-> cell(x)] \in Surjection(S, cells)
  BY DEF Surjection
<1>3. IsFiniteSet(cells)
  BY <1>2, FS_Surjection
<1>4. \A T \in cells : IsFiniteSet(T)
  BY <1>1
<1>5. IsFiniteSet(UNION cells)
  BY <1>3, <1>4, FS_UNION
<1>6. DOMAIN f = S
  OBVIOUS
<1>7. Units(f) = UNION cells
  BY <1>6 DEF Units
<1> QED  BY <1>5, <1>7, FS_CardinalityType DEF Total

\* The total moves with the one element that changes.
LEMMA TotalStep ==
    ASSUME NEW S, IsFiniteSet(S), NEW f \in [S -> Nat], NEW g \in [S -> Nat], NEW x \in S,
           \A y \in S \ {x} : f[y] = g[y]
    PROVE  Total(g) + f[x] = Total(f) + g[x]
<1> DEFINE cell(h) == {x} \X (1..h[x])
           rest == Units(f) \ cell(f)
<1>1. ASSUME NEW h \in [S -> Nat] PROVE IsFiniteSet(cell(h)) /\ Cardinality(cell(h)) = h[x]
  BY UnitsOfOne
<1>2. ASSUME NEW h \in [S -> Nat]
      PROVE  \A p : p \in cell(h) <=> \E i \in 1..h[x] : p = <<x, i>>
  BY SMT
<1>3. IsFiniteSet(Units(f)) /\ IsFiniteSet(rest)
  BY UnitsFinite, FS_Difference
<1>4. Units(f) = rest \cup cell(f) /\ rest \cap cell(f) = {}
  BY <1>2, UnitsOf
<1>5. Units(g) = rest \cup cell(g) /\ rest \cap cell(g) = {}
  <2>1. ASSUME NEW p PROVE p \in rest <=> \E y \in S \ {x} : \E i \in 1..f[y] : p = <<y, i>>
    BY <1>2, UnitsOf
  <2>2. ASSUME NEW p PROVE p \in rest <=> \E y \in S \ {x} : \E i \in 1..g[y] : p = <<y, i>>
    BY <2>1
  <2>3. ASSUME NEW p PROVE p \in Units(g) <=> p \in rest \/ p \in cell(g)
    BY <1>2, <2>2, UnitsOf
  <2>4. ASSUME NEW p, p \in rest PROVE p \notin cell(g)
    BY <1>2, <2>2, <2>4
  <2> HIDE DEF rest, cell
  <2> QED  BY <2>3, <2>4
<1> HIDE DEF rest, cell
<1>6. Cardinality(Units(f)) = Cardinality(rest) + f[x]
  BY <1>1, <1>3, <1>4, DisjointUnion
<1>7. Cardinality(Units(g)) = Cardinality(rest) + g[x]
  BY <1>1, <1>3, <1>5, DisjointUnion
<1> QED  BY <1>3, <1>6, <1>7, FS_CardinalityType DEF Total

\* What is at most as large everywhere is so in total.
LEMMA TotalMonotonic ==
    ASSUME NEW S, IsFiniteSet(S), NEW f \in [S -> Nat], NEW g \in [S -> Nat],
           \A x \in S : f[x] <= g[x]
    PROVE  Total(f) <= Total(g)
<1>1. Units(f) \subseteq Units(g)
  BY UnitsOf
<1> QED  BY <1>1, UnitsFinite, FS_Subset DEF Total

\* A total is zero when nothing is counted, and no less than any part of it.
LEMMA TotalZero ==
    ASSUME NEW S, IsFiniteSet(S), NEW f \in [S -> Nat]
    PROVE  /\ (\A x \in S : f[x] = 0) => Total(f) = 0
           /\ \A x \in S : f[x] <= Total(f)
<1>1. ASSUME \A x \in S : f[x] = 0 PROVE Total(f) = 0
  <2>1. Units(f) = {}
    BY <1>1, UnitsOf
  <2> QED  BY <2>1, FS_EmptySet DEF Total
<1>2. ASSUME NEW x \in S PROVE f[x] <= Total(f)
  <2> DEFINE g == [f EXCEPT ![x] = 0]
  <2>1. g \in [S -> Nat] /\ g[x] = 0 /\ \A y \in S \ {x} : f[y] = g[y]
    OBVIOUS
  <2> HIDE DEF g
  <2>2. Total(g) + f[x] = Total(f) + g[x]
    BY <2>1, TotalStep
  <2>3. Total(f) \in Nat /\ Total(g) \in Nat /\ f[x] \in Nat
    BY <2>1, UnitsFinite
  <2> QED  BY <2>1, <2>2, <2>3
<1> QED  BY <1>1, <1>2

\* The total of a sum is the sum of the totals.
LEMMA TotalSum ==
    ASSUME NEW S, IsFiniteSet(S), NEW f \in [S -> Nat], NEW g \in [S -> Nat], NEW h \in [S -> Nat],
           \A x \in S : h[x] = f[x] + g[x]
    PROVE  Total(h) = Total(f) + Total(g)
<1> DEFINE more == Units(h) \ Units(f)
           shift == [p \in Units(g) |-> <<p[1], f[p[1]] + p[2]>>]
<1>1. Units(f) \subseteq Units(h)
  BY UnitsOf
<1>2. ASSUME NEW p PROVE p \in more <=> \E x \in S : \E i \in (f[x] + 1)..h[x] : p = <<x, i>>
  BY UnitsOf
<1>3. shift \in Bijection(Units(g), more)
  <2>1. ASSUME NEW p \in Units(g) PROVE shift[p] \in more
    <3>1. PICK x \in S : \E i \in 1..g[x] : p = <<x, i>>
      BY <2>1, UnitsOf
    <3>2. PICK i \in 1..g[x] : p = <<x, i>>
      BY <3>1
    <3>3. shift[p] = <<x, f[x] + i>>
      BY <2>1, <3>2
    <3>4. f[x] + i \in (f[x] + 1)..h[x]
      OBVIOUS
    <3> HIDE DEF shift, more
    <3> QED  BY <1>2, <3>3, <3>4
  <2>2. ASSUME NEW p \in Units(g), NEW q \in Units(g), shift[p] = shift[q] PROVE p = q
    <3>1. PICK x \in S : \E i \in 1..g[x] : p = <<x, i>>
      BY <2>2, UnitsOf
    <3>2. PICK y \in S : \E j \in 1..g[y] : q = <<y, j>>
      BY <2>2, UnitsOf
    <3>5. PICK i \in 1..g[x] : p = <<x, i>>
      BY <3>1
    <3>6. PICK j \in 1..g[y] : q = <<y, j>>
      BY <3>2
    <3>3. shift[p] = <<x, f[x] + i>> /\ shift[q] = <<y, f[y] + j>>
      BY <2>2, <3>5, <3>6
    <3> HIDE DEF shift, more
    <3>8. <<x, f[x] + i>> = <<y, f[y] + j>>
      BY <2>2, <3>3, Zenon
    <3>4. x = y /\ f[x] + i = f[x] + j
      BY <3>8
    <3>7. i = j
      BY <3>4
    <3> QED  BY <3>4, <3>5, <3>6, <3>7
  <2>3. ASSUME NEW q \in more PROVE \E p \in Units(g) : shift[p] = q
    <3>0. PICK x \in S : \E i \in (f[x] + 1)..h[x] : q = <<x, i>>
      BY <1>2, <2>3
    <3>1. PICK i \in (f[x] + 1)..h[x] : q = <<x, i>>
      BY <3>0
    <3>2. i - f[x] \in 1..g[x] /\ f[x] + (i - f[x]) = i
      OBVIOUS
    <3>3. <<x, i - f[x]>> \in Units(g)
      BY <3>2, UnitsOf
    <3>4. \A a, b : <<a, b>> \in Units(g) => shift[<<a, b>>] = <<a, f[a] + b>>
      OBVIOUS
    <3> HIDE DEF shift, more
    <3>5. shift[<<x, i - f[x]>>] = <<x, i>>
      BY <3>2, <3>3, <3>4
    <3> QED  BY <3>1, <3>3, <3>5
  <2>4. shift \in [Units(g) -> more]
    BY <2>1
  <2> HIDE DEF shift, more
  <2>7. \A p, q \in Units(g) : shift[p] = shift[q] => p = q
    BY <2>2
  <2>5. shift \in Injection(Units(g), more)
    BY <2>4, <2>7 DEF Injection, IsInjective
  <2>6. shift \in Surjection(Units(g), more)
    BY <2>3, <2>4, Zenon DEF Surjection
  <2> QED  BY <2>5, <2>6 DEF Bijection
<1> HIDE DEF shift
<1>4. IsFiniteSet(Units(h)) /\ IsFiniteSet(Units(f)) /\ IsFiniteSet(Units(g)) /\ IsFiniteSet(more)
  BY UnitsFinite, FS_Difference
<1>5. Cardinality(more) = Cardinality(Units(g))
  BY <1>3, <1>4, FS_Bijection DEF ExistsBijection
<1>6. Units(h) = Units(f) \cup more /\ Units(f) \cap more = {}
  BY <1>1
<1> HIDE DEF more
<1>7. Cardinality(Units(h)) = Cardinality(Units(f)) + Cardinality(more)
  BY <1>4, <1>6, DisjointUnion
<1> QED  BY <1>4, <1>5, <1>7, FS_CardinalityType DEF Total

-----------------------------------------------------------------------------
(* Types                                                                   *)

\* A configuration's numbers are numbers.
LEMMA ConfigTypes ==
    ASSUME BenchAssumption, config \in Configs
    PROVE  /\ config.concurrency \in Nat \ {0} /\ config.docs \in Nat /\ config.requests \in Nat
           /\ config.duration \subseteq Nat /\ config.max_duration \subseteq Nat
           /\ \A t \in 0..MaxTime : config.gap[t] \in Nat
           /\ MaxTime \in Nat
BY DEF BenchAssumption, Config, Workers, Option

\* A worker's share is a number.
LEMMA ShareType ==
    ASSUME BenchAssumption, config \in Configs, NEW w \in Workers
    PROVE  worker_requests(w) * config.docs \in Nat
<1>1. request_passes \in Nat
  BY ConfigTypes DEF request_passes, LargerOf
<1>2. request_passes \div config.concurrency \in Nat /\ request_passes % config.concurrency \in Nat
  BY <1>1, ConfigTypes
<1>3. worker_requests(w) \in Nat
  BY <1>2 DEF worker_requests, passes_per_worker
<1> QED  BY <1>3, ConfigTypes

\* So is the interval sampled at any moment.
LEMMA IntervalType ==
    ASSUME BenchAssumption, config \in Configs, now \in Nat
    PROVE  worker_interval \in Nat
<1>1. (IF now < MaxTime THEN now ELSE MaxTime) \in 0..MaxTime
  BY ConfigTypes
<1> QED  BY <1>1, ConfigTypes DEF worker_interval, rate_gap

\* In request-count mode a worker that waits for a slot or an answer has a request
\* left in its share.
ShareInv == \A w \in Workers : ~timed /\ pc[w] \in {"slot", "call"} => left[w] > 0

LEMMA InitTypeOK == ASSUME BenchAssumption, Init PROVE TypeOK
<1>1. \A w \in Workers : worker_requests(w) * config.docs \in Nat
  BY ShareType DEF Init
<1> QED  BY <1>1 DEF Init, TypeOK, Option

\* Each step keeps every variable to its type.
LEMMA NextTypeOK ==
    ASSUME BenchAssumption, TypeOK, ShareInv, [Next]_vars
    PROVE  TypeOK'
<1> USE DEF clock, worker, tally, main
<1>1. ASSUME NEW w \in Workers, Spawn(w) PROVE TypeOK'
  BY <1>1, ConfigTypes DEF Spawn, TypeOK, Option
<1>2. ASSUME NEW w \in Workers, Head(w) PROVE TypeOK'
  <2>1. worker_interval \in Nat
    BY IntervalType DEF TypeOK
  <2>2. pc' \in [Workers -> {"spawned", "head", "slot", "call", "done", "panicked"}]
    BY <1>2 DEF Head, TypeOK
  <2>3. interval' \in [Workers -> Nat]
    BY <1>2, <2>1 DEF Head, TypeOK
  <2> QED  BY <1>2, <2>2, <2>3 DEF Head, TypeOK
<1>3. ASSUME NEW w \in Workers, Send(w) PROVE TypeOK'
  <2>1. following_slot(w) \in Nat
    BY DEF TypeOK, following_slot, LargerOf
  <2>2. next_slot' \in [Workers -> Nat]
    BY <1>3, <2>1 DEF Send, TypeOK
  <2>3. begun' \in [Workers -> Nat] /\ late' \in [Workers -> Nat]
    BY <1>3 DEF Send, TypeOK
  <2>4. begun_at' \in [Workers -> [last : Option, second : Option, third : Option]]
    BY <1>3 DEF Send, TypeOK, Option
  <2> QED  BY <1>3, <2>2, <2>3, <2>4 DEF Send, TypeOK
<1>4. ASSUME NEW w \in Workers, Finish(w) PROVE TypeOK'
  <2>1. ~timed => left[w] - 1 \in Nat
    BY <1>4 DEF Finish, TypeOK, ShareInv
  <2>2. left' \in [Workers -> Nat]
    BY <1>4, <2>1 DEF Finish, TypeOK
  <2>3. pc' \in [Workers -> {"spawned", "head", "slot", "call", "done", "panicked"}]
    BY <1>4 DEF Finish, TypeOK
  <2>4. /\ local' \in [Workers -> Nat] /\ dropped' \in [Workers -> Nat]
        /\ progress_count' \in Nat
    BY <1>4 DEF Finish, TypeOK
  <2> QED  BY <1>4, <2>2, <2>3, <2>4 DEF Finish, TypeOK
<1>5. ASSUME NEW w \in Workers, Panic(w) PROVE TypeOK'
  BY <1>5 DEF Panic, TypeOK
<1>6. ASSUME NEW w \in Workers, Join(w) PROVE TypeOK'
  BY <1>6 DEF Join, TypeOK
<1>7. CASE Report
  BY <1>7 DEF Report, TypeOK, derive_end_reason
<1>8. CASE Shutdown
  BY <1>8 DEF Shutdown, TypeOK
<1>9. CASE Tick
  BY <1>9 DEF Tick, TypeOK
<1>10. CASE UNCHANGED vars
  BY <1>10 DEF vars, TypeOK
<1> QED
  BY <1>1, <1>2, <1>3, <1>4, <1>5, <1>6, <1>7, <1>8, <1>9, <1>10 DEF Next, Step

-----------------------------------------------------------------------------
(* The share                                                               *)

LEMMA InitShare == ASSUME Init PROVE ShareInv
BY DEF Init, ShareInv

LEMMA NextShare == ASSUME TypeOK, ShareInv, [Next]_vars PROVE ShareInv'
<1> USE DEF clock, worker, tally, main
<1>0. timed' = timed
  BY DEF timed, Next, vars, Step, Spawn, Head, Send, Finish, Panic, Join, Report, Shutdown, Tick
<1>1. ASSUME NEW w \in Workers, Spawn(w) PROVE ShareInv'
  BY <1>0, <1>1 DEF Spawn, TypeOK, ShareInv
<1>2. ASSUME NEW w \in Workers, Head(w) PROVE ShareInv'
  <2>1. ~timed /\ pc'[w] = "slot" => left[w] > 0
    BY <1>2 DEF Head, over, share_used, TypeOK
  <2> QED  BY <1>0, <1>2, <2>1 DEF Head, TypeOK, ShareInv
<1>3. ASSUME NEW w \in Workers, Send(w) PROVE ShareInv'
  BY <1>0, <1>3 DEF Send, TypeOK, ShareInv
<1>4. ASSUME NEW w \in Workers, Finish(w) PROVE ShareInv'
  BY <1>0, <1>4 DEF Finish, TypeOK, ShareInv
<1>5. ASSUME NEW w \in Workers, Panic(w) PROVE ShareInv'
  BY <1>0, <1>5 DEF Panic, TypeOK, ShareInv
<1>6. ASSUME NEW w \in Workers, Join(w) PROVE ShareInv'
  BY <1>0, <1>6 DEF Join, ShareInv
<1>7. CASE Report \/ Shutdown \/ Tick \/ UNCHANGED vars
  BY <1>0, <1>7 DEF Report, Shutdown, Tick, vars, ShareInv
<1> QED
  BY <1>1, <1>2, <1>3, <1>4, <1>5, <1>6, <1>7 DEF Next, Step

-----------------------------------------------------------------------------
(* The pace                                                                *)

\* What the slots of a worker remember of its last three requests, when its interval
\* is at least p: the next slot is no earlier than the last request and p after the
\* one before it.
PaceOf(w, p) ==
    /\ pc[w] = "spawned" => begun_at[w].last = {} /\ begun_at[w].second = {}
    /\ pc[w] = "slot" => p <= interval[w]
    /\ \A x \in begun_at[w].last : x <= now /\ (p > 0 => x <= next_slot[w])
    /\ \A x \in begun_at[w].second : x <= now /\ (p > 0 => x + p <= next_slot[w])
    /\ \A x \in begun_at[w].third, y \in begun_at[w].last : x + p <= y

PaceInv == \A w \in Workers, g \in ShortestGaps : PaceOf(w, g * config.concurrency)

\* No interval a worker samples is shorter than that of the highest rate.
LEMMA IntervalBound ==
    ASSUME BenchAssumption, config \in Configs, now \in Nat, NEW g \in ShortestGaps
    PROVE  g * config.concurrency \in Nat /\ g * config.concurrency <= worker_interval
<1> DEFINE t == IF now < MaxTime THEN now ELSE MaxTime
<1>1. t \in 0..MaxTime
  BY ConfigTypes
<1>2. g <= config.gap[t]
  BY <1>1 DEF ShortestGaps
<1>3. g \in Nat /\ config.gap[t] \in Nat
  BY <1>1, ConfigTypes DEF ShortestGaps, Range, BenchAssumption, Config
<1>4. \A a, b \in Nat, c \in Nat \ {0} : a <= b => a * c \in Nat /\ a * c <= b * c
  OBVIOUS
<1> QED  BY <1>1, <1>2, <1>3, <1>4, ConfigTypes DEF worker_interval, rate_gap

LEMMA InitPace == ASSUME Init PROVE PaceInv
BY DEF Init, PaceInv, PaceOf

LEMMA NextPace ==
    ASSUME BenchAssumption, TypeOK, PaceInv, [Next]_vars
    PROVE  PaceInv'
<1> USE DEF clock, worker, tally, main
<1>0. config' = config
  BY DEF Next, vars, Step, Spawn, Head, Send, Finish, Panic, Join, Report, Shutdown, Tick
<1>1. SUFFICES ASSUME NEW v \in Workers, NEW p \in Nat, PaceOf(v, p),
                      p <= worker_interval
               PROVE  PaceOf(v, p)'
  <2>1. ShortestGaps' = ShortestGaps
    BY <1>0 DEF ShortestGaps
  <2> QED  BY <1>0, <2>1, IntervalBound DEF PaceInv, TypeOK
<1> DEFINE b == begun_at[v]
<1>2. /\ b.last \subseteq Nat /\ b.second \subseteq Nat /\ b.third \subseteq Nat
      /\ next_slot[v] \in Nat /\ interval[v] \in Nat /\ now \in Nat
  BY DEF TypeOK, Option
<1>3. CASE /\ UNCHANGED <<begun_at, next_slot, interval>> /\ now' \in {now, now + 1}
           /\ pc'[v] \in {pc[v], "head", "call", "done", "panicked"}
  BY <1>1, <1>2, <1>3 DEF PaceOf
<1>4. ASSUME NEW w \in Workers, Spawn(w) PROVE PaceOf(v, p)'
  <2>1. CASE v = w
    <3>1. b.last = {} /\ b.second = {} /\ pc'[v] = "head" /\ UNCHANGED begun_at
      BY <1>1, <1>4, <2>1 DEF Spawn, PaceOf, TypeOK
    <3> QED  BY <3>1 DEF PaceOf
  <2>2. CASE v # w
    BY <1>1, <1>4, <2>2 DEF Spawn, PaceOf, TypeOK
  <2> QED  BY <2>1, <2>2
<1>5. ASSUME NEW w \in Workers, Head(w) PROVE PaceOf(v, p)'
  <2>1. CASE v = w
    <3>1. /\ UNCHANGED <<begun_at, next_slot, now>>
          /\ pc'[v] = "done" \/ (pc'[v] = "slot" /\ interval'[v] = worker_interval)
      BY <1>5, <2>1 DEF Head, TypeOK
    <3> QED  BY <1>1, <3>1 DEF PaceOf
  <2>2. CASE v # w
    <3>1. UNCHANGED <<begun_at, next_slot, now>> /\ pc'[v] = pc[v] /\ interval'[v] = interval[v]
      BY <1>5, <2>2 DEF Head, TypeOK
    <3> QED  BY <1>1, <3>1 DEF PaceOf
  <2> QED  BY <2>1, <2>2
<1>6. ASSUME NEW w \in Workers, Send(w) PROVE PaceOf(v, p)'
  <2>1. CASE v = w
    <3>1. /\ pc'[v] = "call" /\ now' = now
          /\ begun_at'[v].last = {now} /\ begun_at'[v].second = b.last
          /\ begun_at'[v].third = b.second
      BY <1>6, <2>1 DEF Send, TypeOK
    <3>2. p <= interval[v]
      BY <1>1, <1>6, <2>1 DEF Send, PaceOf
    <3>3. p > 0 => /\ next_slot[v] <= now
                   /\ next_slot'[v] = LargerOf(next_slot[v] + interval[v], now)
      BY <1>2, <1>6, <2>1, <3>2 DEF Send, following_slot, TypeOK
    <3>4. p > 0 => now <= next_slot'[v] /\ next_slot[v] + p <= next_slot'[v]
      BY <1>2, <3>2, <3>3 DEF LargerOf
    <3>5. \A x \in b.last : x <= now /\ (p > 0 => x + p <= next_slot'[v])
      <4> TAKE x \in b.last
      <4>1. x \in Nat /\ x <= now /\ (p > 0 => x <= next_slot[v])
        BY <1>1, <1>2 DEF PaceOf
      <4>2. CASE p > 0
        <5>1. next_slot'[v] \in Nat
          BY <1>2, <3>3, <4>2 DEF LargerOf
        <5> QED  BY <1>2, <3>4, <4>1, <4>2, <5>1
      <4> QED  BY <4>1, <4>2
    <3>6. \A x \in b.second : x + p <= now
      <4> TAKE x \in b.second
      <4>1. x \in Nat /\ x <= now /\ (p > 0 => x + p <= next_slot[v])
        BY <1>1, <1>2 DEF PaceOf
      <4> QED  BY <1>1, <1>2, <3>3, <4>1
    <3> QED  BY <3>1, <3>4, <3>5, <3>6, <1>2 DEF PaceOf
  <2>2. CASE v # w
    <3>1. /\ UNCHANGED <<interval, now>> /\ pc'[v] = pc[v]
          /\ begun_at'[v] = begun_at[v] /\ next_slot'[v] = next_slot[v]
      BY <1>6, <2>2 DEF Send, TypeOK
    <3> QED  BY <1>1, <3>1 DEF PaceOf
  <2> QED  BY <2>1, <2>2
<1>7. ASSUME NEW w \in Workers, Finish(w) \/ Panic(w) \/ Join(w) PROVE PaceOf(v, p)'
  BY <1>3, <1>7 DEF Finish, Panic, Join, TypeOK
<1>8. CASE Report \/ Shutdown \/ Tick \/ UNCHANGED vars
  BY <1>3, <1>8 DEF Report, Shutdown, Tick, vars
<1> QED
  BY <1>4, <1>5, <1>6, <1>7, <1>8 DEF Next, Step

-----------------------------------------------------------------------------
(* The late request                                                        *)

\* A late request is the last: the worker has to stop, and its next look says so.
LateInv ==
    \A w \in Workers :
        /\ late[w] <= 1
        /\ late[w] = 1 => must_stop(w) /\ pc[w] \notin {"spawned", "slot"}

LEMMA InitLate == ASSUME Init PROVE LateInv
BY DEF Init, LateInv

LEMMA NextLate ==
    ASSUME BenchAssumption, TypeOK, LateInv, [Next]_vars
    PROVE  LateInv'
<1> USE DEF clock, worker, tally, main
<1> DEFINE Ok(v) == late[v] <= 1 /\ (late[v] = 1 => must_stop(v) /\ pc[v] \notin {"spawned", "slot"})
<1>0. SUFFICES ASSUME NEW v \in Workers PROVE Ok(v)'
  BY DEF LateInv
<1>1. /\ late[v] \in Nat /\ now \in Nat /\ limit[v] \subseteq Nat
      /\ Ok(v)
  BY DEF TypeOK, Option, LateInv
<1>2. ASSUME limit'[v] = limit[v], now' \in {now, now + 1},
             shutdown_requested => shutdown_requested', must_stop(v)
      PROVE  must_stop(v)'
  BY <1>1, <1>2 DEF must_stop, past_limit
<1>3. ASSUME limit'[v] = limit[v], now' \in {now, now + 1},
             shutdown_requested => shutdown_requested', late'[v] = late[v],
             late[v] = 1 => pc'[v] \notin {"spawned", "slot"}
      PROVE  Ok(v)'
  <2>1. late'[v] <= 1
    BY <1>1, <1>3
  <2>2. late'[v] = 1 => must_stop(v)' /\ pc'[v] \notin {"spawned", "slot"}
    BY <1>1, <1>2, <1>3
  <2> QED  BY <2>1, <2>2
<1>4. ASSUME NEW w \in Workers, Spawn(w) PROVE Ok(v)'
  <2>1. CASE v = w
    BY <1>1, <1>4, <2>1 DEF Spawn, TypeOK
  <2>2. CASE v # w
    BY <1>1, <1>3, <1>4, <2>2 DEF Spawn, TypeOK
  <2> QED  BY <2>1, <2>2
<1>5. ASSUME NEW w \in Workers, Head(w) PROVE Ok(v)'
  <2>1. UNCHANGED <<limit, now, shutdown_requested, late>>
    BY <1>5 DEF Head
  <2>2. late[v] = 1 => pc'[v] \notin {"spawned", "slot"}
    BY <1>1, <1>5 DEF Head, TypeOK, over
  <2> QED  BY <1>3, <2>1, <2>2
<1>6. ASSUME NEW w \in Workers, Send(w) PROVE Ok(v)'
  <2>1. CASE v = w
    <3>1. late[v] = 0
      BY <1>1, <1>6, <2>1 DEF Send
    <3>2. late'[v] = late[v] + (IF must_stop(v) THEN 1 ELSE 0)
      BY <1>6, <2>1 DEF Send, TypeOK
    <3>3. pc'[v] = "call" /\ UNCHANGED <<limit, now, shutdown_requested>>
      BY <1>6, <2>1 DEF Send, TypeOK
    <3> QED  BY <1>2, <3>1, <3>2, <3>3
  <2>2. CASE v # w
    BY <1>1, <1>3, <1>6, <2>2 DEF Send, TypeOK
  <2> QED  BY <2>1, <2>2
<1>7. ASSUME NEW w \in Workers, Finish(w) \/ Panic(w) \/ Join(w) PROVE Ok(v)'
  BY <1>1, <1>3, <1>7 DEF Finish, Panic, Join, TypeOK
<1>8. CASE Report \/ Shutdown \/ Tick \/ UNCHANGED vars
  BY <1>1, <1>3, <1>8 DEF Report, Shutdown, Tick, vars
<1> HIDE DEF Ok
<1> QED
  BY <1>4, <1>5, <1>6, <1>7, <1>8 DEF Next, Step

-----------------------------------------------------------------------------
(* The budget                                                              *)

\* The requests each worker is to send in request-count mode.
share == [w \in Workers |->
            IF w <= config.concurrency THEN worker_requests(w) * config.docs ELSE 0]

InCall(w) == IF pc[w] = "call" THEN 1 ELSE 0
InPanic(w) == IF pc[w] = "panicked" THEN 1 ELSE 0

\* What a worker has sent and what is left of its share make its share, a request
\* under way apart.
BudgetInv ==
    ~timed => \A w \in Workers :
        /\ begun[w] + left[w] = share[w] + InCall(w) + InPanic(w)
        /\ pc[w] = "panicked" => left[w] > 0

\* A worker stops before its share is used up only when the run is cut short, and a
\* run that was not says so once every worker is joined.
StopInv ==
    /\ \A w \in Workers :
        /\ pc[w] = "spawned" => limit[w] = {}
        /\ ~timed => limit[w] \in {{}, config.max_duration}
        /\ pc[w] = "done" /\ ~timed =>
             \/ left[w] = 0 \/ shutdown_requested
             \/ \E d \in config.max_duration : now >= d
    /\ joined \subseteq {w \in Workers : pc[w] \in {"done", "panicked"}}
    /\ end_reason # "none" => joined = Workers
    /\ end_reason = "requests_completed" =>
         ~timed /\ \A w \in Workers : pc[w] = "done" => left[w] = 0

LEMMA ShareFunction == ASSUME BenchAssumption, config \in Configs PROVE share \in [Workers -> Nat]
BY ShareType DEF share

\* What the remainder of a division is.
LEMMA Division ==
    ASSUME NEW a \in Nat, NEW b \in Nat \ {0}
    PROVE  a \div b \in Nat /\ a % b \in Nat /\ a = b * (a \div b) + (a % b)
<1>1. a \div b \in Nat /\ a % b \in Nat
  OBVIOUS
<1>2. a = b * (a \div b) + (a % b)
  OBVIOUS
<1> QED  BY <1>1, <1>2

\* The total of c parts of k.
LEMMA EvenTotal ==
    ASSUME NEW m \in Nat, NEW c \in 1..m, NEW k \in Nat
    PROVE  Total([x \in 1..m |-> IF x <= c THEN k ELSE 0]) = c * k
<1> DEFINE f == [x \in 1..m |-> IF x <= c THEN k ELSE 0]
<1>0. f \in [1..m -> Nat] /\ \A x \in 1..m : f[x] = IF x <= c THEN k ELSE 0
  OBVIOUS
<1> HIDE DEF f
<1>1. Units(f) = (1..c) \X (1..k)
  <2>1. \A p : p \in Units(f) <=> \E x \in 1..m : \E i \in 1..f[x] : p = <<x, i>>
    BY <1>0, UnitsOf
  <2>2. 1..c \subseteq 1..m /\ \A x \in 1..m : x <= c <=> x \in 1..c
    OBVIOUS
  <2>3. \A x \in 1..m : \A i \in 1..f[x] : x \in 1..c /\ i \in 1..k
    BY <1>0, <2>2
  <2>4. \A x \in 1..c : \A i \in 1..k : i \in 1..f[x]
    BY <1>0, <2>2
  <2>5. \A p : p \in Units(f) <=> \E x \in 1..c : \E i \in 1..k : p = <<x, i>>
    BY <2>1, <2>2, <2>3, <2>4
  <2> QED  BY <2>5
<1>2. IsFiniteSet(1..c) /\ Cardinality(1..c) = c /\ IsFiniteSet(1..k) /\ Cardinality(1..k) = k
  BY UnitsInterval
<1>3. Cardinality((1..c) \X (1..k)) = Cardinality(1..c) * Cardinality(1..k)
  BY <1>2, FS_Product, Zenon
<1>4. Total(f) = c * k
  BY <1>1, <1>2, <1>3, Zenon DEF Total
<1> QED  BY <1>4, Zenon DEF f

\* The total of c parts of which the last takes what remains of a division.
LEMMA RemainderTotal ==
    ASSUME NEW m \in Nat, NEW c \in 1..m, NEW q \in Nat, NEW r \in Nat, NEW d \in Nat
    PROVE  Total([x \in 1..m |-> IF x < c THEN q * d
                                 ELSE IF x = c THEN (q + r) * d ELSE 0]) = (c * q + r) * d
<1> DEFINE f == [x \in 1..m |-> IF x < c THEN q * d ELSE IF x = c THEN (q + r) * d ELSE 0]
           k == q * d
           even == [x \in 1..m |-> IF x <= c THEN k ELSE 0]
<1>1. k \in Nat /\ (q + r) * d \in Nat
  OBVIOUS
<1>2. even \in [1..m -> Nat] /\ \A x \in 1..m : even[x] = IF x <= c THEN k ELSE 0
  BY <1>1
<1>3. f \in [1..m -> Nat] /\ f[c] = (q + r) * d
  BY <1>1
<1>4. \A x \in (1..m) \ {c} : even[x] = f[x]
  <2> SUFFICES ASSUME NEW x \in 1..m, x # c PROVE even[x] = f[x]
    OBVIOUS
  <2>1. x <= c <=> x < c
    OBVIOUS
  <2> QED  BY <2>1
<1> HIDE DEF even, k
<1>5. Total(even) = c * k
  BY <1>1, EvenTotal, Zenon DEF even
<1> HIDE DEF f
<1>6. IsFiniteSet(1..m)
  BY UnitsInterval
<1>7. Total(f) + even[c] = Total(even) + f[c]
  BY <1>2, <1>3, <1>4, <1>6, TotalStep
<1>8. even[c] = k
  BY <1>2
<1>9. Total(f) \in Nat
  BY <1>3, <1>6, UnitsFinite
<1>10. Total(f) + q * d = c * (q * d) + (q + r) * d
  BY <1>3, <1>5, <1>7, <1>8 DEF k
<1>11. c * (q * d) + (q + r) * d = (c * q + r) * d + q * d
  <2>1. \A a, b, n, l \in Nat : a * (b * n) + (b + l) * n = (a * b + l) * n + b * n
    OBVIOUS
  <2> QED  BY <2>1
<1>12. (c * q + r) * d \in Nat /\ q * d \in Nat
  <2>1. \A a, b, n, l \in Nat : (a * b + l) * n \in Nat /\ b * n \in Nat
    OBVIOUS
  <2> QED  BY <2>1
<1>13. Total(f) = (c * q + r) * d
  BY <1>9, <1>10, <1>11, <1>12
<1> QED  BY <1>13 DEF f

\* The shares add up to every whole pass over the documents, the remainder included.
LEMMA ShareTotal ==
    ASSUME BenchAssumption, config \in Configs
    PROVE  Total(share) = request_passes * config.docs
<1> DEFINE c == config.concurrency
           q == request_passes \div c
           r == request_passes % c
<1>1. /\ c \in Nat \ {0} /\ c \in 1..MaxWorkers /\ config.docs \in Nat
      /\ request_passes \in Nat /\ MaxWorkers \in Nat
  <2>1. config.concurrency \in Workers
    BY DEF BenchAssumption, Config
  <2>2. request_passes \in Nat
    BY ConfigTypes DEF request_passes, LargerOf
  <2> QED  BY <2>1, <2>2, ConfigTypes DEF BenchAssumption, Workers
<1>2. q \in Nat /\ r \in Nat /\ request_passes = c * q + r
  <2> HIDE DEF c
  <2> QED  BY <1>1, Division
<1>3. share \in [1..MaxWorkers -> Nat]
  BY ShareFunction DEF Workers
<1>4. ASSUME NEW w \in 1..MaxWorkers
      PROVE  share[w] = IF w < c THEN q * config.docs
                        ELSE IF w = c THEN (q + r) * config.docs ELSE 0
  <2>1. worker_requests(w) = IF w = c THEN q + r ELSE q
    BY <1>2 DEF worker_requests, passes_per_worker
  <2>2. w <= c <=> w < c \/ w = c
    BY <1>1
  <2>3. share[w] = IF w <= c THEN worker_requests(w) * config.docs ELSE 0
    BY DEF share, Workers
  <2> HIDE DEF c, q, r
  <2> QED  BY <1>1, <2>1, <2>2, <2>3
<1> HIDE DEF c, q, r
<1>5. share = [w \in 1..MaxWorkers |->
                   IF w < c THEN q * config.docs
                   ELSE IF w = c THEN (q + r) * config.docs ELSE 0]
  BY <1>3, <1>4
<1>6. Total([w \in 1..MaxWorkers |->
                IF w < c THEN q * config.docs
                ELSE IF w = c THEN (q + r) * config.docs ELSE 0]) = (c * q + r) * config.docs
  <2>1. \A m \in Nat : \A a \in 1..m : \A u, v, n \in Nat :
          Total([w \in 1..m |-> IF w < a THEN u * n ELSE IF w = a THEN (u + v) * n ELSE 0])
            = (a * u + v) * n
    BY RemainderTotal
  <2>2. \A a \in 1..MaxWorkers : \A u, v, n \in Nat :
          Total([w \in 1..MaxWorkers |-> IF w < a THEN u * n ELSE IF w = a THEN (u + v) * n ELSE 0])
            = (a * u + v) * n
    BY <1>1, <2>1, Zenon
  <2>3. \A u, v, n \in Nat :
          Total([w \in 1..MaxWorkers |-> IF w < c THEN u * n ELSE IF w = c THEN (u + v) * n ELSE 0])
            = (c * u + v) * n
    BY <1>1, <2>2, Zenon
  <2>4. q \in Nat /\ r \in Nat /\ config.docs \in Nat
    BY <1>1, <1>2
  <2> QED  BY <2>3, <2>4, Zenon
<1> QED  BY <1>2, <1>5, <1>6

LEMMA InitBudget == ASSUME BenchAssumption, Init PROVE BudgetInv /\ StopInv
<1>1. share \in [Workers -> Nat] /\ config \in Configs
  BY ShareFunction DEF Init
<1>2. \A w \in Workers : left[w] = share[w] /\ begun[w] = 0 /\ pc[w] \in {"spawned", "done"}
  BY DEF Init, share
<1>3. BudgetInv
  BY <1>1, <1>2 DEF BudgetInv, InCall, InPanic
<1>4. \A w \in Workers : pc[w] = "done" => left[w] = 0
  <2> SUFFICES ASSUME NEW w \in Workers, ~(w <= config.concurrency) PROVE left[w] = 0
    BY DEF Init
  <2> QED  BY DEF Init
<1>5. StopInv
  BY <1>4 DEF Init, StopInv
<1> QED  BY <1>3, <1>5

LEMMA NextBudget ==
    ASSUME BenchAssumption, TypeOK, ShareInv, BudgetInv, [Next]_vars
    PROVE  BudgetInv'
<1> USE DEF clock, worker, tally, main
<1>0. config' = config /\ timed' = timed /\ share' = share
  <2>1. config' = config
    BY DEF Next, vars, Step, Spawn, Head, Send, Finish, Panic, Join, Report, Shutdown, Tick
  <2> QED  BY <2>1 DEF timed, share, worker_requests, passes_per_worker, request_passes
<1>1. SUFFICES ASSUME ~timed, NEW v \in Workers
               PROVE  /\ begun'[v] + left'[v] = share[v] + InCall(v)' + InPanic(v)'
                      /\ pc'[v] = "panicked" => left'[v] > 0
  BY <1>0 DEF BudgetInv
<1>2. /\ begun[v] \in Nat /\ left[v] \in Nat /\ share[v] \in Nat
      /\ begun[v] + left[v] = share[v] + InCall(v) + InPanic(v)
      /\ pc[v] = "panicked" => left[v] > 0
      /\ pc[v] = "call" => left[v] > 0
  BY <1>1, ShareFunction DEF TypeOK, BudgetInv, ShareInv
<1>3. CASE begun'[v] = begun[v] /\ left'[v] = left[v] /\ pc'[v] = pc[v]
  BY <1>2, <1>3 DEF InCall, InPanic
<1>4. ASSUME NEW w \in Workers, Spawn(w) \/ Head(w)
      PROVE  begun'[v] = begun[v] /\ left'[v] = left[v] /\
             (pc'[v] = pc[v] \/ {pc[v], pc'[v]} \cap {"call", "panicked"} = {})
  BY <1>4 DEF Spawn, Head, TypeOK
<1>5. CASE begun'[v] = begun[v] /\ left'[v] = left[v] /\
           {pc[v], pc'[v]} \cap {"call", "panicked"} = {}
  BY <1>2, <1>5 DEF InCall, InPanic
<1>6. ASSUME NEW w \in Workers, Send(w), v = w
      PROVE  /\ begun'[v] + left'[v] = share[v] + InCall(v)' + InPanic(v)'
             /\ pc'[v] = "panicked" => left'[v] > 0
  <2>1. begun'[v] = begun[v] + 1 /\ left'[v] = left[v] /\ pc[v] = "slot" /\ pc'[v] = "call"
    BY <1>6 DEF Send, TypeOK
  <2> QED  BY <1>2, <2>1 DEF InCall, InPanic
<1>7. ASSUME NEW w \in Workers, Finish(w), v = w
      PROVE  /\ begun'[v] + left'[v] = share[v] + InCall(v)' + InPanic(v)'
             /\ pc'[v] = "panicked" => left'[v] > 0
  <2>1. begun'[v] = begun[v] /\ left'[v] = left[v] - 1 /\ pc[v] = "call" /\ pc'[v] = "head"
    BY <1>1, <1>7 DEF Finish, TypeOK
  <2> QED  BY <1>2, <2>1 DEF InCall, InPanic
<1>8. ASSUME NEW w \in Workers, Panic(w), v = w
      PROVE  /\ begun'[v] + left'[v] = share[v] + InCall(v)' + InPanic(v)'
             /\ pc'[v] = "panicked" => left'[v] > 0
  <2>1. begun'[v] = begun[v] /\ left'[v] = left[v] /\ pc[v] = "call" /\ pc'[v] = "panicked"
    BY <1>8 DEF Panic, TypeOK
  <2> QED  BY <1>2, <2>1 DEF InCall, InPanic
<1>9. ASSUME NEW w \in Workers, Send(w) \/ Finish(w) \/ Panic(w), v # w
      PROVE  begun'[v] = begun[v] /\ left'[v] = left[v] /\ pc'[v] = pc[v]
  BY <1>1, <1>9 DEF Send, Finish, Panic, TypeOK
<1>10. ASSUME NEW w \in Workers, Join(w)
       PROVE  begun'[v] = begun[v] /\ left'[v] = left[v] /\ pc'[v] = pc[v]
  BY <1>10 DEF Join
<1>11. CASE Report \/ Shutdown \/ Tick \/ UNCHANGED vars
  BY <1>3, <1>11 DEF Report, Shutdown, Tick, vars
<1> QED
  BY <1>3, <1>4, <1>5, <1>6, <1>7, <1>8, <1>9, <1>10, <1>11 DEF Next, Step

LEMMA NextStop ==
    ASSUME BenchAssumption, TypeOK, StopInv, [Next]_vars
    PROVE  StopInv'
<1> USE DEF clock, worker, tally, main
<1> DEFINE Cut == shutdown_requested \/ \E d \in config.max_duration : now >= d
           Ok(v) == /\ pc[v] = "spawned" => limit[v] = {}
                    /\ ~timed => limit[v] \in {{}, config.max_duration}
                    /\ pc[v] = "done" /\ ~timed => left[v] = 0 \/ Cut
           Ended == /\ joined \subseteq {w \in Workers : pc[w] \in {"done", "panicked"}}
                    /\ end_reason # "none" => joined = Workers
                    /\ end_reason = "requests_completed" =>
                         ~timed /\ \A w \in Workers : pc[w] = "done" => left[w] = 0
<1>0. config' = config /\ timed' = timed
  BY DEF Next, vars, Step, Spawn, Head, Send, Finish, Panic, Join, Report, Shutdown, Tick, timed
<1>1. Ended /\ \A v \in Workers : Ok(v)
  BY DEF StopInv
<1>2. SUFFICES Ended' /\ \A v \in Workers : Ok(v)'
  BY DEF StopInv
<1>3. now \in Nat /\ config.max_duration \subseteq Nat
  BY ConfigTypes DEF TypeOK
<1>4. ASSUME now' \in {now, now + 1}, shutdown_requested => shutdown_requested', Cut PROVE Cut'
  BY <1>0, <1>3, <1>4
<1>5. ASSUME NEW v \in Workers, limit'[v] = limit[v], left'[v] = left[v],
             now' \in {now, now + 1}, shutdown_requested => shutdown_requested',
             pc'[v] = "spawned" => pc[v] = "spawned",
             pc'[v] = "done" /\ ~timed => pc[v] = "done" \/ left[v] = 0 \/ Cut
      PROVE  Ok(v)'
  <2>1. Ok(v)
    BY <1>1
  <2>2. Cut => Cut'
    BY <1>4, <1>5
  <2> HIDE DEF Cut
  <2> QED  BY <1>0, <1>5, <2>1, <2>2
<1>6. ASSUME NEW w \in Workers, pc[w] \notin {"done", "panicked"},
             \A v \in Workers \ {w} : pc'[v] = pc[v] /\ left'[v] = left[v],
             joined' = joined, end_reason' = end_reason
      PROVE  Ended'
  <2>1. w \notin joined /\ end_reason = "none"
    BY <1>1, <1>6
  <2> QED  BY <1>0, <1>1, <1>6, <2>1
<1>7. ASSUME NEW w \in Workers, Spawn(w) PROVE Ended' /\ \A v \in Workers : Ok(v)'
  <2>1. Ended'
    BY <1>6, <1>7 DEF Spawn, TypeOK
  <2>2. Ok(w)'
    <3>1. pc'[w] = "head" /\ (~timed => limit'[w] = config.max_duration)
      BY <1>7 DEF Spawn, TypeOK
    <3> QED  BY <1>0, <3>1
  <2>3. ASSUME NEW v \in Workers, v # w PROVE Ok(v)'
    BY <1>5, <1>7, <2>3 DEF Spawn, TypeOK
  <2> QED  BY <2>1, <2>2, <2>3
<1>8. ASSUME NEW w \in Workers, Head(w) PROVE Ended' /\ \A v \in Workers : Ok(v)'
  <2>1. Ended'
    BY <1>6, <1>8 DEF Head, TypeOK
  <2>2. ~timed /\ over(w) => left[w] = 0 \/ Cut
    BY <1>1, <1>8 DEF Head, over, must_stop, past_limit, share_used
  <2>3. ASSUME NEW v \in Workers PROVE Ok(v)'
    <3>1. pc'[v] = "spawned" => pc[v] = "spawned"
      BY <1>8 DEF Head, TypeOK
    <3>2. pc'[v] = "done" /\ ~timed => pc[v] = "done" \/ left[v] = 0 \/ Cut
      BY <1>8, <2>2 DEF Head, TypeOK
    <3>3. UNCHANGED <<limit, left, now, shutdown_requested>>
      BY <1>8 DEF Head
    <3> HIDE DEF Ok, Cut
    <3> QED  BY <1>5, <3>1, <3>2, <3>3
  <2> QED  BY <2>1, <2>3
<1>9. ASSUME NEW w \in Workers, Send(w) PROVE Ended' /\ \A v \in Workers : Ok(v)'
  BY <1>5, <1>6, <1>9 DEF Send, TypeOK
<1>10. ASSUME NEW w \in Workers, Finish(w) PROVE Ended' /\ \A v \in Workers : Ok(v)'
  <2>1. Ended'
    BY <1>6, <1>10 DEF Finish, TypeOK
  <2>2. Ok(w)'
    <3>1. pc'[w] = "head" /\ limit'[w] = limit[w]
      BY <1>10 DEF Finish, TypeOK
    <3> QED  BY <1>0, <1>1, <3>1
  <2>3. ASSUME NEW v \in Workers, v # w PROVE Ok(v)'
    BY <1>5, <1>10, <2>3 DEF Finish, TypeOK
  <2> QED  BY <2>1, <2>2, <2>3
<1>11. ASSUME NEW w \in Workers, Panic(w) PROVE Ended' /\ \A v \in Workers : Ok(v)'
  BY <1>5, <1>6, <1>11 DEF Panic, TypeOK
<1>12. ASSUME NEW w \in Workers, Join(w) PROVE Ended' /\ \A v \in Workers : Ok(v)'
  <2>1. UNCHANGED <<pc, left, limit, now, shutdown_requested, end_reason>> /\ joined' = joined \cup {w}
        /\ pc[w] \in {"done", "panicked"} /\ w \notin joined
    BY <1>12 DEF Join
  <2>2. Ended'
    BY <1>0, <1>1, <2>1
  <2> HIDE DEF Ended
  <2> QED  BY <1>5, <2>1, <2>2
<1>13. CASE Report
  <2>1. UNCHANGED <<pc, left, limit, now, shutdown_requested, joined>> /\ joined = Workers
        /\ end_reason' = derive_end_reason
    BY <1>13 DEF Report
  <2>2. end_reason' = "requests_completed" => ~timed /\ ~Cut
    BY <2>1 DEF derive_end_reason
  <2>3. ~timed /\ ~Cut => \A w \in Workers : pc[w] = "done" => left[w] = 0
    BY <1>1
  <2>4. Ended'
    BY <1>0, <1>1, <2>1, <2>2, <2>3
  <2> HIDE DEF Ended
  <2> QED  BY <1>5, <2>1, <2>4
<1>14. CASE Shutdown \/ Tick \/ UNCHANGED vars
  <2>1. /\ UNCHANGED <<pc, left, limit, joined, end_reason>>
        /\ now' \in {now, now + 1} /\ (shutdown_requested => shutdown_requested')
    BY <1>14 DEF Shutdown, Tick, vars
  <2>2. Ended'
    BY <1>0, <1>1, <2>1
  <2> HIDE DEF Ended
  <2> QED  BY <1>5, <2>1, <2>2
<1> HIDE DEF Ok, Ended
<1> QED
  BY <1>7, <1>8, <1>9, <1>10, <1>11, <1>12, <1>13, <1>14 DEF Next, Step

-----------------------------------------------------------------------------
(* The count                                                               *)

\* What became of the requests of each worker: in the report, gone with a worker that
\* panicked, or under way.
Counted == [w \in Workers |-> IF pc[w] = "panicked" THEN 0 ELSE local[w]]
Lost == [w \in Workers |-> IF pc[w] = "panicked" THEN begun[w] - dropped[w] ELSE 0]
Calls == [w \in Workers |-> InCall(w)]

\* The requests merged so far.
Merged == [w \in Workers |-> IF w \in joined /\ pc[w] = "done" THEN local[w] ELSE 0]

\* Each request of a worker is recorded, dropped, under way or what it panicked in;
\* the metrics of the workers joined are in the count.
TallyInv ==
    /\ \A w \in Workers : begun[w] = local[w] + dropped[w] + InCall(w) + InPanic(w)
    /\ count = Total(Merged)

LEMMA WorkersFinite == ASSUME BenchAssumption PROVE IsFiniteSet(Workers)
BY UnitsInterval DEF BenchAssumption, Workers

LEMMA InitTally == ASSUME BenchAssumption, Init PROVE TallyInv
<1>1. \A w \in Workers : begun[w] = local[w] + dropped[w] + InCall(w) + InPanic(w)
  BY DEF Init, InCall, InPanic
<1>2. Merged \in [Workers -> Nat] /\ \A w \in Workers : Merged[w] = 0
  BY DEF Init, Merged
<1>3. Total(Merged) = 0
  BY <1>2, WorkersFinite, TotalZero
<1> QED  BY <1>1, <1>3 DEF Init, TallyInv

LEMMA NextTally ==
    ASSUME BenchAssumption, TypeOK, StopInv, TallyInv, [Next]_vars
    PROVE  TallyInv'
<1> USE DEF clock, worker, tally, main
<1> DEFINE Ok(v) == begun[v] = local[v] + dropped[v] + InCall(v) + InPanic(v)
<1>1. /\ \A v \in Workers : Ok(v) /\ begun[v] \in Nat /\ local[v] \in Nat /\ dropped[v] \in Nat
      /\ count = Total(Merged) /\ IsFiniteSet(Workers)
  BY WorkersFinite DEF TallyInv, TypeOK
<1>2. SUFFICES (\A v \in Workers : Ok(v)') /\ count' = Total(Merged')
  BY DEF TallyInv, Total, Units
<1>3. ASSUME NEW v \in Workers, begun'[v] = begun[v], local'[v] = local[v], dropped'[v] = dropped[v],
             pc'[v] \in {"call", "panicked"} <=> pc[v] \in {"call", "panicked"}
      PROVE  Ok(v)'
  <2>1. InCall(v)' + InPanic(v)' = InCall(v) + InPanic(v)
    BY <1>3 DEF InCall, InPanic
  <2>2. InCall(v) \in Nat /\ InPanic(v) \in Nat /\ InCall(v)' \in Nat /\ InPanic(v)' \in Nat
    BY DEF InCall, InPanic
  <2> QED  BY <1>1, <1>3, <2>1, <2>2
<1>4. ASSUME NEW w \in Workers, w \notin joined, joined' = joined, count' = count,
             \A v \in Workers \ {w} : pc'[v] = pc[v] /\ local'[v] = local[v]
      PROVE  count' = Total(Merged')
  <2>1. \A v \in Workers : Merged'[v] = Merged[v]
    BY <1>4 DEF Merged
  <2>2. Merged' = Merged
    BY <2>1 DEF Merged
  <2> QED  BY <1>1, <1>4, <2>2
<1>5. \A w \in Workers : pc[w] \notin {"done", "panicked"} => w \notin joined
  BY DEF StopInv
<1>6. ASSUME NEW w \in Workers, Spawn(w) \/ Head(w) \/ Panic(w)
      PROVE  (\A v \in Workers : Ok(v)') /\ count' = Total(Merged')
  <2>1. /\ UNCHANGED <<begun, local, dropped, joined, count>> /\ pc[w] \notin {"done", "panicked"}
        /\ \A v \in Workers \ {w} : pc'[v] = pc[v]
        /\ pc'[w] \in {"call", "panicked"} <=> pc[w] \in {"call", "panicked"}
    BY <1>6 DEF Spawn, Head, Panic, TypeOK
  <2>2. \A v \in Workers : Ok(v)'
    BY <1>3, <2>1
  <2> HIDE DEF Ok
  <2> QED  BY <1>4, <1>5, <2>1, <2>2
<1>7. ASSUME NEW w \in Workers, Send(w) \/ Finish(w)
      PROVE  (\A v \in Workers : Ok(v)') /\ count' = Total(Merged')
  <2>1. /\ UNCHANGED <<joined, count>> /\ pc[w] \notin {"done", "panicked"}
        /\ \A v \in Workers \ {w} : pc'[v] = pc[v] /\ begun'[v] = begun[v]
                                  /\ local'[v] = local[v] /\ dropped'[v] = dropped[v]
    BY <1>7 DEF Send, Finish, TypeOK
  <2>2. Ok(w)'
    <3>1. CASE Send(w)
      <4>1. /\ begun'[w] = begun[w] + 1 /\ local'[w] = local[w] /\ dropped'[w] = dropped[w]
            /\ pc[w] = "slot" /\ pc'[w] = "call"
        BY <3>1 DEF Send, TypeOK
      <4> QED  BY <1>1, <4>1 DEF InCall, InPanic
    <3>2. CASE Finish(w)
      <4>1. /\ begun'[w] = begun[w] /\ local'[w] + dropped'[w] = local[w] + dropped[w] + 1
            /\ local'[w] \in Nat /\ dropped'[w] \in Nat
            /\ pc[w] = "call" /\ pc'[w] = "head"
        <5>1. CASE records(w)
          <6>1. /\ UNCHANGED <<begun, dropped>> /\ local' = [local EXCEPT ![w] = @ + 1]
                /\ pc[w] = "call" /\ pc' = [pc EXCEPT ![w] = "head"]
            BY <3>2, <5>1 DEF Finish
          <6>2. local'[w] = local[w] + 1 /\ pc'[w] = "head"
            BY <6>1 DEF TypeOK
          <6> QED  BY <1>1, <6>1, <6>2
        <5>2. CASE ~records(w)
          <6>1. /\ UNCHANGED <<begun, local>> /\ dropped' = [dropped EXCEPT ![w] = @ + 1]
                /\ pc[w] = "call" /\ pc' = [pc EXCEPT ![w] = "head"]
            BY <3>2, <5>2 DEF Finish
          <6>2. dropped'[w] = dropped[w] + 1 /\ pc'[w] = "head"
            BY <6>1 DEF TypeOK
          <6> QED  BY <1>1, <6>1, <6>2
        <5> QED  BY <5>1, <5>2
      <4> QED  BY <1>1, <4>1 DEF InCall, InPanic
    <3> QED  BY <1>7, <3>1, <3>2
  <2>3. \A v \in Workers \ {w} : Ok(v)'
    BY <1>3, <2>1
  <2> HIDE DEF Ok
  <2> QED  BY <1>4, <1>5, <2>1, <2>2, <2>3
<1>8. ASSUME NEW w \in Workers, Join(w)
      PROVE  (\A v \in Workers : Ok(v)') /\ count' = Total(Merged')
  <2>1. /\ UNCHANGED <<pc, begun, local, dropped>> /\ joined' = joined \cup {w} /\ w \notin joined
        /\ count' = count + (IF pc[w] = "done" THEN local[w] ELSE 0)
    BY <1>8 DEF Join
  <2>2. \A v \in Workers : Ok(v)'
    BY <1>3, <2>1
  <2>3. Merged \in [Workers -> Nat] /\ Merged' \in [Workers -> Nat]
    BY <1>1, <2>1 DEF Merged
  <2>4. Merged[w] = 0 /\ Merged'[w] = (IF pc[w] = "done" THEN local[w] ELSE 0)
    BY <2>1 DEF Merged
  <2>5. \A v \in Workers \ {w} : Merged[v] = Merged'[v]
    BY <2>1 DEF Merged
  <2>6. Total(Merged') + Merged[w] = Total(Merged) + Merged'[w]
    BY <1>1, <2>3, <2>5, TotalStep
  <2>7. Total(Merged') \in Nat /\ Total(Merged) \in Nat
    BY <1>1, <2>3, UnitsFinite
  <2> HIDE DEF Ok
  <2> QED  BY <1>1, <2>1, <2>2, <2>4, <2>6, <2>7
<1>9. CASE Report \/ Shutdown \/ Tick \/ UNCHANGED vars
  <2>1. UNCHANGED <<pc, begun, local, dropped, joined, count>>
    BY <1>9 DEF Report, Shutdown, Tick, vars
  <2>2. \A v \in Workers : Ok(v)'
    BY <1>3, <2>1
  <2>3. Merged' = Merged
    BY <2>1 DEF Merged
  <2> HIDE DEF Ok
  <2> QED  BY <1>1, <2>1, <2>2, <2>3
<1> HIDE DEF Ok
<1> QED
  BY <1>6, <1>7, <1>8, <1>9 DEF Next, Step

\* Every request sent is in exactly one of the four counts.
LEMMA Flow ==
    ASSUME BenchAssumption, TypeOK, TallyInv
    PROVE  /\ Counted \in [Workers -> Nat] /\ Lost \in [Workers -> Nat] /\ Calls \in [Workers -> Nat]
           /\ Total(begun) \in Nat /\ Total(Counted) \in Nat /\ Total(dropped) \in Nat
           /\ Total(Lost) \in Nat /\ Total(Calls) \in Nat
           /\ Total(begun) = Total(Counted) + Total(dropped) + Total(Lost) + Total(Calls)
<1>1. \A w \in Workers : /\ begun[w] = local[w] + dropped[w] + InCall(w) + InPanic(w)
                         /\ begun[w] \in Nat /\ local[w] \in Nat /\ dropped[w] \in Nat
  BY DEF TypeOK, TallyInv
<1>2. Counted \in [Workers -> Nat] /\ Calls \in [Workers -> Nat] /\ Lost \in [Workers -> Nat]
  BY <1>1 DEF Counted, Calls, Lost, InCall, InPanic
<1>3. begun \in [Workers -> Nat] /\ dropped \in [Workers -> Nat]
  BY DEF TypeOK
<1> DEFINE ended == [w \in Workers |-> Counted[w] + dropped[w]]
           gone == [w \in Workers |-> Lost[w] + Calls[w]]
<1>4. ended \in [Workers -> Nat] /\ gone \in [Workers -> Nat]
  BY <1>2, <1>3
<1>5. \A w \in Workers : begun[w] = ended[w] + gone[w]
  <2> TAKE w \in Workers
  <2>1. CASE pc[w] = "panicked"
    BY <1>1, <2>1 DEF Counted, Lost, Calls, InCall, InPanic
  <2>2. CASE pc[w] # "panicked"
    BY <1>1, <2>2 DEF Counted, Lost, Calls, InCall, InPanic
  <2> QED  BY <2>1, <2>2
<1>6. \A w \in Workers : ended[w] = Counted[w] + dropped[w]
  OBVIOUS
<1>7. \A w \in Workers : gone[w] = Lost[w] + Calls[w]
  OBVIOUS
<1> HIDE DEF ended, gone
<1>8. Total(begun) = Total(ended) + Total(gone)
  BY <1>3, <1>4, <1>5, WorkersFinite, TotalSum
<1>9. Total(ended) = Total(Counted) + Total(dropped)
  BY <1>2, <1>3, <1>4, <1>6, WorkersFinite, TotalSum
<1>10. Total(gone) = Total(Lost) + Total(Calls)
  BY <1>2, <1>4, <1>7, WorkersFinite, TotalSum
<1>11. /\ Total(begun) \in Nat /\ Total(Counted) \in Nat /\ Total(dropped) \in Nat
       /\ Total(Lost) \in Nat /\ Total(Calls) \in Nat
  BY <1>2, <1>3, WorkersFinite, UnitsFinite
<1> QED  BY <1>2, <1>8, <1>9, <1>10, <1>11

\* What the workers have sent is within the shares, and the shares within --requests.
LEMMA BudgetFromInv ==
    ASSUME BenchAssumption, TypeOK, ShareInv, BudgetInv, StopInv
    PROVE  BudgetKept
<1>1. config \in Configs /\ IsFiniteSet(Workers) /\ share \in [Workers -> Nat]
      /\ begun \in [Workers -> Nat]
  BY WorkersFinite, ShareFunction DEF TypeOK
<1>2. request_passes * config.docs <= config.requests /\ request_passes * config.docs \in Nat
  <2> DEFINE d == config.docs
             n == config.requests
  <2>1. d \in Nat /\ n \in Nat
    BY <1>1, ConfigTypes
  <2>2. CASE d = 0
    <3>1. request_passes \in Nat
      BY <2>1 DEF request_passes, LargerOf
    <3> QED  BY <2>1, <2>2, <3>1
  <2>3. CASE d # 0
    <3>1. request_passes = n \div d
      BY <2>1, <2>3 DEF request_passes, LargerOf
    <3>2. d \in Nat \ {0}
      BY <2>1, <2>3
    <3> HIDE DEF d, n
    <3>3. n \div d \in Nat /\ n % d \in Nat /\ n = d * (n \div d) + (n % d)
      BY <2>1, <3>2, Division
    <3>4. (n \div d) * d = d * (n \div d) /\ d * (n \div d) \in Nat
      BY <2>1, <3>3
    <3>5. (n \div d) * d <= n /\ (n \div d) * d \in Nat
      BY <2>1, <3>3, <3>4
    <3> QED  BY <3>1, <3>5 DEF d, n
  <2> QED  BY <2>2, <2>3
<1>3. ASSUME ~timed PROVE Total(begun) <= config.requests
  <2>1. ASSUME NEW w \in Workers PROVE begun[w] <= share[w]
    <3>1. /\ begun[w] + left[w] = share[w] + InCall(w) + InPanic(w)
          /\ begun[w] \in Nat /\ left[w] \in Nat /\ share[w] \in Nat
          /\ pc[w] = "panicked" => left[w] > 0
      BY <1>1, <1>3 DEF BudgetInv, TypeOK
    <3>2. pc[w] = "call" => left[w] > 0
      BY <1>3 DEF ShareInv
    <3> QED  BY <3>1, <3>2 DEF InCall, InPanic
  <2>2. Total(begun) <= Total(share)
    BY <1>1, <2>1, TotalMonotonic
  <2>3. Total(begun) \in Nat /\ Total(share) \in Nat
    BY <1>1, UnitsFinite
  <2>4. config.requests \in Nat
    BY <1>1, ConfigTypes
  <2> QED  BY <1>1, <1>2, <2>2, <2>3, <2>4, ShareTotal
<1>4. ASSUME end_reason = "requests_completed", "panicked" \notin Range(pc)
      PROVE  Total(begun) = request_passes * config.docs
  <2>1. \A w \in Workers : pc[w] = "done" /\ left[w] = 0
    <3>1. \A w \in Workers : pc[w] # "panicked"
      BY <1>4 DEF Range, TypeOK
    <3> QED  BY <1>4, <3>1 DEF StopInv
  <2>2. ~timed
    BY <1>4 DEF StopInv
  <2>3. \A w \in Workers : begun[w] = share[w]
    BY <1>1, <2>1, <2>2 DEF BudgetInv, InCall, InPanic
  <2>4. begun = share
    BY <1>1, <2>3
  <2> QED  BY <1>1, <2>4, ShareTotal
<1> QED  BY <1>3, <1>4 DEF BudgetKept

-----------------------------------------------------------------------------
(* The theorems                                                            *)

ClosedInv == TypeOK /\ ShareInv /\ PaceInv /\ LateInv /\ BudgetInv /\ StopInv /\ TallyInv

\* The invariant holds in every state of every run.
THEOREM ClosedInvariant == Spec => []ClosedInv
<1>1. Init => ClosedInv
  BY BenchAssumption, InitTypeOK, InitShare, InitPace, InitLate, InitBudget, InitTally DEF ClosedInv
<1>2. ClosedInv /\ [Next]_vars => ClosedInv'
  BY BenchAssumption, NextTypeOK, NextShare, NextPace, NextLate, NextBudget, NextStop, NextTally
     DEF ClosedInv
<1> QED  BY <1>1, <1>2, PTL DEF Spec

\* Every variable of a closed-loop run keeps to its type, for any number of workers.
THEOREM ClosedTypeOK == Spec => []TypeOK
<1>1. ClosedInv => TypeOK
  BY DEF ClosedInv
<1> QED  BY ClosedInvariant, <1>1, PTL

\* No worker sends three requests within one interval of the highest rate, for any
\* schedule, number of workers and delays of calls and of the scheduler.
THEOREM ClosedPace == Spec => []PaceKept
<1>1. ClosedInv => PaceKept
  BY DEF ClosedInv, PaceInv, PaceOf, PaceKept
<1> QED  BY ClosedInvariant, <1>1, PTL

\* A worker sends at most one request after its deadline or the shutdown, wherever
\* in its loop it was when the moment came.
THEOREM ClosedOneLate == Spec => []OneLateRequest
<1>1. ClosedInv => OneLateRequest
  BY DEF ClosedInv, LateInv, OneLateRequest
<1> QED  BY ClosedInvariant, <1>1, PTL

\* No worker sends more than it was asked to, in time or late.
THEOREM ClosedLoad == Spec => []LoadAsAsked
BY ClosedPace, ClosedOneLate, PTL DEF LoadAsAsked

\* No run bounded by a count sends more requests than --requests, however they divide
\* among the workers and the documents, and one that says it completed them sent every
\* whole pass over the documents.
THEOREM ClosedBudget == Spec => []BudgetKept
<1>1. ClosedInv => BudgetKept
  BY BenchAssumption, BudgetFromInv DEF ClosedInv
<1> QED  BY ClosedInvariant, <1>1, PTL

-----------------------------------------------------------------------------
(* The promise of a load run                                               *)

\* The counts of the abstract run, named; none changes with what its functions do not.
Sent == Total(begun)
Expired == \E w \in Workers : past_limit(w)

\* No worker is in a call once all are joined.
LEMMA JoinedIsIdle ==
    ASSUME BenchAssumption, TypeOK, StopInv, TallyInv, joined = Workers
    PROVE  count = Total(Counted) /\ Total(Calls) = 0
<1>1. \A w \in Workers : pc[w] \in {"done", "panicked"}
  BY DEF StopInv
<1>2. Merged = Counted
  BY <1>1 DEF Merged, Counted
<1>3. Calls \in [Workers -> Nat] /\ \A w \in Workers : Calls[w] = 0
  BY <1>1 DEF Calls, InCall
<1> QED  BY <1>2, <1>3, WorkersFinite, TotalZero DEF TallyInv

LEMMA InitLoadRun == ASSUME BenchAssumption, Init PROVE LoadRun!Init
<1>1. TypeOK /\ TallyInv
  BY InitTypeOK, InitTally
<1>2. \A w \in Workers : begun[w] = 0 /\ dropped[w] = 0 /\ Counted[w] = 0 /\ Lost[w] = 0
  BY DEF Init, Counted, Lost
<1>3. Total(begun) = 0 /\ Total(dropped) = 0 /\ Total(Counted) = 0 /\ Total(Lost) = 0
  BY <1>1, <1>2, WorkersFinite, Flow, TotalZero DEF TypeOK
<1>4. Expired \in BOOLEAN
  BY DEF Expired
<1>5. (IF timed THEN {} ELSE {config.requests}) \subseteq Nat
  BY ConfigTypes DEF Init
<1> QED  BY <1>3, <1>4, <1>5 DEF LoadRun!Init, Init, Counted, Lost, Expired

LEMMA StepLoadRun ==
    ASSUME BenchAssumption, ClosedInv, ClosedInv', BudgetKept', [Next]_vars
    PROVE  [LoadRun!Next]_(LoadRun!vars)
<1> USE DEF clock, worker, tally, main
<1> DEFINE S == Total(begun)
           C == Total(Counted)
           D == Total(dropped)
           L == Total(Lost)
           K == Total(Calls)
           R == IF end_reason = "none" THEN {} ELSE {count}
           P == IF timed /\ config.duration_stop # "wait" THEN "cut" ELSE "keep"
           B == IF timed THEN {} ELSE {config.requests}
<1>1. /\ S \in Nat /\ C \in Nat /\ D \in Nat /\ L \in Nat /\ K \in Nat
      /\ S = C + D + L + K
      /\ Counted \in [Workers -> Nat] /\ Lost \in [Workers -> Nat] /\ Calls \in [Workers -> Nat]
      /\ begun \in [Workers -> Nat] /\ dropped \in [Workers -> Nat]
      /\ IsFiniteSet(Workers)
  BY Flow, WorkersFinite DEF ClosedInv, TypeOK
<1>2. /\ Counted' \in [Workers -> Nat] /\ Lost' \in [Workers -> Nat]
      /\ begun' \in [Workers -> Nat] /\ dropped' \in [Workers -> Nat]
      /\ S' \in Nat /\ C' \in Nat /\ D' \in Nat /\ L' \in Nat
  <2>1. TypeOK' /\ TallyInv'
    BY DEF ClosedInv
  <2>2. \A w \in Workers : /\ begun'[w] = local'[w] + dropped'[w] + InCall(w)' + InPanic(w)'
                           /\ begun'[w] \in Nat /\ local'[w] \in Nat /\ dropped'[w] \in Nat
    BY <2>1 DEF TypeOK, TallyInv
  <2>3. Counted' \in [Workers -> Nat] /\ Lost' \in [Workers -> Nat]
    BY <2>2 DEF Counted, Lost, InCall, InPanic
  <2>4. begun' \in [Workers -> Nat] /\ dropped' \in [Workers -> Nat]
    BY <2>1 DEF TypeOK
  <2>5. Total(begun') \in Nat /\ Total(Counted') \in Nat /\ Total(dropped') \in Nat /\ Total(Lost') \in Nat
    BY <1>1, <2>3, <2>4, UnitsFinite
  <2> QED  BY <2>3, <2>4, <2>5 DEF Total, Units
<1>3. config' = config /\ timed' = timed /\ B' = B /\ P' = P
  BY DEF Next, vars, Step, Spawn, Head, Send, Finish, Panic, Join, Report, Shutdown, Tick, timed
<1>4. LoadRun!in_flight = K
  BY <1>1 DEF LoadRun!in_flight, Counted, Lost
<1>5. /\ LoadRun!vars = <<B, P, Expired, S, C, D, L, R>>
      /\ LoadRun!vars' = <<B', P', Expired', S', C', D', L', R'>>
  BY DEF LoadRun!vars, Expired, Counted, Lost
<1>6. ASSUME Expired' = Expired, S' = S, C' = C, D' = D, L' = L, R' = R
      PROVE  UNCHANGED (LoadRun!vars)
  BY <1>3, <1>5, <1>6
<1>7. ASSUME ~Expired, Expired', S' = S, C' = C, D' = D, L' = L, R' = R
      PROVE  LoadRun!Next
  BY <1>3, <1>7 DEF LoadRun!Next, LoadRun!Expire, Expired, Counted, Lost
<1>8. ASSUME Expired' = Expired, S' = S + 1, C' = C, D' = D, L' = L, R' = R, R = {}, \A n \in B : S < n
      PROVE  LoadRun!Next
  BY <1>3, <1>8 DEF LoadRun!Next, LoadRun!Send, Expired, Counted, Lost
<1>9. ASSUME Expired' = Expired, S' = S, C' = C + 1, D' = D, L' = L, R' = R, K > 0
      PROVE  LoadRun!Next
  BY <1>3, <1>4, <1>9 DEF LoadRun!Next, LoadRun!Count, Expired, Counted, Lost
<1>10. ASSUME Expired' = Expired, S' = S, C' = C, D' = D + 1, L' = L, R' = R, K > 0, P = "cut", Expired
       PROVE  LoadRun!Next
  <2>1. 1 \in 1..LoadRun!in_flight
    BY <1>1, <1>4, <1>10
  <2> QED  BY <1>3, <1>10, <2>1 DEF LoadRun!Next, LoadRun!Drop, Expired, Counted, Lost
<1>11. ASSUME NEW n \in 0..C, Expired' = Expired, S' = S, C' = C - n, D' = D, L' = L + n + 1, R' = R, K > 0
       PROVE  LoadRun!Next
  BY <1>3, <1>4, <1>11 DEF LoadRun!Next, LoadRun!Lose, Expired, Counted, Lost
<1>12. ASSUME Expired' = Expired, S' = S, C' = C, D' = D, L' = L, R = {}, R' = {C}, K = 0
       PROVE  LoadRun!Next
  BY <1>3, <1>4, <1>12 DEF LoadRun!Next, LoadRun!Report, Expired, Counted, Lost
<1>13. \A w \in Workers : /\ begun[w] = local[w] + dropped[w] + InCall(w) + InPanic(w)
                          /\ begun[w] \in Nat /\ local[w] \in Nat /\ dropped[w] \in Nat
                          /\ limit[w] \subseteq Nat
  BY DEF ClosedInv, TypeOK, TallyInv, Option
<1>14. now \in Nat /\ pc \in [Workers -> {"spawned", "head", "slot", "call", "done", "panicked"}]
  BY DEF ClosedInv, TypeOK
<1>15. ASSUME NEW w \in Workers, pc[w] \notin {"done", "panicked"}
       PROVE  w \notin joined /\ end_reason = "none" /\ R = {}
  BY <1>15 DEF ClosedInv, StopInv
<1>16. ASSUME now' \in {now, now + 1}, \A w \in Workers : limit'[w] = limit[w] \/ limit[w] = {}
       PROVE  Expired => Expired'
  BY <1>13, <1>14, <1>16 DEF Expired, past_limit
<1>17. ASSUME UNCHANGED <<begun, local, dropped>>, R' = R, Expired => Expired',
              \A w \in Workers : pc'[w] = "panicked" <=> pc[w] = "panicked"
       PROVE  LoadRun!Next \/ UNCHANGED (LoadRun!vars)
  <2>1. Counted' = Counted /\ Lost' = Lost
    BY <1>17 DEF Counted, Lost
  <2>2. S' = S /\ C' = C /\ D' = D /\ L' = L
    BY <1>17, <2>1 DEF Total, Units
  <2>3. CASE Expired \/ ~Expired'
    <3>1. Expired' = Expired
      BY <1>17, <2>3 DEF Expired
    <3> QED  BY <1>6, <1>17, <2>2, <3>1
  <2>4. CASE ~Expired /\ Expired'
    BY <1>7, <1>17, <2>2, <2>4
  <2> QED  BY <2>3, <2>4
<1>18. ASSUME NEW w \in Workers, Spawn(w) PROVE LoadRun!Next \/ UNCHANGED (LoadRun!vars)
  <2>1. limit[w] = {} /\ \A v \in Workers \ {w} : limit'[v] = limit[v]
    BY <1>18 DEF Spawn, ClosedInv, StopInv, TypeOK
  <2>2. Expired => Expired'
    BY <1>16, <1>18, <2>1 DEF Spawn
  <2>3. \A v \in Workers : pc'[v] = "panicked" <=> pc[v] = "panicked"
    BY <1>14, <1>18 DEF Spawn
  <2> QED  BY <1>17, <1>18, <2>2, <2>3 DEF Spawn
<1>19. ASSUME NEW w \in Workers, Head(w) PROVE LoadRun!Next \/ UNCHANGED (LoadRun!vars)
  <2>1. Expired => Expired'
    BY <1>16, <1>19 DEF Head
  <2>2. \A v \in Workers : pc'[v] = "panicked" <=> pc[v] = "panicked"
    BY <1>14, <1>19 DEF Head
  <2> QED  BY <1>17, <1>19, <2>1, <2>2 DEF Head
<1>20. ASSUME NEW w \in Workers, Send(w) PROVE LoadRun!Next
  <2>1. /\ pc[w] = "slot" /\ pc' = [pc EXCEPT ![w] = "call"] /\ begun' = [begun EXCEPT ![w] = @ + 1]
        /\ UNCHANGED <<now, limit, local, dropped, end_reason, count>>
    BY <1>20 DEF Send
  <2>2. begun'[w] = begun[w] + 1 /\ \A v \in Workers \ {w} : begun[v] = begun'[v]
    BY <1>1, <2>1
  <2>3. S' = S + 1
    <3>1. Total(begun') + begun[w] = Total(begun) + begun'[w]
      <4>1. /\ IsFiniteSet(Workers) /\ begun \in [Workers -> Nat] /\ begun' \in [Workers -> Nat]
            /\ \A v \in Workers \ {w} : begun[v] = begun'[v]
        BY <1>1, <1>2, <2>2
      <4>2. PICK f, g : f = begun /\ g = begun'
        OBVIOUS
      <4>3. Total(g) + f[w] = Total(f) + g[w]
        BY <4>1, <4>2, TotalStep
      <4> QED
        BY <4>2, <4>3
    <3>2. Total(begun') \in Nat
      BY <1>1, <1>2, UnitsFinite
    <3> QED  BY <1>1, <1>13, <2>2, <3>1, <3>2 DEF Total, Units
  <2>4. \A v \in Workers : ~(pc[v] = "panicked" /\ v = w) /\ (pc'[v] = "panicked" <=> pc[v] = "panicked")
    BY <1>14, <2>1
  <2>5. Counted' = Counted /\ Lost' = Lost
    BY <2>1, <2>2, <2>4 DEF Counted, Lost
  <2>6. C' = C /\ D' = D /\ L' = L
    BY <2>1, <2>5 DEF Total, Units
  <2>7. Expired' = Expired
    BY <2>1 DEF Expired, past_limit
  <2>8. R = {} /\ R' = R
    BY <1>15, <2>1
  <2>9. \A n \in B : S < n
    <3>1. ~timed => S' <= config.requests
      BY <1>3 DEF BudgetKept
    <3>2. config.requests \in Nat
      BY ConfigTypes DEF ClosedInv, TypeOK
    <3> QED  BY <1>1, <2>3, <3>1, <3>2
  <2> QED  BY <1>8, <2>3, <2>6, <2>7, <2>8, <2>9
<1>21. ASSUME NEW w \in Workers, Finish(w) PROVE LoadRun!Next
  <2>1. /\ pc[w] = "call" /\ pc' = [pc EXCEPT ![w] = "head"]
        /\ UNCHANGED <<config, now, limit, begun, end_reason, count>>
    BY <1>21 DEF Finish
  <2>2. K > 0
    <3>1. Calls[w] = 1
      BY <2>1 DEF Calls, InCall
    <3>2. Calls[w] <= Total(Calls)
      BY <1>1, TotalZero
    <3> QED  BY <1>1, <3>1, <3>2
  <2>3. Expired' = Expired
    BY <2>1 DEF Expired, past_limit
  <2>4. R' = R
    BY <2>1
  <2>5. \A v \in Workers : /\ v = w => pc[v] # "panicked"
                           /\ pc'[v] = "panicked" <=> pc[v] = "panicked"
    BY <1>14, <2>1
  <2>6. S' = S
    BY <2>1 DEF Total, Units
  <2>7. CASE records(w)
    <3>1. local' = [local EXCEPT ![w] = @ + 1] /\ dropped' = dropped
      BY <1>21, <2>7 DEF Finish
    <3>2. local'[w] = local[w] + 1 /\ \A v \in Workers \ {w} : local'[v] = local[v]
      BY <3>1 DEF ClosedInv, TypeOK
    <3>3. Lost' = Lost
      BY <2>1, <2>5, <3>1 DEF Lost
    <3>4. Counted'[w] = Counted[w] + 1 /\ \A v \in Workers \ {w} : Counted[v] = Counted'[v]
      BY <2>5, <3>2 DEF Counted
    <3>5. Total(Counted') + Counted[w] = Total(Counted) + Counted'[w]
      BY <1>1, <1>2, <3>4, TotalStep
    <3>6. Total(Counted') \in Nat /\ Counted[w] \in Nat
      BY <1>1, <1>2, UnitsFinite
    <3>7. C' = C + 1
      BY <1>1, <3>4, <3>5, <3>6 DEF Total, Units
    <3>8. D' = D /\ L' = L
      BY <3>1, <3>3 DEF Total, Units
    <3> QED  BY <1>9, <2>2, <2>3, <2>4, <2>6, <3>7, <3>8
  <2>8. CASE ~records(w)
    <3>1. dropped' = [dropped EXCEPT ![w] = @ + 1] /\ local' = local
      BY <1>21, <2>8 DEF Finish
    <3>2. dropped'[w] = dropped[w] + 1 /\ \A v \in Workers \ {w} : dropped[v] = dropped'[v]
      BY <1>1, <3>1
    <3>3. Lost' = Lost /\ Counted' = Counted
      BY <2>1, <2>5, <3>1, <3>2 DEF Lost, Counted
    <3>4. Total(dropped') + dropped[w] = Total(dropped) + dropped'[w]
      BY <1>1, <1>2, <3>2, TotalStep
    <3>5. Total(dropped') \in Nat
      BY <1>1, <1>2, UnitsFinite
    <3>6. D' = D + 1
      BY <1>1, <1>13, <3>2, <3>4, <3>5 DEF Total, Units
    <3>7. C' = C /\ L' = L
      BY <3>3 DEF Total, Units
    <3>8. P = "cut" /\ Expired
      BY <2>8 DEF records, should_record_after_deadline, Expired
    <3> QED  BY <1>10, <2>2, <2>3, <2>4, <2>6, <3>6, <3>7, <3>8
  <2> QED  BY <2>7, <2>8
<1>22. ASSUME NEW w \in Workers, Panic(w) PROVE LoadRun!Next
  <2>1. /\ pc[w] = "call" /\ pc' = [pc EXCEPT ![w] = "panicked"]
        /\ UNCHANGED <<config, now, limit, begun, local, dropped, end_reason, count>>
    BY <1>22 DEF Panic
  <2>2. K > 0
    <3>1. Calls[w] = 1
      BY <2>1 DEF Calls, InCall
    <3>2. Calls[w] <= Total(Calls)
      BY <1>1, TotalZero
    <3> QED  BY <1>1, <3>1, <3>2
  <2>3. Expired' = Expired
    BY <2>1 DEF Expired, past_limit
  <2>4. R' = R
    BY <2>1
  <2>5. pc'[w] = "panicked" /\ \A v \in Workers \ {w} : pc'[v] = pc[v]
    BY <1>14, <2>1
  <2>6. S' = S /\ D' = D
    BY <2>1 DEF Total, Units
  <2>7. /\ Counted[w] = local[w] /\ Counted'[w] = 0
        /\ \A v \in Workers \ {w} : Counted[v] = Counted'[v]
    BY <2>1, <2>5 DEF Counted
  <2>8. /\ Lost[w] = 0 /\ Lost'[w] = local[w] + 1
        /\ \A v \in Workers \ {w} : Lost[v] = Lost'[v]
    <3>1. begun[w] - dropped[w] = local[w] + 1
      BY <1>13, <2>1 DEF InCall, InPanic
    <3> QED  BY <2>1, <2>5, <3>1 DEF Lost
  <2>9. Total(Counted') + Counted[w] = Total(Counted) + Counted'[w]
    <3>1. \A v \in Workers \ {w} : Counted[v] = Counted'[v]
      BY <2>7
    <3>2. Counted \in [Workers -> Nat] /\ Counted' \in [Workers -> Nat] /\ IsFiniteSet(Workers)
      BY <1>1, <1>2
    <3> QED  BY <3>1, <3>2, TotalStep
  <2>10. Total(Lost') + Lost[w] = Total(Lost) + Lost'[w]
    <3>1. \A v \in Workers \ {w} : Lost[v] = Lost'[v]
      BY <2>8
    <3>2. Lost \in [Workers -> Nat] /\ Lost' \in [Workers -> Nat] /\ IsFiniteSet(Workers)
      BY <1>1, <1>2
    <3> QED  BY <3>1, <3>2, TotalStep
  <2>11. Total(Counted') \in Nat /\ Total(Lost') \in Nat /\ local[w] <= C
    BY <1>1, <1>2, <2>7, UnitsFinite, TotalZero
  <2>12. C' = C - local[w]
    <3>1. Total(Counted') = Total(Counted) - local[w]
      BY <1>1, <1>13, <2>7, <2>9, <2>11
    <3> QED  BY <3>1 DEF Total, Units
  <2>13. L' = L + local[w] + 1
    <3>1. Total(Lost') = Total(Lost) + local[w] + 1
      BY <1>1, <1>13, <2>8, <2>10, <2>11
    <3> QED  BY <3>1 DEF Total, Units
  <2>14. local[w] \in 0..C
    BY <1>1, <1>13, <2>11
  <2> QED  BY <1>11, <2>2, <2>3, <2>4, <2>6, <2>12, <2>13, <2>14
<1>23. ASSUME NEW w \in Workers, Join(w) PROVE LoadRun!Next \/ UNCHANGED (LoadRun!vars)
  <2>1. end_reason = "none" /\ R' = R
    BY <1>23 DEF Join, ClosedInv, StopInv
  <2>2. Expired => Expired'
    BY <1>16, <1>23 DEF Join
  <2> QED  BY <1>17, <1>23, <2>1, <2>2 DEF Join
<1>24. CASE Report
  <2>1. /\ end_reason = "none" /\ end_reason' # "none" /\ joined = Workers
        /\ UNCHANGED <<config, now, pc, limit, begun, local, dropped, count>>
    BY <1>24 DEF Report, derive_end_reason
  <2>2. count = C /\ K = 0
    BY <2>1, JoinedIsIdle DEF ClosedInv
  <2>3. Counted' = Counted /\ Lost' = Lost
    BY <2>1 DEF Counted, Lost
  <2>4. S' = S /\ C' = C /\ D' = D /\ L' = L
    BY <2>1, <2>3 DEF Total, Units
  <2>5. Expired' = Expired
    BY <2>1 DEF Expired, past_limit
  <2>6. R = {} /\ R' = {C}
    BY <2>1, <2>2
  <2> QED  BY <1>12, <2>2, <2>4, <2>5, <2>6
<1>25. CASE Shutdown \/ Tick \/ UNCHANGED vars
  <2>1. /\ UNCHANGED <<pc, limit, begun, local, dropped, end_reason, count>>
        /\ now' \in {now, now + 1}
    BY <1>25 DEF Shutdown, Tick, vars
  <2>2. Expired => Expired'
    BY <1>16, <2>1
  <2> QED  BY <1>17, <2>1, <2>2
<1> HIDE DEF S, C, D, L, K, R, P, B
<1> QED
  BY <1>18, <1>19, <1>20, <1>21, <1>22, <1>23, <1>24, <1>25 DEF Next, Step

\* A closed-loop run is a load run as BenchSpec has it: every request it sent is in
\* the report, dropped by the policy or lost with a worker that panicked, and the
\* report is made once, when none is under way.
THEOREM ClosedImplements == Spec => LoadRun!Spec
<1>1. Init => LoadRun!Init
  BY BenchAssumption, InitLoadRun
<1>2. ClosedInv /\ ClosedInv' /\ BudgetKept' /\ [Next]_vars => [LoadRun!Next]_(LoadRun!vars)
  BY BenchAssumption, StepLoadRun
<1> QED  BY <1>1, <1>2, ClosedInvariant, ClosedBudget, PTL DEF Spec, LoadRun!Spec

=============================================================================
