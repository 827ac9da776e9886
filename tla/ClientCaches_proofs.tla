------------------------ MODULE ClientCaches_proofs ------------------------
(***************************************************************************)
(* For any number of clients and configurations, any schema and any bound: *)
(* the channel cache keeps its bound, one client loads at a time, no pool  *)
(* is loaded twice, and a pool loaded without a failed request holds what  *)
(* its server defines for the services asked for, and no more.             *)
(*                                                                         *)
(* IInv says that the count of a pool's loads is whether it is cached, and *)
(* that a client that loads a pool found none.  Complete says of a load    *)
(* under way that all it still needs is kept or on its stack; the loops    *)
(* over a reply and over a file's imports are recursive functions, and     *)
(* what they compute is proved by SetInduction.                            *)
(***************************************************************************)
EXTENDS ClientCaches, FiniteSetTheorems, SequenceTheorems, WellFoundedInduction, TLAPS

Loading == {"load", "channel", "create", "seed", "fetch"}

IInv ==
    /\ pc \in [Clients -> places] /\ config \in [Clients -> Configs]
    /\ loads \in [Keys("pool") -> Nat] /\ DOMAIN pools \subseteq Keys("pool")
    /\ OneLoads
    /\ \A t, u \in loading : t = u
    /\ \A k \in Keys("pool") : loads[k] = IF k \in DOMAIN pools THEN 1 ELSE 0
    /\ \A t \in loading : key(t) \notin DOMAIN pools
    /\ \A t \in Clients : pc[t] = "made" => key(t) \in DOMAIN pools

-----------------------------------------------------------------------------
(* Loading                                                                 *)

LEMMA PoolKeys == ASSUME IInv, NEW t \in Clients PROVE key(t) \in Keys("pool")
BY DEF IInv, key, Keys

LEMMA InitLoads == Init => IInv
<1> SUFFICES ASSUME Init PROVE IInv
  OBVIOUS
<1>1. (CHOOSE c \in Configs : TRUE) \in Configs
  BY CachesAssumption
<1>2. config \in [Clients -> Configs]
  BY <1>1 DEF Init
<1> QED
  BY <1>2 DEF Init, IInv, OneLoads, places

\* A step that leaves the pools and the mutex and moves one client, not to the end.
LEMMA MovesOn ==
    ASSUME IInv, NEW t \in Clients, NEW place \in places \ {"made"},
           pc' = [pc EXCEPT ![t] = place],
           UNCHANGED <<pools, loads, loading, config>>,
           t \in loading <=> place \in {"load", "seed", "fetch"} \/ (t \in loading /\ place \in Loading)
    PROVE  IInv'
BY DEF IInv, OneLoads, key, places, Loading

\* A step by which a client leaves, with or without the mutex, and fails.
LEMMA Fails ==
    ASSUME IInv, NEW t \in Clients, Fail(t), UNCHANGED <<pools, loads, config>>
    PROVE  IInv'
<1>1. pc' = [pc EXCEPT ![t] = "failed"] /\ loading' = loading \ {t}
  BY DEF Fail, Return, Goto, released
<1> QED
  BY <1>1 DEF IInv, OneLoads, key, places

\* The client that loads puts its pool in the cache, which had none.
LEMMA Inserts ==
    ASSUME IInv, NEW t \in loading, NEW files, Insert(t, files), UNCHANGED config
    PROVE  IInv'
<1>1. /\ pc' = [pc EXCEPT ![t] = "made"] /\ loading' = loading \ {t}
      /\ DOMAIN pools' = DOMAIN pools \cup {key(t)}
      /\ loads' = [loads EXCEPT ![key(t)] = @ + 1]
  BY DEF Insert, Return, Goto, released
<1>2. t \in Clients /\ key(t) \in Keys("pool") /\ key(t) \notin DOMAIN pools
  BY PoolKeys DEF IInv, OneLoads
<1>3. loading' = {}
  BY <1>1 DEF IInv
<1>4. loads' \in [Keys("pool") -> Nat] /\ DOMAIN pools' \subseteq Keys("pool")
  BY <1>1, <1>2 DEF IInv
<1>5. \A k \in Keys("pool") : loads'[k] = IF k \in DOMAIN pools' THEN 1 ELSE 0
  BY <1>1, <1>2 DEF IInv
<1>6. \A u \in Clients : pc'[u] = "made" => key(u)' \in DOMAIN pools'
  BY <1>1, <1>2 DEF IInv, key
<1>7. OneLoads'
  <2>1. \A u \in Clients : pc'[u] \notin {"load", "seed", "fetch"}
    BY <1>1, <1>2 DEF IInv, OneLoads
  <2> QED
    BY <2>1, <1>3 DEF OneLoads
<1>8. pc' \in [Clients -> places] /\ config' \in [Clients -> Configs]
  BY <1>1, <1>2 DEF IInv, places
<1> QED
  BY <1>3, <1>4, <1>5, <1>6, <1>7, <1>8 DEF IInv

LEMMA StepLoads == ASSUME IInv, NEW t \in Clients, Step(t) PROVE IInv'
<1> USE DEF Goto, Return
<1>0. pc[t] \in places /\ (pc[t] \in {"load", "seed", "fetch"} => loading = {t})
  BY DEF IInv, OneLoads
<1>1. CASE GetChannel(t)
  BY <1>1, MovesOn DEF GetChannel, after_channel, places, Loading, IInv, OneLoads
<1>2. CASE CreateChannel(t)
  <2>1. CASE ~config[t].settings_ok
    BY <1>2, <2>1, Fails DEF CreateChannel
  <2>2. CASE config[t].settings_ok
    BY <1>2, <2>2, MovesOn DEF CreateChannel, after_channel, places, Loading, IInv, OneLoads
  <2> QED
    BY <2>1, <2>2
<1>3. CASE GetPool(t)
  <2>1. t \notin loading
    BY <1>3 DEF GetPool, IInv, OneLoads
  <2>2. CASE key(t) \in DOMAIN pools
    BY <1>3, <2>1, <2>2 DEF GetPool, IInv, OneLoads, key, places
  <2>3. CASE key(t) \notin DOMAIN pools
    BY <1>3, <2>1, <2>3, MovesOn DEF GetPool, places, Loading
  <2> QED
    BY <2>2, <2>3
<1>4. CASE Lock(t)
  <2>1. CASE loaded_meanwhile(t)
    BY <1>4, <2>1 DEF Lock, loaded_meanwhile, IInv, OneLoads, key, places
  <2>2. CASE ~loaded_meanwhile(t)
    BY <1>4, <2>2 DEF Lock, loaded_meanwhile, IInv, OneLoads, key, places
  <2> QED
    BY <2>1, <2>2
<1>5. CASE LoadFile(t)
  <2>1. CASE Insert(t, Files)
    BY <1>0, <1>5, <2>1, Inserts DEF LoadFile
  <2>2. CASE Fail(t) /\ UNCHANGED <<pools, loads>>
    BY <1>5, <2>2, Fails DEF LoadFile
  <2>3. CASE Goto(t, "channel") /\ UNCHANGED <<pools, loads, loading>>
    BY <1>0, <1>5, <2>3, MovesOn DEF LoadFile, places, Loading
  <2> QED
    BY <1>5, <2>1, <2>2, <2>3 DEF LoadFile
<1>6. CASE Seed(t)
  BY <1>0, <1>6, MovesOn DEF Seed, places, Loading
<1>7. CASE Fetch(t) \/ FetchAll(t)
  <2>1. UNCHANGED <<pools, loads, loading, client>>
    BY <1>7 DEF Fetch, FetchAll
  <2> QED
    BY <2>1 DEF client, IInv, OneLoads, key
<1>8. CASE Build(t)
  <2>1. CASE Insert(t, processed)
    BY <1>0, <1>8, <2>1, Inserts DEF Build
  <2>2. CASE Fail(t) /\ UNCHANGED <<pools, loads>>
    BY <1>8, <2>2, Fails DEF Build
  <2> QED
    BY <1>8, <2>1, <2>2 DEF Build
<1> QED
  BY <1>1, <1>2, <1>3, <1>4, <1>5, <1>6, <1>7, <1>8 DEF Step

LEMMA NewLoads == ASSUME IInv, NEW t \in Clients, NEW c \in Configs, New(t, c) PROVE IInv'
<1>1. /\ pc[t] \in {"idle", "made", "failed"} /\ config' = [config EXCEPT ![t] = c]
      /\ \E place \in {"channel", "failed"} : pc' = [pc EXCEPT ![t] = place]
      /\ UNCHANGED <<pools, loads, loading>>
  BY DEF New, Goto, Return
<1>2. t \notin loading
  BY <1>1 DEF IInv, OneLoads
<1> QED
  BY <1>1, <1>2 DEF IInv, OneLoads, key, places

LEMMA NextLoads == IInv /\ [Next]_vars => IInv'
<1>1. ASSUME IInv, UNCHANGED vars PROVE IInv'
  BY <1>1 DEF vars, client, IInv, OneLoads, key
<1> QED
  BY <1>1, StepLoads, NewLoads DEF Next

-----------------------------------------------------------------------------
(* Channels                                                                *)

BInv == IsFiniteSet(channels) /\ config \in [Clients -> Configs] /\ ChannelsBounded

LEMMA CreateBounded == ASSUME BInv, NEW t \in Clients, CreateChannel(t) PROVE BInv'
<1>1. config' = config /\ config[t].channel \in Keys("channel")
  BY DEF CreateChannel, BInv, Keys
<1>2. CASE channels' = channels
  BY <1>1, <1>2 DEF BInv, ChannelsBounded
<1>3. CASE channels' = with_room(channels) \cup {config[t].channel}
  <2>1. /\ with_room(channels) \subseteq channels /\ IsFiniteSet(with_room(channels))
        /\ Cardinality(with_room(channels)) < MaxEntries
        /\ Cardinality(with_room(channels)) \in Nat
    BY FS_EmptySet, FS_CardinalityType, CachesAssumption DEF with_room, BInv
  <2>2. /\ IsFiniteSet(channels')
        /\ Cardinality(channels') <= Cardinality(with_room(channels)) + 1
        /\ Cardinality(channels') \in Nat
    <3> DEFINE held == with_room(channels)
               new == config[t].channel
    <3>1. IsFiniteSet(held) /\ Cardinality(held) \in Nat
      BY <2>1
    <3> HIDE DEF held, new
    <3>2. /\ IsFiniteSet(held \cup {new})
          /\ Cardinality(held \cup {new}) = Cardinality(held)
                \/ Cardinality(held \cup {new}) = Cardinality(held) + 1
      BY <3>1, FS_AddElement
    <3> QED
      BY <1>3, <3>1, <3>2 DEF held, new
  <2>3. Cardinality(channels') <= MaxEntries
    BY <2>1, <2>2, CachesAssumption
  <2> QED
    BY <1>1, <1>3, <2>1, <2>2, <2>3 DEF BInv, ChannelsBounded
<1> QED
  BY <1>2, <1>3 DEF CreateChannel

LEMMA NextBounded == BInv /\ [Next]_vars => BInv'
<1> SUFFICES ASSUME BInv, [Next]_vars PROVE BInv'
  OBVIOUS
<1>1. CASE UNCHANGED vars
  BY <1>1 DEF vars, client, BInv, ChannelsBounded
<1>2. ASSUME NEW t \in Clients, NEW c \in Configs, New(t, c) PROVE BInv'
  BY <1>2 DEF New, BInv, ChannelsBounded
<1>3. ASSUME NEW t \in Clients, Step(t) PROVE BInv'
  <2>1. CASE CreateChannel(t)
    BY <2>1, CreateBounded
  <2>2. CASE ~CreateChannel(t)
    <3>1. UNCHANGED <<channels, config>>
      BY <1>3, <2>2 DEF Step, GetChannel, GetPool, Lock, LoadFile, Seed, Fetch, FetchAll, Build, client
    <3> QED
      BY <3>1 DEF BInv, ChannelsBounded
  <2> QED
    BY <2>1, <2>2
<1> QED
  BY <1>1, <1>2, <1>3 DEF Next

-----------------------------------------------------------------------------
(* What they promise                                                       *)

\* Who loads and what has been loaded agree with the cache.
THEOREM LoadsInvariant == Spec => []IInv
<1> QED
  BY InitLoads, NextLoads, PTL DEF Spec

\* However many clients miss a pool at the same time it is loaded once, by one client.
THEOREM PoolsLoadedOnce == Spec => [](LoadedOnce /\ OneLoads)
<1>1. IInv => LoadedOnce /\ OneLoads
  BY DEF IInv, LoadedOnce
<1> QED
  BY <1>1, LoadsInvariant, PTL

\* The channel cache never holds more than its bound, whoever inserts when.
THEOREM ChannelCacheBounded == Spec => []ChannelsBounded
<1>1. Init => BInv
  <2>1. (CHOOSE c \in Configs : TRUE) \in Configs
    BY CachesAssumption
  <2> QED
    BY <2>1, FS_EmptySet, CachesAssumption DEF Init, BInv, ChannelsBounded
<1>2. BInv => ChannelsBounded
  BY DEF BInv
<1> QED
  BY <1>1, <1>2, NextBounded, PTL DEF Spec

-----------------------------------------------------------------------------
(* Induction                                                               *)

\* What is on the stack of a load: services and files.
Names == Files \cup Services

Work == [done : SUBSET Files, stack : Seq(Names)]

\* A set of numbers that holds 0, and with each number the next, holds them all.
LEMMA SetInduction ==
    ASSUME NEW S, 0 \in S, \A n \in Nat : n \in S => n + 1 \in S
    PROVE  \A n \in Nat : n \in S
<1> SUFFICES ASSUME NEW n \in Nat, n \notin S PROVE FALSE
  OBVIOUS
<1> DEFINE out == Nat \ S
<1>1. out \subseteq Nat /\ out # {}
  OBVIOUS
<1> HIDE DEF out
<1>2. PICK m \in out : \A k \in out : ~(<<k, m>> \in OpToRel(<, Nat))
  BY <1>1, NatLessThanWellFounded, WFMin, Zenon
<1>3. \A k \in out : ~(k < m)
  BY <1>1, <1>2, Zenon DEF OpToRel
<1>4. m # 0 /\ m \in Nat
  BY <1>2, <1>1 DEF out
<1>5. m - 1 \in Nat /\ m - 1 < m /\ (m - 1) + 1 = m
  BY <1>4
<1>6. m - 1 \in S
  BY <1>3, <1>5 DEF out
<1> QED
  BY <1>2, <1>5, <1>6 DEF out

-----------------------------------------------------------------------------
(* Sequences and what is in them                                           *)

LEMMA RangeEmpty == Range(<<>>) = {}
BY EmptySeq DEF Range

LEMMA RangeOne == \A x : Range(<<x>>) = {x}
BY DEF Range

LEMMA RangeConcat ==
    ASSUME NEW S, NEW s \in Seq(S), NEW t \in Seq(S)
    PROVE  s \o t \in Seq(S) /\ Range(s \o t) = Range(s) \cup Range(t)
BY ConcatProperties, RangeConcatenation

LEMMA RangeTop ==
    ASSUME NEW S, NEW s \in Seq(S), s # <<>>
    PROVE  /\ Front(s) \in Seq(S) /\ Last(s) \in S
           /\ Range(s) = Range(Front(s)) \cup {Last(s)}
<1>1. Len(s) \in Nat \ {0} /\ DOMAIN s = 1..Len(s)
  BY EmptySeq, LenProperties
<1> DEFINE f == Front(s)
<1>2. /\ f \in Seq(S) /\ Len(f) = Len(s) - 1 /\ DOMAIN f = 1..Len(f)
      /\ \A i \in 1..(Len(s) - 1) : f[i] = s[i]
  BY <1>1, SubSeqProperties, LenProperties DEF Front
<1>3. Last(s) \in S
  BY <1>1, ElementOfSeq DEF Last
<1> HIDE DEF f
<1>4. \A i \in DOMAIN s : i \in DOMAIN f \/ i = Len(s)
  BY <1>1, <1>2
<1>5. \A i \in DOMAIN f : i \in DOMAIN s /\ f[i] = s[i]
  BY <1>1, <1>2
<1>6. Range(s) = Range(f) \cup {s[Len(s)]}
  BY <1>1, <1>4, <1>5 DEF Range
<1> QED
  BY <1>2, <1>3, <1>6 DEF f, Last

\* The elements of a finite set in some order.
LEMMA SetAsSeq ==
    ASSUME NEW S, IsFiniteSet(S)
    PROVE  SetToSeq(S) \in Seq(S) /\ Range(SetToSeq(S)) = S
<1> DEFINE n == Cardinality(S)
<1>1. n \in Nat /\ Cardinality(1..n) = n /\ IsFiniteSet(1..n)
  <2>1. n \in Nat
    BY FS_CardinalityType
  <2> QED
    BY <2>1, FS_Interval
<1>2. PICK g : g \in Bijection(1..n, S)
  BY FS_CardinalityType DEF ExistsBijection
<1>3. g \in [1..n -> S] /\ IsInjective(g)
  BY <1>2 DEF Bijection, Injection, IsInjective
<1> DEFINE f == SetToSeq(S)
<1>4. f \in [1..n -> S] /\ IsInjective(f)
  BY <1>3 DEF SetToSeq
<1> HIDE DEF f, n
<1>5. Range(f) \subseteq S /\ DOMAIN f = 1..n
  BY <1>4 DEF Range
<1>6. f \in Surjection(1..n, Range(f)) /\ f \in Injection(1..n, Range(f))
  BY <1>4 DEF Range, Surjection, Injection, IsInjective
<1>7. Cardinality(Range(f)) = n
  BY <1>1, <1>6, FS_Surjection
<1>8. Range(f) = S
  BY <1>5, <1>7, FS_Subset DEF n
<1>9. f \in Seq(S)
  BY <1>1, <1>4, SeqDef
<1> QED
  BY <1>8, <1>9 DEF f

-----------------------------------------------------------------------------
(* The files of a reply                                                    *)

\* What with_dependencies chooses: the stacks after each of the first n files.
IsPushed(g, stack, deps, done, n) ==
    g = [k \in 0..n |-> IF k = 0 THEN stack ELSE push(g[k - 1], deps[k], done)]

\* The recursion of with_dependencies has a solution.
LEMMA PushedExists ==
    ASSUME NEW stack, NEW deps, NEW done, NEW n \in Nat
    PROVE  \E g : IsPushed(g, stack, deps, done, n)
<1> DEFINE at(g, k) == IF k = 0 THEN stack ELSE push(g[k - 1], deps[k], done)
           S == {m \in Nat : \E g : g = [k \in 0..m |-> at(g, k)]}
<1>1. 0 \in S
  <2> DEFINE g == [k \in 0..0 |-> stack]
  <2>1. g = [k \in 0..0 |-> at(g, k)]
    OBVIOUS
  <2> QED
    BY <2>1
<1>2. ASSUME NEW m \in Nat, m \in S PROVE m + 1 \in S
  <2>1. PICK g : g = [k \in 0..m |-> at(g, k)]
    BY <1>2
  <2> DEFINE h == [k \in 0..(m + 1) |->
                     IF k = m + 1 THEN push(g[m], deps[m + 1], done) ELSE g[k]]
  <2>2. ASSUME NEW k \in 0..(m + 1) PROVE h[k] = at(h, k)
    <3>1. CASE k = m + 1
      BY <3>1
    <3>2. CASE k \in 0..m
      <4>1. h[k] = g[k] /\ (k # 0 => h[k - 1] = g[k - 1])
        BY <3>2
      <4>2. g[k] = at(g, k)
        BY <2>1, <3>2
      <4> QED
        BY <4>1, <4>2
    <3> QED
      BY <3>1, <3>2
  <2>3. h = [k \in 0..(m + 1) |-> at(h, k)]
    BY <2>2
  <2> HIDE DEF h
  <2> QED
    BY <2>3
<1>3. n \in S
  <2> HIDE DEF S
  <2> QED
    BY <1>1, <1>2, SetInduction
<1> QED
  BY <1>3 DEF IsPushed

\* The files a file imports join the stack, but for those at hand.
LEMMA PushedFiles ==
    ASSUME NEW f \in Files, NEW done, NEW stack \in Seq(Names)
    PROVE  /\ with_dependencies(stack, f, done) \in Seq(Names)
           /\ Range(with_dependencies(stack, f, done)) = Range(stack) \cup (Range(Dependencies[f]) \ done)
<1> DEFINE deps == Dependencies[f]
           n == Len(deps)
           g == CHOOSE g : g = [k \in 0..n |-> IF k = 0 THEN stack ELSE push(g[k - 1], deps[k], done)]
<1>1. deps \in Seq(Files) /\ n \in Nat /\ DOMAIN deps = 1..n /\ \A k \in 1..n : deps[k] \in Files
  <2>1. deps \in Seq(Files)
    BY CachesAssumption
  <2> QED
    BY <2>1, LenProperties, ElementOfSeq
<1>2. g = [k \in 0..n |-> IF k = 0 THEN stack ELSE push(g[k - 1], deps[k], done)]
  <2> HIDE DEF deps, n
  <2>1. \E h : IsPushed(h, stack, deps, done, n)
    BY <1>1, PushedExists
  <2>2. IsPushed(CHOOSE h : IsPushed(h, stack, deps, done, n), stack, deps, done, n)
    BY <2>1
  <2> QED
    BY <2>2 DEF IsPushed
<1>3. with_dependencies(stack, f, done) = g[n]
  BY DEF with_dependencies
<1> HIDE DEF g, deps, n
<1>4. g[0] = stack /\ \A k \in 1..n : g[k] = push(g[k - 1], deps[k], done)
  BY <1>1, <1>2
<1>5. ASSUME NEW s \in Seq(Names), NEW k \in 1..n
      PROVE  push(s, deps[k], done) \in Seq(Names) /\ Range(push(s, deps[k], done)) = Range(s) \cup ({deps[k]} \ done)
  <2>1. deps[k] \in Names
    BY <1>1 DEF Names
  <2>2. CASE deps[k] \in done
    BY <2>2 DEF push
  <2>3. CASE deps[k] \notin done
    <3>1. push(s, deps[k], done) = s \o <<deps[k]>> /\ <<deps[k]>> \in Seq(Names)
      BY <2>1, <2>3, AppendIsConcat DEF push
    <3>2. Range(s \o <<deps[k]>>) = Range(s) \cup Range(<<deps[k]>>) /\ s \o <<deps[k]>> \in Seq(Names)
      BY <3>1, RangeConcat
    <3>3. Range(<<deps[k]>>) = {deps[k]}
      BY RangeOne
    <3> QED
      BY <2>3, <3>1, <3>2, <3>3
  <2> QED
    BY <2>2, <2>3
<1> DEFINE sofar(k) == Range(stack) \cup ({deps[m] : m \in 1..k} \ done)
           S == {k \in Nat : k <= n => g[k] \in Seq(Names) /\ Range(g[k]) = sofar(k)}
<1>6. 0 \in S
  BY <1>4
<1>7. ASSUME NEW k \in Nat, k \in S PROVE k + 1 \in S
  <2> SUFFICES ASSUME k + 1 <= n
               PROVE  g[k + 1] \in Seq(Names) /\ Range(g[k + 1]) = sofar(k + 1)
    OBVIOUS
  <2>1. k + 1 \in 1..n /\ k <= n /\ (k + 1) - 1 = k
    BY <1>1
  <2>2. g[k] \in Seq(Names) /\ Range(g[k]) = sofar(k)
    BY <1>7, <2>1
  <2>3. g[k + 1] = push(g[k], deps[k + 1], done)
    BY <1>4, <2>1
  <2>4. g[k + 1] \in Seq(Names) /\ Range(g[k + 1]) = Range(g[k]) \cup ({deps[k + 1]} \ done)
    BY <1>5, <2>1, <2>2, <2>3
  <2>5. 1..(k + 1) = 1..k \cup {k + 1}
    OBVIOUS
  <2>6. {deps[m] : m \in 1..(k + 1)} = {deps[m] : m \in 1..k} \cup {deps[k + 1]}
    BY <2>5
  <2> QED
    BY <2>2, <2>4, <2>6
<1>8. n \in S
  <2> HIDE DEF S
  <2> QED
    BY <1>1, <1>6, <1>7, SetInduction
<1>9. {deps[m] : m \in 1..n} = Range(deps)
  BY <1>1 DEF Range
<1> QED
  BY <1>1, <1>3, <1>8, <1>9 DEF deps

\* What keeping a file does to the work of a load.
LEMMA KeptFile ==
    ASSUME NEW w \in Work, NEW f \in Files
    PROVE  /\ Keep(w, f) \in Work
           /\ Keep(w, f).done = w.done \cup {f}
           /\ Range(w.stack) \subseteq Range(Keep(w, f).stack)
           /\ Range(Keep(w, f).stack) \subseteq Range(w.stack) \cup Range(Dependencies[f])
           /\ f \in w.done \/ Range(Dependencies[f]) \subseteq Keep(w, f).done \cup Range(Keep(w, f).stack)
<1>1. w.done \subseteq Files /\ w.stack \in Seq(Names)
  BY DEF Work
<1>2. CASE f \in w.done
  BY <1>1, <1>2 DEF Keep
<1>3. CASE f \notin w.done
  <2> DEFINE pushed == with_dependencies(w.stack, f, w.done \cup {f})
  <2>1. /\ pushed \in Seq(Names)
        /\ Range(pushed) = Range(w.stack) \cup (Range(Dependencies[f]) \ (w.done \cup {f}))
    BY <1>1, PushedFiles
  <2> HIDE DEF pushed
  <2>2. Keep(w, f) = [done |-> w.done \cup {f}, stack |-> pushed]
    BY <1>3 DEF Keep, pushed
  <2> QED
    BY <1>1, <2>1, <2>2 DEF Work
<1> QED
  BY <1>2, <1>3

\* The recursion of KeepAll has a solution.
LEMMA KeptExists ==
    ASSUME NEW w, NEW reply, NEW n \in Nat
    PROVE  \E g : g = [k \in 0..n |-> IF k = 0 THEN w ELSE Keep(g[k - 1], reply[k])]
<1> DEFINE at(g, k) == IF k = 0 THEN w ELSE Keep(g[k - 1], reply[k])
           S == {m \in Nat : \E g : g = [k \in 0..m |-> at(g, k)]}
<1>1. 0 \in S
  <2> DEFINE g == [k \in 0..0 |-> w]
  <2>1. g = [k \in 0..0 |-> at(g, k)]
    OBVIOUS
  <2> QED
    BY <2>1
<1>2. ASSUME NEW m \in Nat, m \in S PROVE m + 1 \in S
  <2>1. PICK g : g = [k \in 0..m |-> at(g, k)]
    BY <1>2
  <2> DEFINE h == [k \in 0..(m + 1) |-> IF k = m + 1 THEN Keep(g[m], reply[m + 1]) ELSE g[k]]
  <2>2. ASSUME NEW k \in 0..(m + 1) PROVE h[k] = at(h, k)
    <3>1. CASE k = m + 1
      BY <3>1
    <3>2. CASE k \in 0..m
      <4>1. h[k] = g[k] /\ (k # 0 => h[k - 1] = g[k - 1])
        BY <3>2
      <4>2. g[k] = at(g, k)
        BY <2>1, <3>2
      <4> QED
        BY <4>1, <4>2
    <3> QED
      BY <3>1, <3>2
  <2>3. h = [k \in 0..(m + 1) |-> at(h, k)]
    BY <2>2
  <2> HIDE DEF h
  <2> QED
    BY <2>3
<1>3. n \in S
  <2> HIDE DEF S
  <2> QED
    BY <1>1, <1>2, SetInduction
<1> QED
  BY <1>3

\* A reply's files are kept, what they import is kept or asked for, and nothing else.
KeepsAll(w, files, r) ==
    /\ r \in Work
    /\ r.done = w.done \cup files
    /\ Range(w.stack) \subseteq Range(r.stack)
    /\ \A x \in Range(r.stack) : x \in Range(w.stack) \/ \E f \in files : x \in Range(Dependencies[f])
    /\ \A f \in files : f \in w.done \/ Range(Dependencies[f]) \subseteq r.done \cup Range(r.stack)

LEMMA KeptReply ==
    ASSUME NEW w \in Work, NEW reply \in Seq(Files)
    PROVE  KeepsAll(w, Range(reply), KeepAll(w, reply))
<1> DEFINE n == Len(reply)
           g == CHOOSE g : g = [k \in 0..n |-> IF k = 0 THEN w ELSE Keep(g[k - 1], reply[k])]
           upto(k) == {reply[m] : m \in 1..k}
<1>1. n \in Nat /\ DOMAIN reply = 1..n /\ \A k \in 1..n : reply[k] \in Files
  BY LenProperties, ElementOfSeq
<1>2. g = [k \in 0..n |-> IF k = 0 THEN w ELSE Keep(g[k - 1], reply[k])]
  BY <1>1, KeptExists
<1>3. KeepAll(w, reply) = g[n]
  BY DEF KeepAll
<1> HIDE DEF g, n
<1>4. g[0] = w /\ \A k \in 1..n : g[k] = Keep(g[k - 1], reply[k])
  BY <1>1, <1>2
<1> DEFINE S == {k \in Nat : k <= n => KeepsAll(w, upto(k), g[k])}
<1>5. 0 \in S
  <2>1. upto(0) = {}
    OBVIOUS
  <2> QED
    BY <1>4, <2>1 DEF KeepsAll
<1>6. ASSUME NEW k \in Nat, k \in S PROVE k + 1 \in S
  <2> SUFFICES ASSUME k + 1 <= n PROVE KeepsAll(w, upto(k + 1), g[k + 1])
    OBVIOUS
  <2>1. k + 1 \in 1..n /\ k <= n /\ (k + 1) - 1 = k
    BY <1>1
  <2>2. KeepsAll(w, upto(k), g[k]) /\ reply[k + 1] \in Files
    BY <1>1, <1>6, <2>1
  <2>3. g[k + 1] = Keep(g[k], reply[k + 1])
    BY <1>4, <2>1
  <2>4. upto(k + 1) = upto(k) \cup {reply[k + 1]}
    <3>1. 1..(k + 1) = 1..k \cup {k + 1}
      OBVIOUS
    <3> QED
      BY <3>1
  <2> DEFINE before == upto(k)
             f == reply[k + 1]
             r == g[k]
             s == g[k + 1]
  <2>5. /\ KeepsAll(w, before, r) /\ f \in Files /\ upto(k + 1) = before \cup {f}
        /\ s \in Work /\ s.done = r.done \cup {f} /\ Range(r.stack) \subseteq Range(s.stack)
        /\ Range(s.stack) \subseteq Range(r.stack) \cup Range(Dependencies[f])
        /\ f \in r.done \/ Range(Dependencies[f]) \subseteq s.done \cup Range(s.stack)
    <3>1. r \in Work
      BY <2>2 DEF KeepsAll
    <3> HIDE DEF before, f, r, upto
    <3>2. s = Keep(r, f) /\ f \in Files
      BY <2>2, <2>3 DEF r, f
    <3>3. KeepsAll(w, before, r) /\ upto(k + 1) = before \cup {f}
      BY <2>2, <2>4 DEF before, r, f
    <3> HIDE DEF s
    <3> QED
      BY <3>1, <3>2, <3>3, KeptFile
  <2> HIDE DEF before, f, r, s, upto
  <2>6. /\ s \in Work /\ s.done = w.done \cup (before \cup {f})
        /\ Range(w.stack) \subseteq Range(s.stack)
    BY <2>5 DEF KeepsAll
  <2>7. \A x \in Range(s.stack) :
           x \in Range(w.stack) \/ \E y \in before \cup {f} : x \in Range(Dependencies[y])
    BY <2>5 DEF KeepsAll
  <2>8. ASSUME NEW y \in before \cup {f}
        PROVE  y \in w.done \/ Range(Dependencies[y]) \subseteq s.done \cup Range(s.stack)
    <3>1. CASE y \in before
      BY <2>5, <3>1 DEF KeepsAll
    <3>2. CASE y = f /\ y \notin before
      <4>1. y \in r.done => y \in w.done
        BY <2>5, <3>2 DEF KeepsAll
      <4> QED
        BY <2>5, <3>2, <4>1
    <3> QED
      BY <3>1, <3>2
  <2> QED
    BY <2>5, <2>6, <2>7, <2>8 DEF KeepsAll, s
<1>7. n \in S
  <2> HIDE DEF S
  <2> QED
    BY <1>1, <1>5, <1>6, SetInduction
<1>8. upto(n) = Range(reply)
  BY <1>1 DEF Range
<1> HIDE DEF upto
<1>9. KeepsAll(w, upto(n), g[n])
  BY <1>1, <1>7
<1> QED
  BY <1>3, <1>8, <1>9 DEF n

-----------------------------------------------------------------------------
(* What files import, and replies                                          *)

LEMMA ImportedFacts ==
    ASSUME NEW files \in SUBSET Files
    PROVE  /\ Imported(files) \subseteq Files /\ files \subseteq Imported(files)
           /\ ClosedUnderImport(Imported(files))
           /\ \A S \in SUBSET Files : files \subseteq S /\ ClosedUnderImport(S) => Imported(files) \subseteq S
<1>1. Imported(files) \subseteq Files /\ files \subseteq Imported(files)
  BY DEF Imported
<1>2. \A S \in SUBSET Files : files \subseteq S /\ ClosedUnderImport(S) => Imported(files) \subseteq S
  BY DEF Imported
<1>3. ASSUME NEW f \in Imported(files), NEW d \in Range(Dependencies[f]) PROVE d \in Imported(files)
  <2>1. d \in Files
    BY <1>1, CachesAssumption, RangeOfSeq
  <2> SUFFICES ASSUME NEW S \in SUBSET Files, files \subseteq S, ClosedUnderImport(S) PROVE d \in S
    BY <2>1 DEF Imported
  <2> QED
    BY <1>2, <1>3 DEF ClosedUnderImport
<1> QED
  BY <1>1, <1>2, <1>3 DEF ClosedUnderImport

\* Files out of a closed set import nothing from outside it.
LEMMA ImportedWithin ==
    ASSUME NEW files \in SUBSET Files, NEW f \in Imported(files)
    PROVE  f \in Files /\ Imported({f}) \subseteq Imported(files)
BY ImportedFacts

LEMMA RangeBefore ==
    ASSUME NEW S, NEW f \in S, NEW rest \in Seq(S)
    PROVE  <<f>> \o rest \in Seq(S) /\ Range(<<f>> \o rest) = {f} \cup Range(rest)
<1> DEFINE one == <<f>>
<1>1. one \in Seq(S) /\ Range(one) = {f}
  BY RangeOne
<1> HIDE DEF one
<1>2. one \o rest \in Seq(S) /\ Range(one \o rest) = Range(one) \cup Range(rest)
  BY <1>1, RangeConcat
<1>3. one \o rest \in Seq(S) /\ Range(one \o rest) = {f} \cup Range(rest)
  BY <1>1, <1>2
<1> QED
  BY <1>3 DEF one

\* A reply's files are those asked for and what they import.
LEMMA ReplyFiles ==
    ASSUME NEW t \in Clients, NEW name \in Names, NEW reply \in Replies(t, name)
    PROVE  /\ reply \in Seq(Files)
           /\ name \in Files => name \in Range(reply) /\ Range(reply) \subseteq Imported({name})
           /\ name \notin Files /\ name \in config[t].answers =>
                FileOf[name] \in Range(reply) /\ Range(reply) \subseteq Imported({FileOf[name]})
           /\ name \notin Files /\ name \notin config[t].answers => Range(reply) = {}
<1>1. ASSUME NEW f \in Files, NEW r \in {<<f>>, <<f>> \o SetToSeq(Imported({f}) \ {f})}
      PROVE  r \in Seq(Files) /\ f \in Range(r) /\ Range(r) \subseteq Imported({f})
  <2> DEFINE more == Imported({f}) \ {f}
  <2>1. more \subseteq Files /\ f \in Imported({f}) /\ <<f>> \in Seq(Files) /\ Range(<<f>>) = {f}
    BY ImportedFacts, RangeOne
  <2>2. IsFiniteSet(more)
    BY <2>1, FS_Subset, CachesAssumption
  <2>3. SetToSeq(more) \in Seq(Files) /\ Range(SetToSeq(more)) = more
    BY <2>1, <2>2, SetAsSeq, SeqMonotonic
  <2> DEFINE rest == SetToSeq(more)
  <2>4. <<f>> \o rest \in Seq(Files) /\ Range(<<f>> \o rest) = {f} \cup more
    <3>1. rest \in Seq(Files) /\ Range(rest) = more
      BY <2>3
    <3> HIDE DEF rest, more
    <3>2. <<f>> \o rest \in Seq(Files) /\ Range(<<f>> \o rest) = {f} \cup Range(rest)
      BY <3>1, RangeBefore, Zenon
    <3> QED
      BY <3>1, <3>2, Zenon
  <2> QED
    BY <1>1, <2>1, <2>4
<1>2. CASE name \in Files
  BY <1>1, <1>2 DEF Replies
<1>3. CASE name \notin Files /\ name \in config[t].answers
  <2>1. FileOf[name] \in Files
    BY <1>3, CachesAssumption DEF Names
  <2> QED
    BY <1>1, <1>3, <2>1 DEF Replies
<1>4. CASE name \notin Files /\ name \notin config[t].answers
  BY <1>4, RangeEmpty, EmptySeq DEF Replies
<1> QED
  BY <1>2, <1>3, <1>4

-----------------------------------------------------------------------------
(* A load by reflection                                                    *)

\* The services a load asks for, of which it gets those the server answers for.
Asked(c, all) == IF all THEN Range(c.listed) ELSE c.target

\* Without a failed request, a load has what it was asked for or has it on its stack,
\* and nothing else; it asks for all that is listed only for want of the target.
Complete(c) ==
    LET answered == Asked(c, asked_all) \cap c.answers
        stacked == Range(files_to_process)
    IN  /\ asked_all /\ c.target # {} => c.target \cap c.answers = {}
        /\ processed \subseteq Definitions(answered)
        /\ stacked \cap Files \subseteq Definitions(answered)
        /\ stacked \cap Services \subseteq Asked(c, asked_all)
        /\ \A f \in processed : Range(Dependencies[f]) \subseteq processed \cup stacked
        /\ \A s \in answered : FileOf[s] \in processed \/ s \in stacked

Reflecting(t) == pc[t] \in {"seed", "fetch"} \/ (t \in loading /\ pc[t] \in {"channel", "create"})

FetchInv ==
    /\ processed \subseteq Files /\ files_to_process \in Seq(Names)
    /\ (\A t \in Clients : pc[t] # "fetch") => processed = {}
    /\ \A t \in Clients : Reflecting(t) => config[t].source = "reflection"
    /\ \A t \in Clients : pc[t] = "fetch" =>
          /\ config[t].target = {} => asked_all
          /\ missed \/ Complete(config[t])

PoolInv ==
    /\ \A k \in DOMAIN pools : pools[k] \subseteq Files
    /\ PoolIsComplete

LEMMA FileOfService == \A s \in Services : FileOf[s] \in Files
BY CachesAssumption

LEMMA AskedFiles ==
    ASSUME NEW c \in Configs, NEW all
    PROVE  /\ Asked(c, all) \subseteq Services
           /\ {FileOf[s] : s \in Asked(c, all) \cap c.answers} \subseteq Files
<1>1. Asked(c, all) \subseteq Services
  BY CachesAssumption, RangeOfSeq DEF Asked
<1> QED
  BY <1>1, FileOfService

\* The stack a load starts from: what it asks for, with nothing kept so far.
LEMMA StartsComplete ==
    ASSUME NEW c \in Configs, processed' = {}, files_to_process' \in Seq(Services),
           Range(files_to_process') = Asked(c, asked_all'),
           asked_all' /\ c.target # {} => c.target \cap c.answers = {}
    PROVE  Complete(c)'
<1>1. Asked(c, asked_all') \subseteq Services /\ Services \cap Files = {}
  BY AskedFiles, CachesAssumption
<1>2. Asked(c, asked_all)' = Asked(c, asked_all')
  BY DEF Asked
<1> QED
  BY <1>1, <1>2 DEF Complete

\* A name on top of the stack that needs no request.
LEMMA PassesOver ==
    ASSUME NEW c \in Configs, FetchInv, Complete(c), files_to_process # <<>>,
           Last(files_to_process) \in processed, files_to_process' = Front(files_to_process),
           UNCHANGED <<processed, asked_all>>
    PROVE  Complete(c)'
<1>1. Range(files_to_process) = Range(files_to_process') \cup {Last(files_to_process)}
  BY RangeTop DEF FetchInv
<1>2. Last(files_to_process) \in Files /\ Files \cap Services = {}
  BY CachesAssumption DEF FetchInv
<1>3. Asked(c, asked_all)' = Asked(c, asked_all) /\ Asked(c, asked_all) \subseteq Services
  BY AskedFiles DEF Asked
<1> QED
  BY <1>1, <1>2, <1>3 DEF Complete

\* A name on top of the stack for which a request is answered.
LEMMA Answered ==
    ASSUME FetchInv, NEW t \in Clients, config[t] \in Configs, Complete(config[t]),
           files_to_process # <<>>,
           NEW reply \in Replies(t, Last(files_to_process)), NEW work,
           KeepsAll([done |-> processed, stack |-> Front(files_to_process)], Range(reply), work),
           processed' = work.done, files_to_process' = work.stack,
           UNCHANGED <<asked_all, config>>
    PROVE  Complete(config[t])'
<1> DEFINE c == config[t]
           name == Last(files_to_process)
           rest == Front(files_to_process)
           answered == Asked(c, asked_all) \cap c.answers
           wanted == {FileOf[s] : s \in answered}
           got == Range(reply)
           before == Range(rest)
           after == Range(files_to_process')
<1>1. /\ rest \in Seq(Names) /\ name \in Names /\ Range(files_to_process) = before \cup {name}
  BY RangeTop DEF FetchInv
<1>2. /\ processed' = processed \cup got /\ before \subseteq after
      /\ \A x \in after : x \in before \/ \E f \in got : x \in Range(Dependencies[f])
      /\ \A f \in got : f \in processed \/ Range(Dependencies[f]) \subseteq processed' \cup after
  BY DEF KeepsAll
<1>3. /\ reply \in Seq(Files)
      /\ name \in Files => name \in got /\ got \subseteq Imported({name})
      /\ name \notin Files /\ name \in c.answers =>
            FileOf[name] \in got /\ got \subseteq Imported({FileOf[name]})
      /\ name \notin Files /\ name \notin c.answers => got = {}
  BY <1>1, ReplyFiles
<1>4. /\ wanted \subseteq Files /\ Asked(c, asked_all) \subseteq Services /\ Files \cap Services = {}
      /\ Definitions(answered) = Imported(wanted)
      /\ Asked(c, asked_all)' = Asked(c, asked_all) /\ c' = c
  BY AskedFiles, CachesAssumption DEF Definitions, Asked
<1>5. /\ asked_all /\ c.target # {} => c.target \cap c.answers = {}
      /\ processed \subseteq Imported(wanted)
      /\ (before \cup {name}) \cap Files \subseteq Imported(wanted)
      /\ (before \cup {name}) \cap Services \subseteq Asked(c, asked_all)
      /\ \A f \in processed : Range(Dependencies[f]) \subseteq processed \cup before \cup {name}
      /\ \A s \in answered : FileOf[s] \in processed \/ s \in before \cup {name}
  BY <1>1, <1>4 DEF Complete
<1>6. got \subseteq Imported(wanted)
  <2>1. CASE name \in Files
    <3>1. name \in Imported(wanted)
      BY <1>5, <2>1
    <3> QED
      BY <1>3, <1>4, <2>1, <3>1, ImportedWithin
  <2>2. CASE name \notin Files /\ name \in c.answers
    <3>1. name \in answered /\ FileOf[name] \in wanted
      BY <1>1, <1>5, <2>2 DEF Names
    <3>2. FileOf[name] \in Imported(wanted)
      BY <1>4, <3>1, ImportedFacts
    <3> QED
      BY <1>3, <1>4, <2>2, <3>2, ImportedWithin
  <2>3. CASE name \notin Files /\ name \notin c.answers
    BY <1>3, <2>3
  <2> QED
    BY <2>1, <2>2, <2>3
<1>7. Imported(wanted) \subseteq Files /\ ClosedUnderImport(Imported(wanted))
  BY <1>4, ImportedFacts
<1>8. \A f \in got : Range(Dependencies[f]) \subseteq Imported(wanted)
  BY <1>6, <1>7 DEF ClosedUnderImport
<1>9. /\ after \cap Files \subseteq Imported(wanted)
      /\ after \cap Services \subseteq Asked(c, asked_all)
  BY <1>2, <1>4, <1>5, <1>7, <1>8
<1>10. \A f \in processed' : Range(Dependencies[f]) \subseteq processed' \cup after
  <2> SUFFICES ASSUME NEW f \in processed', NEW d \in Range(Dependencies[f])
               PROVE  d \in processed' \cup after
    OBVIOUS
  <2>1. CASE f \in processed
    <3>1. d \in processed \cup before \cup {name} /\ d \in Imported(wanted)
      BY <1>5, <1>7, <2>1 DEF ClosedUnderImport
    <3>2. d = name => name \in got
      BY <1>3, <1>7, <3>1
    <3> QED
      BY <1>2, <3>1, <3>2
  <2>2. CASE f \in got /\ f \notin processed
    BY <1>2, <2>2
  <2> QED
    BY <1>2, <2>1, <2>2
<1>11. \A s \in answered : FileOf[s] \in processed' \/ s \in after
  <2> SUFFICES ASSUME NEW s \in answered PROVE FileOf[s] \in processed' \/ s \in after
    OBVIOUS
  <2>1. s = name => FileOf[s] \in got
    BY <1>3, <1>4
  <2> QED
    BY <1>2, <1>5, <2>1
<1>12. processed' \subseteq Imported(wanted)
  BY <1>2, <1>5, <1>6
<1>13. Complete(c)' = (LET stacked == after IN
            /\ asked_all /\ c.target # {} => c.target \cap c.answers = {}
            /\ processed' \subseteq Imported(wanted)
            /\ stacked \cap Files \subseteq Imported(wanted)
            /\ stacked \cap Services \subseteq Asked(c, asked_all)
            /\ \A f \in processed' : Range(Dependencies[f]) \subseteq processed' \cup stacked
            /\ \A s \in answered : FileOf[s] \in processed' \/ s \in stacked)
  BY <1>4 DEF Complete, Definitions
<1> HIDE DEF name, rest, got, before, after, wanted, answered
<1> QED
  BY <1>5, <1>9, <1>10, <1>11, <1>12, <1>13

-----------------------------------------------------------------------------
(* The steps of a load                                                     *)

LInv == IInv /\ FetchInv /\ PoolInv

\* A step of a client that does not fetch, while the load under way stands.
LEMMA FetchStands ==
    ASSUME FetchInv, IInv, NEW t \in Clients, NEW place \in places \ {"fetch"}, pc[t] # "fetch",
           pc' = [pc EXCEPT ![t] = place], UNCHANGED fetch,
           \A u \in Clients \ {t} : config'[u] = config[u] /\ (u \in loading' => u \in loading),
           Reflecting(t)' => config'[t].source = "reflection"
    PROVE  FetchInv'
<1>1. UNCHANGED <<processed, files_to_process, asked_all, missed>>
  BY DEF fetch
<1>2. pc'[t] = place /\ \A u \in Clients \ {t} : pc'[u] = pc[u]
  BY DEF IInv
<1>3. (\A u \in Clients : pc'[u] # "fetch") => processed' = {}
  BY <1>1, <1>2 DEF FetchInv
<1>4. \A u \in Clients : Reflecting(u)' => config'[u].source = "reflection"
  BY <1>2 DEF FetchInv, Reflecting
<1>5. ASSUME NEW u \in Clients, pc'[u] = "fetch"
      PROVE  (config'[u].target = {} => asked_all') /\ (missed' \/ Complete(config[u])')
  <2>1. u # t /\ pc[u] = "fetch" /\ config'[u] = config[u]
    BY <1>2, <1>5
  <2>2. Complete(config[u])' <=> Complete(config[u])
    BY <1>1, <2>1 DEF Complete, Asked
  <2> QED
    BY <1>1, <1>5, <2>1, <2>2 DEF FetchInv
<1> QED
  BY <1>1, <1>3, <1>4, <1>5 DEF FetchInv

\* A step of the client that loads, after which it fetches with its request answered.
LEMMA FetchGoesOn ==
    ASSUME FetchInv, IInv, NEW t \in Clients, loading = {t},
           pc' = [pc EXCEPT ![t] = "fetch"], UNCHANGED <<config, loading>>,
           config[t].source = "reflection",
           processed' \subseteq Files, files_to_process' \in Seq(Names),
           config[t].target = {} => asked_all', missed' \/ Complete(config[t])'
    PROVE  FetchInv'
<1>1. \A u \in Clients \ {t} : pc'[u] = pc[u] /\ pc[u] \notin {"load", "seed", "fetch"}
  BY DEF IInv, OneLoads
<1>2. pc'[t] = "fetch"
  BY DEF IInv
<1> QED
  BY <1>1, <1>2 DEF FetchInv, Reflecting

LEMMA SeedFetches == ASSUME LInv, NEW t \in Clients, Seed(t) PROVE FetchInv'
<1> DEFINE c == config[t]
<1>1. /\ pc[t] = "seed" /\ pc' = [pc EXCEPT ![t] = "fetch"] /\ processed' = processed
      /\ UNCHANGED <<config, loading>>
  BY DEF Seed, Goto
<1>2. /\ loading = {t} /\ c \in Configs /\ c.source = "reflection"
  BY <1>1 DEF LInv, IInv, OneLoads, FetchInv, Reflecting
<1>3. processed = {}
  BY <1>1, <1>2 DEF LInv, IInv, OneLoads, FetchInv
<1>4. Services \subseteq Names /\ c.listed \in Seq(Services) /\ c.target \subseteq Services
  BY <1>2, CachesAssumption DEF Names
<1>5. CASE c.target # {} /\ files_to_process' = targeted(t) /\ asked_all' = FALSE
  <2>1. IsFiniteSet(c.target)
    <3>1. PICK s \in c.target : TRUE
      BY <1>5
    <3>2. c.target = {s}
      BY <1>2, <3>1, PoolKeyAssumption
    <3> QED
      BY <3>2, FS_Singleton
  <2>2. targeted(t) \in Seq(c.target) /\ Range(targeted(t)) = c.target
    BY <2>1, SetAsSeq DEF targeted
  <2>3. files_to_process' \in Seq(Services) /\ files_to_process' \in Seq(Names)
    BY <1>4, <1>5, <2>2, SeqMonotonic
  <2>4. Complete(c)'
    BY <1>1, <1>2, <1>3, <1>5, <2>2, <2>3, StartsComplete DEF Asked
  <2> QED
    BY <1>1, <1>2, <1>3, <1>5, <2>3, <2>4, FetchGoesOn DEF LInv
<1>6. CASE c.target = {} /\ files_to_process' = c.listed /\ asked_all' = TRUE
  <2>1. files_to_process' \in Seq(Services) /\ files_to_process' \in Seq(Names)
    BY <1>4, <1>6, SeqMonotonic
  <2>2. Complete(c)'
    BY <1>1, <1>2, <1>3, <1>6, <2>1, StartsComplete DEF Asked
  <2> QED
    BY <1>1, <1>2, <1>3, <1>6, <2>1, <2>2, FetchGoesOn DEF LInv
<1>7. CASE files_to_process' = <<>> /\ asked_all' = TRUE /\ missed' = TRUE
  <2>1. files_to_process' \in Seq(Names)
    BY <1>7, EmptySeq
  <2> QED
    BY <1>1, <1>2, <1>3, <1>7, <2>1, FetchGoesOn DEF LInv
<1> QED
  BY <1>5, <1>6, <1>7 DEF Seed

LEMMA FetchFetches == ASSUME LInv, NEW t \in Clients, Fetch(t) PROVE FetchInv'
<1> DEFINE c == config[t]
           name == Last(files_to_process)
           rest == Front(files_to_process)
<1>1. /\ pc[t] = "fetch" /\ files_to_process # <<>> /\ UNCHANGED <<config, loading, asked_all, pc>>
  BY DEF Fetch, client
<1>2. /\ loading = {t} /\ c \in Configs /\ c.source = "reflection" /\ pc' = [pc EXCEPT ![t] = "fetch"]
      /\ (c.target = {} => asked_all) /\ (missed \/ Complete(c))
  BY <1>1 DEF LInv, IInv, OneLoads, FetchInv, Reflecting
<1>3. rest \in Seq(Names) /\ name \in Names /\ processed \subseteq Files
  BY <1>1, RangeTop DEF LInv, FetchInv
<1>4. CASE name \in processed /\ files_to_process' = rest /\ UNCHANGED <<processed, missed>>
  <2>1. Complete(c) => Complete(c)'
    BY <1>1, <1>2, <1>4, PassesOver DEF LInv
  <2> QED
    BY <1>1, <1>2, <1>3, <1>4, <2>1, FetchGoesOn DEF LInv
<1>5. ASSUME NEW reply \in Replies(t, name), missed' = missed,
             LET work == KeepAll([done |-> processed, stack |-> rest], reply)
             IN  processed' = work.done /\ files_to_process' = work.stack
      PROVE  FetchInv'
  <2> DEFINE start == [done |-> processed, stack |-> rest]
             work == KeepAll(start, reply)
  <2>1. reply \in Seq(Files)
    BY <1>3, ReplyFiles
  <2>2. start \in Work
    BY <1>3 DEF Work
  <2>3. KeepsAll(start, Range(reply), work)
    BY <2>1, <2>2, KeptReply
  <2>4. work \in Work /\ processed' = work.done /\ files_to_process' = work.stack
    BY <1>5, <2>3 DEF KeepsAll
  <2>5. processed' \subseteq Files /\ files_to_process' \in Seq(Names)
    BY <2>4 DEF Work
  <2>6. Complete(c) => Complete(c)'
    <3> HIDE DEF work
    <3> QED
      BY <1>1, <1>2, <2>3, <2>4, Answered DEF LInv
  <2> QED
    BY <1>1, <1>2, <1>5, <2>5, <2>6, FetchGoesOn DEF LInv
<1>6. CASE missed' = TRUE /\ files_to_process' = rest /\ UNCHANGED processed
  BY <1>1, <1>2, <1>3, <1>6, FetchGoesOn DEF LInv
<1> QED
  BY <1>4, <1>5, <1>6 DEF Fetch

LEMMA FetchAllFetches == ASSUME LInv, NEW t \in Clients, FetchAll(t) PROVE FetchInv'
<1> DEFINE c == config[t]
<1>1. /\ pc[t] = "fetch" /\ files_to_process = <<>> /\ processed = {} /\ ~asked_all /\ asked_all' = TRUE
      /\ UNCHANGED <<config, loading, pc, processed>>
  BY DEF FetchAll, client
<1>2. /\ loading = {t} /\ c \in Configs /\ c.source = "reflection" /\ pc' = [pc EXCEPT ![t] = "fetch"]
      /\ (missed \/ Complete(c))
  BY <1>1 DEF LInv, IInv, OneLoads, FetchInv, Reflecting
<1>3. CASE files_to_process' = c.listed /\ missed' = missed
  <2>1. c.listed \in Seq(Services) /\ c.listed \in Seq(Names)
    BY <1>2, CachesAssumption, SeqMonotonic DEF Names
  <2>2. Complete(c) => c.target \cap c.answers = {}
    BY <1>1, RangeEmpty DEF Complete, Asked
  <2>3. Complete(c) => Complete(c)'
    BY <1>1, <1>2, <1>3, <2>1, <2>2, StartsComplete DEF Asked
  <2> QED
    BY <1>1, <1>2, <1>3, <2>1, <2>3, FetchGoesOn DEF LInv
<1>4. CASE missed' = TRUE /\ UNCHANGED files_to_process
  BY <1>1, <1>2, <1>4, EmptySeq, FetchGoesOn DEF LInv
<1> QED
  BY <1>3, <1>4 DEF FetchAll

LEMMA BuildFetches == ASSUME LInv, NEW t \in Clients, Build(t) PROVE FetchInv'
<1>1. /\ pc[t] = "fetch" /\ UNCHANGED config /\ loading' = loading \ {t}
      /\ \E place \in {"made", "failed"} : pc' = [pc EXCEPT ![t] = place]
      /\ processed' = {} /\ files_to_process' = <<>>
  BY DEF Build, Insert, Fail, Return, Goto, released
<1>2. \A u \in Clients : pc'[u] # "fetch" /\ pc'[u] # "seed" /\ u \notin loading'
  BY <1>1 DEF LInv, IInv, OneLoads
<1>3. files_to_process' \in Seq(Names)
  BY <1>1, EmptySeq
<1> QED
  BY <1>1, <1>2, <1>3 DEF FetchInv, Reflecting

LEMMA NextFetches == ASSUME LInv, [Next]_vars PROVE FetchInv'
<1>1. CASE UNCHANGED vars
  <2>1. UNCHANGED <<processed, files_to_process, asked_all, missed, pc, config, loading>>
    BY <1>1 DEF vars, client, fetch
  <2>2. \A t \in Clients : (Complete(config[t])' <=> Complete(config[t]))
                           /\ (Reflecting(t)' <=> Reflecting(t))
    BY <2>1 DEF Complete, Asked, Reflecting
  <2> QED
    BY <2>1, <2>2 DEF LInv, FetchInv
<1>2. ASSUME NEW t \in Clients, NEW c \in Configs, New(t, c) PROVE FetchInv'
  <2>1. /\ pc[t] \in {"idle", "made", "failed"} /\ config' = [config EXCEPT ![t] = c]
        /\ \E place \in {"channel", "failed"} : pc' = [pc EXCEPT ![t] = place]
        /\ UNCHANGED <<loading, fetch>>
    BY <1>2 DEF New, Goto, Return
  <2>2. ~Reflecting(t)'
    BY <2>1 DEF LInv, IInv, OneLoads, Reflecting
  <2> QED
    BY <2>1, <2>2, FetchStands DEF LInv, IInv, places
<1>3. ASSUME NEW t \in Clients, Step(t) PROVE FetchInv'
  <2> USE DEF Goto, Return
  <2>1. CASE GetChannel(t)
    <3>1. Reflecting(t)' => Reflecting(t)
      BY <2>1 DEF GetChannel, after_channel, LInv, IInv, Reflecting
    <3> QED
      BY <2>1, <3>1, FetchStands DEF GetChannel, after_channel, places, LInv, FetchInv
  <2>2. CASE CreateChannel(t)
    <3>1. \E place \in {"seed", "pool", "failed"} : pc' = [pc EXCEPT ![t] = place]
      BY <2>2 DEF CreateChannel, after_channel, Fail
    <3>2. /\ pc[t] = "create" /\ loading' \subseteq loading /\ UNCHANGED <<config, fetch>>
          /\ (Reflecting(t)' => Reflecting(t))
      BY <2>2 DEF CreateChannel, after_channel, Fail, released, LInv, IInv, Reflecting
    <3> QED
      BY <3>1, <3>2, FetchStands DEF places, LInv, FetchInv
  <2>3. CASE GetPool(t)
    <3>1. ~Reflecting(t)'
      BY <2>3 DEF GetPool, LInv, IInv, Reflecting
    <3> QED
      BY <2>3, <3>1, FetchStands DEF GetPool, places, LInv
  <2>4. CASE Lock(t)
    <3>1. ~Reflecting(t)'
      BY <2>4 DEF Lock, LInv, IInv, Reflecting
    <3>2. \E place \in {"made", "load"} : pc' = [pc EXCEPT ![t] = place]
      BY <2>4 DEF Lock
    <3>3. pc[t] = "lock" /\ loading' \subseteq {t} /\ UNCHANGED <<config, fetch>>
      BY <2>4 DEF Lock
    <3> QED
      BY <3>1, <3>2, <3>3, FetchStands DEF places, LInv
  <2>5. CASE LoadFile(t)
    <3>1. \E place \in {"made", "failed", "channel"} :
             pc' = [pc EXCEPT ![t] = place] /\ (place = "channel" => config[t].source = "reflection")
      BY <2>5 DEF LoadFile, Insert, Fail
    <3>2. pc[t] = "load" /\ loading' \subseteq loading /\ UNCHANGED <<config, fetch>>
      BY <2>5 DEF LoadFile, Insert, Fail, released
    <3>3. Reflecting(t)' => config'[t].source = "reflection"
      BY <3>1, <3>2 DEF Reflecting, LInv, IInv
    <3> QED
      BY <3>1, <3>2, <3>3, FetchStands DEF places, LInv
  <2>6. CASE Seed(t)
    BY <2>6, SeedFetches
  <2>7. CASE Fetch(t)
    BY <2>7, FetchFetches
  <2>8. CASE FetchAll(t)
    BY <2>8, FetchAllFetches
  <2>9. CASE Build(t)
    BY <2>9, BuildFetches
  <2> QED
    BY <1>3, <2>1, <2>2, <2>3, <2>4, <2>5, <2>6, <2>7, <2>8, <2>9 DEF Step
<1> QED
  BY <1>1, <1>2, <1>3 DEF Next

-----------------------------------------------------------------------------
(* The pools                                                               *)

\* The files a pool of c is to have.
PoolFiles(c) ==
    Definitions(IF c.target \cap c.answers # {} THEN c.target \cap c.answers
                ELSE Range(c.listed) \cap c.answers)

LEMMA InsertedPool ==
    ASSUME PoolInv, IInv, NEW t \in Clients, NEW files \in SUBSET Files, Insert(t, files),
           losses \subseteq losses',
           key(t) \in losses' \/ config[t].source # "reflection" \/ files = PoolFiles(config[t])
    PROVE  PoolInv'
<1>1. /\ DOMAIN pools' = DOMAIN pools \cup {key(t)} /\ pools'[key(t)] = files
      /\ \A k \in DOMAIN pools \ {key(t)} : pools'[k] = pools[k]
  BY DEF Insert
<1>2. config[t] \in Configs
  BY DEF IInv
<1>3. ASSUME NEW c \in Configs, c.source = "reflection", c.pool \in DOMAIN pools' \ losses'
      PROVE  pools'[c.pool] = PoolFiles(c)
  <2>1. CASE c.pool = key(t)
    <3>1. /\ config[t].source = "reflection" /\ config[t].target = c.target
          /\ config[t].listed = c.listed /\ config[t].answers = c.answers
      BY <1>2, <1>3, <2>1, PoolKeyAssumption DEF key
    <3>2. PoolFiles(config[t]) = PoolFiles(c)
      BY <3>1 DEF PoolFiles
    <3> QED
      BY <1>1, <1>3, <2>1, <3>1, <3>2
  <2>2. CASE c.pool # key(t)
    BY <1>1, <1>3, <2>2 DEF PoolInv, PoolIsComplete, PoolFiles
  <2> QED
    BY <2>1, <2>2
<1>4. \A k \in DOMAIN pools' : pools'[k] \subseteq Files
  BY <1>1 DEF PoolInv
<1> QED
  BY <1>3, <1>4 DEF PoolInv, PoolIsComplete, PoolFiles

\* What is built of a load that missed nothing is what was asked for.
LEMMA BuiltPool ==
    ASSUME NEW c \in Configs, FetchInv, Complete(c), c.target = {} => asked_all,
           files_to_process = <<>>, processed # {}
    PROVE  processed = PoolFiles(c)
<1> DEFINE answered == Asked(c, asked_all) \cap c.answers
           wanted == {FileOf[s] : s \in answered}
<1>1. /\ asked_all /\ c.target # {} => c.target \cap c.answers = {}
      /\ processed \subseteq Imported(wanted) /\ Definitions(answered) = Imported(wanted)
      /\ \A f \in processed : Range(Dependencies[f]) \subseteq processed
      /\ wanted \subseteq processed
  BY RangeEmpty DEF Complete, Definitions
<1>2. wanted \subseteq Files /\ processed \subseteq Files
  BY AskedFiles DEF FetchInv
<1>3. processed = Imported(wanted)
  BY <1>1, <1>2, ImportedFacts DEF ClosedUnderImport
<1>4. answered # {}
  <2> SUFFICES ASSUME answered = {} PROVE FALSE
    OBVIOUS
  <2>1. wanted = {}
    OBVIOUS
  <2>2. Imported({}) \subseteq {}
    BY ImportedFacts DEF ClosedUnderImport
  <2> QED
    BY <1>3, <2>1, <2>2
<1>5. answered = IF c.target \cap c.answers # {} THEN c.target \cap c.answers
                 ELSE Range(c.listed) \cap c.answers
  BY <1>1, <1>4 DEF Asked
<1> QED
  BY <1>1, <1>3, <1>5 DEF PoolFiles

LEMMA NextPools == ASSUME LInv, [Next]_vars PROVE PoolInv'
<1>1. CASE UNCHANGED <<pools, losses>>
  BY <1>1 DEF LInv, PoolInv, PoolIsComplete
<1>2. ASSUME NEW t \in Clients, LoadFile(t) PROVE PoolInv'
  <2>1. CASE Insert(t, Files) /\ config[t].source = "file"
    BY <1>2, <2>1, InsertedPool DEF LoadFile, LInv
  <2> QED
    BY <1>1, <1>2, <2>1 DEF LoadFile
<1>3. ASSUME NEW t \in Clients, Build(t) PROVE PoolInv'
  <2>1. CASE Insert(t, processed) /\ processed # {}
             /\ losses' = IF missed THEN losses \cup {key(t)} ELSE losses
    <3>1. /\ pc[t] = "fetch" /\ files_to_process = <<>> /\ config[t] \in Configs
          /\ processed \subseteq Files
      BY <1>3 DEF Build, LInv, IInv, FetchInv
    <3>2. (config[t].target = {} => asked_all) /\ (missed \/ Complete(config[t]))
      BY <3>1 DEF LInv, FetchInv
    <3>3. missed \/ processed = PoolFiles(config[t])
      BY <2>1, <3>1, <3>2, BuiltPool DEF LInv
    <3> QED
      BY <2>1, <3>1, <3>3, InsertedPool DEF LInv
  <2> QED
    BY <1>1, <1>3, <2>1 DEF Build
<1> QED
  BY <1>1, <1>2, <1>3 DEF Next, Step, New, GetChannel, CreateChannel, GetPool, Lock, Seed,
     Fetch, FetchAll, vars

\* A load under way and the pools loaded so far hold what the servers define.
THEOREM PoolsInvariant == Spec => []LInv
<1>1. Init => LInv
  <2> SUFFICES ASSUME Init PROVE FetchInv /\ PoolInv
    BY InitLoads DEF LInv
  <2>1. files_to_process \in Seq(Names)
    BY EmptySeq DEF Init
  <2>2. DOMAIN pools = {}
    BY DEF Init
  <2> QED
    BY <2>1, <2>2 DEF Init, FetchInv, Reflecting, PoolInv, PoolIsComplete
<1>2. LInv /\ [Next]_vars => LInv'
  BY NextLoads, NextFetches, NextPools DEF LInv
<1> QED
  BY <1>1, <1>2, PTL DEF Spec

\* A pool loaded by reflection has the files of the services asked for with all they
\* import, and no others, unless a request of its load failed.
THEOREM PoolsAreComplete == Spec => []PoolIsComplete
<1>1. LInv => PoolIsComplete
  BY DEF LInv, PoolInv
<1> QED
  BY <1>1, PoolsInvariant, PTL

\* The caches, the mutex and the work of a load keep to their types and bounds.
THEOREM CachesTypeOK == Spec => []TypeOK
<1>1. LInv /\ ChannelsBounded => TypeOK
  BY DEF LInv, IInv, FetchInv, PoolInv, TypeOK
<1> QED
  BY <1>1, PoolsInvariant, ChannelCacheBounded, PTL

=============================================================================
