-------------------------- MODULE BenchOpen_proofs --------------------------
(***************************************************************************)
(* For every schedule, number of requests and permits: no more requests in *)
(* flight than permits, every request at its intended time, and an open    *)
(* run is a load run as BenchSpec has it.                                  *)
(***************************************************************************)
EXTENDS BenchOpen, NaturalsInduction, FiniteSetTheorems, TLAPS

States == {"none", "queued", "running", "ended", "counted", "dropped", "aborted", "panicked"}

-----------------------------------------------------------------------------
(* Configurations and moments                                              *)

\* A configuration's numbers are numbers, and its arrivals within the bound.
LEMMA ConfigTypes ==
    ASSUME OpenAssumption, config \in Configs
    PROVE  /\ config.concurrency \in Nat /\ config.docs \in Nat /\ config.requests \in Nat
           /\ config.duration \subseteq Nat /\ config.max_duration \subseteq Nat
           /\ \A t \in 0..MaxTime : config.gap[t] \in Nat
           /\ timed => \A d \in config.duration : d <= MaxArrivals
           /\ ~timed => config.requests <= MaxArrivals
           /\ MaxTime \in Nat /\ MaxArrivals \in Nat
BY DEF OpenAssumption, Config, timed

\* The gap is a number at every moment.
LEMMA GapType ==
    ASSUME OpenAssumption, config \in Configs, NEW t \in Nat
    PROVE  rate_gap(t) \in Nat
<1>1. (IF t < MaxTime THEN t ELSE MaxTime) \in 0..MaxTime
  BY ConfigTypes
<1> QED  BY <1>1, ConfigTypes DEF rate_gap

\* A set of numbers that is not empty has a smallest one.
LEMMA MinOf ==
    ASSUME NEW S, S \subseteq Nat, S # {}
    PROVE  Min(S) \in S /\ \A x \in S : Min(S) <= x
<1>1. PICK x \in S : \A y \in S : <<y, x>> \notin OpToRel(<, Nat)
  BY NatLessThanWellFounded, WFMin
<1>2. \A y \in S : ~(y < x)
  BY <1>1, Zenon DEF OpToRel
<1>3. \A y \in S : x <= y
  BY <1>2
<1> QED  BY <1>3 DEF Min

\* No arrival is before its cursor or at a moment of zero rate.
LEMMA BusyFrom ==
    ASSUME OpenAssumption, config \in Configs, NEW c \in Nat, busy_from(c) # {}
    PROVE  /\ Min(busy_from(c)) \in busy_from(c) /\ Min(busy_from(c)) \in Nat
           /\ c <= Min(busy_from(c)) /\ rate_gap(Min(busy_from(c))) > 0
           /\ \A t \in busy_from(c) : Min(busy_from(c)) <= t
<1>1. busy_from(c) \subseteq Nat /\ \A t \in busy_from(c) : c <= t /\ rate_gap(t) > 0
  BY ConfigTypes DEF busy_from
<1> QED  BY <1>1, MinOf

LEMMA PassesType ==
    ASSUME OpenAssumption, config \in Configs
    PROVE  request_passes \in Nat /\ request_passes <= config.requests
<1> DEFINE d == IF config.docs > 1 THEN config.docs ELSE 1
           n == config.requests
<1>1. d \in Nat \ {0} /\ n \in Nat
  BY ConfigTypes
<1> HIDE DEF d, n
<1>2. n \div d \in Nat /\ n \div d <= n
  BY <1>1
<1> QED  BY <1>2 DEF request_passes, d, n

-----------------------------------------------------------------------------
(* Counting requests                                                       *)

LEMMA WithFinite ==
    ASSUME OpenAssumption, NEW S
    PROVE  IsFiniteSet(Arrivals) /\ IsFiniteSet(With(S)) /\ Cardinality(With(S)) \in Nat
<1>1. IsFiniteSet(Arrivals)
  BY FS_Interval DEF OpenAssumption, Arrivals
<1>2. With(S) \in SUBSET Arrivals
  BY DEF With
<1> QED  BY <1>1, <1>2, FS_Subset, FS_CardinalityType

\* A request that comes to a set of states is one more there.
LEMMA WithEnter ==
    ASSUME OpenAssumption, task \in [Arrivals -> States], NEW k \in Arrivals, NEW s \in States,
           task' = [task EXCEPT ![k] = s], NEW S, task[k] \notin S, s \in S
    PROVE  Cardinality(With(S)') = Cardinality(With(S)) + 1
<1>1. With(S)' = With(S) \cup {k} /\ k \notin With(S)
  BY DEF With
<1> QED  BY <1>1, WithFinite, FS_AddElement

\* One that leaves it is one less.
LEMMA WithLeave ==
    ASSUME OpenAssumption, task \in [Arrivals -> States], NEW k \in Arrivals, NEW s \in States,
           task' = [task EXCEPT ![k] = s], NEW S, task[k] \in S, s \notin S
    PROVE  Cardinality(With(S)') = Cardinality(With(S)) - 1
<1>1. With(S)' = With(S) \ {k} /\ k \in With(S)
  BY DEF With
<1> QED  BY <1>1, WithFinite, FS_RemoveElement

\* And one that stays within it or without changes nothing.
LEMMA WithStay ==
    ASSUME task \in [Arrivals -> States], NEW k \in Arrivals, NEW s \in States,
           task' = [task EXCEPT ![k] = s], NEW S, task[k] \in S <=> s \in S
    PROVE  With(S)' = With(S)
BY DEF With

\* Two sets of states that share none are counted apart.
LEMMA WithUnion ==
    ASSUME OpenAssumption, NEW S, NEW T, S \cap T = {}
    PROVE  Cardinality(With(S \cup T)) = Cardinality(With(S)) + Cardinality(With(T))
<1>1. With(S \cup T) = With(S) \cup With(T) /\ With(S) \cap With(T) = {}
  BY DEF With
<1>2. Cardinality(With(S) \cup With(T))
        = Cardinality(With(S)) + Cardinality(With(T)) - Cardinality(With(S) \cap With(T))
  BY WithFinite, FS_Union
<1>3. Cardinality(With(S) \cap With(T)) = 0
  BY <1>1, FS_EmptySet
<1>4. Cardinality(With(S)) \in Nat /\ Cardinality(With(T)) \in Nat
  BY WithFinite
<1>5. Cardinality(With(S) \cup With(T)) = Cardinality(With(S)) + Cardinality(With(T))
  BY <1>2, <1>3, <1>4
<1>6. Cardinality(With(S \cup T)) = Cardinality(With(S) \cup With(T))
  BY <1>1, Zenon
<1> QED  BY <1>5, <1>6, Zenon

-----------------------------------------------------------------------------
(* Types and permits                                                       *)

Ours == {"queued", "running", "ended"}
Held == {"running", "ended"}

LEMMA InitTypeOK == ASSUME OpenAssumption, Init PROVE TypeOK
<1>1. With({"running", "ended"}) = {}
  BY DEF Init, With
<1>2. Cardinality(With({"running", "ended"})) = 0
  BY <1>1, FS_EmptySet
<1>3. config.concurrency \in Nat
  BY ConfigTypes DEF Init
<1>4. config.concurrency >= 1 => Cardinality(With({"running", "ended"})) <= config.concurrency
  BY <1>2, <1>3
<1> QED  BY <1>4 DEF Init, TypeOK

LEMMA NextTypeOK == ASSUME OpenAssumption, TypeOK, [Next]_vars PROVE TypeOK'
<1> USE DEF clock, schedule
<1> DEFINE permits == config.concurrency >= 1 => Cardinality(With(Held)) <= config.concurrency
<1>1. /\ config \in Configs /\ config.concurrency \in Nat /\ task \in [Arrivals -> States] /\ permits
  BY ConfigTypes DEF TypeOK, States, Held
<1>2. ASSUME task' = task, config' = config PROVE permits'
  BY <1>1, <1>2 DEF With
<1>3. ASSUME NEW k \in Arrivals, NEW s \in States, task' = [task EXCEPT ![k] = s], config' = config,
             s \in Held => task[k] \in Held
      PROVE  task' \in [Arrivals -> States] /\ permits'
  <2>1. CASE task[k] \in Held <=> s \in Held
    BY <1>1, <1>3, <2>1, WithStay
  <2>2. CASE task[k] \in Held /\ s \notin Held
    <3>1. Cardinality(With(Held)') = Cardinality(With(Held)) - 1 /\ Cardinality(With(Held)) \in Nat
      BY <1>1, <1>3, <2>2, WithLeave, WithFinite
    <3> QED  BY <1>1, <1>3, <3>1
  <2> QED  BY <1>3, <2>1, <2>2
<1>4. CASE NextArrival
  <2>1. CASE exhausted \/ shutdown \/ past_deadline(now)
    BY <1>2, <1>4, <2>1 DEF NextArrival, TypeOK, Held
  <2>2. CASE ~(exhausted \/ shutdown \/ past_deadline(now))
    <3>1. busy_from(cursor) # {} /\ arrival' = Min(busy_from(cursor)) /\ cursor' = cursor_after(arrival')
      BY <1>4, <2>2 DEF NextArrival
    <3>2. arrival' \in Nat /\ rate_gap(arrival') \in Nat
      BY <1>1, <3>1, BusyFrom, GapType DEF TypeOK
    <3>3. cursor' \in Nat
      BY <3>1, <3>2 DEF cursor_after
    <3> QED  BY <1>2, <1>4, <2>2, <3>2, <3>3 DEF NextArrival, TypeOK, Held
  <2> QED  BY <2>1, <2>2
<1>5. CASE SpawnRequest
  <2>1. CASE shutdown
    BY <1>2, <1>5, <2>1 DEF SpawnRequest, TypeOK, Held
  <2>2. CASE ~shutdown
    <3>1. task' = [task EXCEPT ![emitted] = "queued"] /\ due' = [due EXCEPT ![emitted] = arrival]
          /\ config' = config
      BY <1>5, <2>2 DEF SpawnRequest
    <3>2. task' \in [Arrivals -> States] /\ permits'
      <4>1. CASE emitted \in Arrivals
        BY <1>3, <3>1, <4>1 DEF States, Held
      <4>2. CASE emitted \notin Arrivals
        <5>1. task' = task
          BY <1>1, <3>1, <4>2
        <5> QED  BY <1>1, <1>2, <3>1, <5>1
      <4> QED  BY <4>1, <4>2
    <3>3. due' \in [Arrivals -> Nat]
      BY <3>1 DEF TypeOK
    <3> QED  BY <1>5, <2>2, <3>2, <3>3 DEF SpawnRequest, TypeOK, States, Held
  <2> QED  BY <2>1, <2>2
<1>6. CASE Drain
  <2>1. Cardinality(With({"counted"})) \in Nat
    BY WithFinite
  <2> QED  BY <1>2, <1>6, <2>1 DEF Drain, TypeOK, Held
<1>7. ASSUME NEW k \in Arrivals, Acquire(k) PROVE TypeOK'
  <2>1. task' = [task EXCEPT ![k] = "running"] /\ config' = config /\ task[k] = "queued" /\ permit_free
    BY <1>7 DEF Acquire
  <2>2. permits'
    <3>1. Cardinality(With(Held)') = Cardinality(With(Held)) + 1 /\ Cardinality(With(Held)) \in Nat
      BY <1>1, <2>1, WithEnter, WithFinite DEF Held, States
    <3>2. config.concurrency >= 1 => Cardinality(With(Held)) < config.concurrency
      BY <1>1, <2>1 DEF permit_free, permits_held, Held
    <3> QED  BY <1>1, <2>1, <3>1, <3>2
  <2>3. task' \in [Arrivals -> States]
    BY <1>1, <2>1 DEF States
  <2> QED  BY <1>7, <2>2, <2>3 DEF Acquire, TypeOK, States, Held
<1>8. ASSUME NEW k \in Arrivals, Respond(k) PROVE TypeOK'
  <2>1. task' \in [Arrivals -> States] /\ permits'
    BY <1>3, <1>8 DEF Respond, Held, States
  <2> QED  BY <1>8, <2>1 DEF Respond, TypeOK, States, Held
<1>9. ASSUME NEW k \in Arrivals, Record(k) PROVE TypeOK'
  <2>1. task' \in [Arrivals -> States] /\ permits'
    BY <1>3, <1>9 DEF Record, Held, States
  <2> QED  BY <1>9, <2>1 DEF Record, TypeOK, States, Held
<1>10. ASSUME NEW k \in Arrivals, Abort(k) PROVE TypeOK'
  <2>1. task' \in [Arrivals -> States] /\ permits'
    BY <1>3, <1>10 DEF Abort, Held, States
  <2> QED  BY <1>10, <2>1 DEF Abort, TypeOK, States, Held
<1>11. ASSUME NEW k \in Arrivals, Panic(k) PROVE TypeOK'
  <2>1. task' \in [Arrivals -> States] /\ permits'
    BY <1>3, <1>11 DEF Panic, Held, States
  <2> QED  BY <1>11, <2>1 DEF Panic, TypeOK, States, Held
<1>12. CASE Shutdown
  BY <1>2, <1>12 DEF Shutdown, TypeOK, Held
<1>13. CASE Tick
  BY <1>2, <1>13 DEF Tick, TypeOK, Held
<1>14. CASE UNCHANGED vars
  BY <1>2, <1>14 DEF vars, TypeOK, Held
<1> QED
  BY <1>4, <1>5, <1>6, <1>7, <1>8, <1>9, <1>10, <1>11, <1>12, <1>13, <1>14
     DEF Next, Schedule, Request

-----------------------------------------------------------------------------
(* The schedule                                                            *)

\* Where the walk to the k-th arrival begins, and where it ends.
base(k) == IF k = 1 THEN 0 ELSE due[k - 1] + rate_gap(due[k - 1])
intended(k) == Min(busy_from(base(k)))

\* Requests are spawned in the order of their arrivals, each due when the schedule
\* says; the cursor is where the walk to the next one begins.
ScheduleInv ==
    /\ emitted <= cursor /\ emitted <= MaxArrivals
    /\ \A k \in Arrivals : k > emitted => task[k] = "none"
    /\ \A k \in 1..emitted : task[k] # "none" => due[k] = intended(k)
    /\ \A k \in 1..emitted : k < emitted => task[k] # "none"
    /\ scheduler = "next" => /\ emitted > 0 => task[emitted] # "none"
                             /\ cursor = base(emitted + 1)
    /\ scheduler = "sleep" => /\ emitted > 0 /\ task[emitted] = "none"
                              /\ arrival = intended(emitted) /\ cursor = cursor_after(arrival)
                              /\ ~timed => emitted <= request_passes

\* Requests are aborted only after the schedule and under close; what has ended has
\* ended by now; there is a report only at the end.
OutcomeInv ==
    /\ aborting => scheduler \in {"drain", "done"} /\ config.duration_stop = "close"
    /\ report # {} => scheduler = "done"
    /\ \A k \in Arrivals : finished_at[k] <= now

\* An arrival stays where it is while the one before it does.
LEMMA SameIntended ==
    ASSUME config' = config, NEW k, k # 1 => due'[k - 1] = due[k - 1]
    PROVE  base(k)' = base(k) /\ intended(k)' = intended(k)
<1>1. \A t : rate_gap(t)' = rate_gap(t)
  BY DEF rate_gap
<1>2. base(k)' = base(k)
  BY <1>1 DEF base
<1>3. \A c : busy_from(c)' = busy_from(c)
  BY <1>1 DEF busy_from
<1> QED  BY <1>2, <1>3 DEF intended

LEMMA InitSchedule == ASSUME OpenAssumption, Init PROVE ScheduleInv /\ OutcomeInv
<1>1. MaxArrivals \in Nat
  BY DEF OpenAssumption
<1> QED  BY <1>1 DEF Init, ScheduleInv, OutcomeInv, base, Arrivals

LEMMA NextSchedule ==
    ASSUME OpenAssumption, TypeOK, ScheduleInv, [Next]_vars
    PROVE  ScheduleInv'
<1> USE DEF clock, schedule
<1>1. /\ emitted \in Nat /\ cursor \in Nat /\ arrival \in Nat /\ MaxArrivals \in Nat
      /\ task \in [Arrivals -> States] /\ due \in [Arrivals -> Nat] /\ config \in Configs
      /\ \A k : k \in Arrivals <=> k \in 1..MaxArrivals
  BY DEF TypeOK, States, OpenAssumption, Arrivals
\* A step that neither walks nor spawns.
<1>2. ASSUME UNCHANGED <<config, cursor, emitted, arrival, due>>, scheduler' \in {scheduler, "drain", "done"},
             \A k \in Arrivals : task'[k] = "none" <=> task[k] = "none"
      PROVE  ScheduleInv'
  <2>1. \A k : base(k)' = base(k) /\ intended(k)' = intended(k)
    BY <1>2, SameIntended
  <2>2. \A k \in 1..emitted : k \in Arrivals
    BY <1>1 DEF ScheduleInv
  <2>3. cursor_after(arrival)' = cursor_after(arrival) /\ timed' = timed /\ request_passes' = request_passes
    BY <1>2 DEF cursor_after, rate_gap, timed, request_passes
  <2>4. base(emitted + 1)' = base(emitted + 1) /\ intended(emitted)' = intended(emitted)
    BY <1>2, <2>1 DEF base, intended, busy_from, rate_gap
  <2> QED  BY <1>1, <1>2, <2>1, <2>2, <2>3, <2>4 DEF ScheduleInv
<1>3. ASSUME NextArrival, ~(exhausted \/ shutdown \/ past_deadline(now)) PROVE ScheduleInv'
  <2>1. /\ scheduler = "next" /\ busy_from(cursor) # {} /\ arrival' = Min(busy_from(cursor))
        /\ cursor' = cursor_after(arrival') /\ emitted' = emitted + 1 /\ scheduler' = "sleep"
        /\ UNCHANGED <<config, task, due>>
    BY <1>3 DEF NextArrival
  <2>2. /\ arrival' \in Nat /\ cursor <= arrival' /\ rate_gap(arrival') > 0
        /\ \A t \in busy_from(cursor) : arrival' <= t
    BY <1>1, <2>1, BusyFrom
  <2>3. rate_gap(arrival') \in Nat
    BY <1>1, <2>2, GapType
  <2>4. emitted' <= arrival' + 1 /\ emitted' <= cursor'
    BY <1>1, <2>1, <2>2, <2>3 DEF ScheduleInv, cursor_after
  <2>5. ~timed => emitted' <= request_passes
    BY <1>1, <1>3, <2>1, PassesType DEF exhausted
  <2>6. emitted' <= MaxArrivals
    <3>1. CASE timed
      <4>1. PICK d \in config.duration : \E t \in busy_from(cursor) : t < d
        BY <1>3, <3>1 DEF exhausted
      <4>2. d \in Nat /\ d <= MaxArrivals
        BY <1>1, <3>1, <4>1, ConfigTypes
      <4>3. PICK t \in busy_from(cursor) : t < d
        BY <4>1
      <4>4. t \in Nat /\ arrival' <= t
        BY <1>1, <2>2, <4>3, ConfigTypes DEF busy_from
      <4> QED  BY <1>1, <2>1, <2>2, <2>4, <4>2, <4>3, <4>4
    <3>2. CASE ~timed
      <4>1. /\ request_passes \in Nat /\ request_passes <= config.requests /\ config.requests \in Nat
            /\ config.requests <= MaxArrivals
        BY <1>1, <3>2, PassesType, ConfigTypes
      <4> QED  BY <1>1, <2>1, <2>5, <3>2, <4>1
    <3> QED  BY <3>1, <3>2
  <2>7. \A k : base(k)' = base(k) /\ intended(k)' = intended(k)
    BY <2>1, SameIntended
  <2>8. arrival' = intended(emitted + 1)
    BY <2>1 DEF ScheduleInv, intended
  <2>9. arrival' = intended(emitted)'
    BY <2>1, <2>7, <2>8 DEF intended, base, busy_from, rate_gap
  <2>10. cursor' = cursor_after(arrival)' /\ timed' = timed /\ request_passes' = request_passes
    BY <2>1 DEF cursor_after, rate_gap, timed, request_passes
  <2>11. task[emitted + 1] = "none" /\ emitted + 1 \in Arrivals
    BY <1>1, <2>1, <2>6 DEF ScheduleInv
  <2>12. \A k \in 1..emitted : task[k] # "none"
    BY <1>1, <2>1 DEF ScheduleInv
  <2>13. \A k \in 1..emitted' : task'[k] # "none" => due'[k] = intended(k)'
    BY <1>1, <2>1, <2>7, <2>11 DEF ScheduleInv
  <2> QED
    BY <1>1, <2>1, <2>4, <2>5, <2>6, <2>9, <2>10, <2>11, <2>12, <2>13 DEF ScheduleInv
<1>4. ASSUME SpawnRequest, ~shutdown PROVE ScheduleInv'
  <2>1. /\ scheduler = "sleep" /\ task' = [task EXCEPT ![emitted] = "queued"]
        /\ due' = [due EXCEPT ![emitted] = arrival] /\ scheduler' = "next"
        /\ UNCHANGED <<config, cursor, emitted, arrival>>
    BY <1>4 DEF SpawnRequest
  <2>2. /\ emitted \in Arrivals /\ emitted > 0 /\ arrival = intended(emitted)
        /\ cursor = cursor_after(arrival)
    BY <1>1, <2>1 DEF ScheduleInv
  <2>3. task'[emitted] = "queued" /\ due'[emitted] = arrival
    BY <1>1, <2>1, <2>2
  <2>4. \A k \in Arrivals : k # emitted => task'[k] = task[k] /\ due'[k] = due[k]
    BY <1>1, <2>1
  <2>5. \A k \in 1..emitted : intended(k)' = intended(k)
    <3>1. SUFFICES ASSUME NEW k \in 1..emitted PROVE intended(k)' = intended(k)
      OBVIOUS
    <3>2. k # 1 => k - 1 \in Arrivals /\ k - 1 # emitted
      BY <1>1, <2>2
    <3> QED  BY <2>1, <2>4, <3>2, SameIntended
  <2>6. \A k \in 1..emitted : task'[k] # "none" => due'[k] = intended(k)'
    BY <1>1, <2>2, <2>3, <2>4, <2>5 DEF ScheduleInv
  <2>7. base(emitted + 1)' = cursor
    <3>1. base(emitted + 1)' = arrival + rate_gap(arrival)
      BY <1>1, <2>1, <2>2, <2>3 DEF base, rate_gap
    <3> QED  BY <2>2, <3>1 DEF cursor_after
  <2> QED
    BY <1>1, <2>1, <2>2, <2>3, <2>4, <2>6, <2>7 DEF ScheduleInv
<1>5. CASE NextArrival /\ (exhausted \/ shutdown \/ past_deadline(now))
  BY <1>2, <1>5 DEF NextArrival
<1>6. CASE SpawnRequest /\ shutdown
  BY <1>2, <1>6 DEF SpawnRequest
<1>7. CASE Drain \/ Shutdown \/ Tick \/ UNCHANGED vars
  BY <1>2, <1>7 DEF Drain, Shutdown, Tick, vars
<1>8. ASSUME NEW k \in Arrivals, Acquire(k) \/ Respond(k) \/ Record(k) \/ Abort(k) \/ Panic(k)
      PROVE  ScheduleInv'
  <2>1. PICK s \in States \ {"none"} : task' = [task EXCEPT ![k] = s]
    BY <1>8 DEF Acquire, Respond, Record, Abort, Panic, States
  <2>2. task[k] # "none" /\ UNCHANGED <<config, scheduler, cursor, emitted, arrival, due>>
    BY <1>8 DEF Acquire, Respond, Record, Abort, Panic, Out, With
  <2>3. \A j \in Arrivals : task'[j] = "none" <=> task[j] = "none"
    BY <1>1, <2>1, <2>2
  <2> QED  BY <1>2, <2>2, <2>3
<1> QED
  BY <1>3, <1>4, <1>5, <1>6, <1>7, <1>8 DEF Next, Schedule, Request

LEMMA NextOutcome ==
    ASSUME OpenAssumption, TypeOK, OutcomeInv, [Next]_vars
    PROVE  OutcomeInv'
<1> USE DEF clock, schedule
<1>1. now \in Nat /\ finished_at \in [Arrivals -> Nat]
  BY DEF TypeOK
<1>2. CASE NextArrival
  BY <1>2 DEF NextArrival, OutcomeInv
<1>3. CASE SpawnRequest
  BY <1>3 DEF SpawnRequest, OutcomeInv
<1>4. CASE Drain
  BY <1>4 DEF Drain, OutcomeInv
<1>5. ASSUME NEW k \in Arrivals, Acquire(k) \/ Record(k) \/ Abort(k) \/ Panic(k)
      PROVE  OutcomeInv'
  BY <1>5 DEF Acquire, Record, Abort, Panic, OutcomeInv
<1>6. ASSUME NEW k \in Arrivals, Respond(k) PROVE OutcomeInv'
  BY <1>1, <1>6 DEF Respond, OutcomeInv
<1>7. CASE Tick
  BY <1>1, <1>7 DEF Tick, OutcomeInv
<1>8. CASE Shutdown \/ UNCHANGED vars
  BY <1>8 DEF Shutdown, vars, OutcomeInv
<1> QED
  BY <1>2, <1>3, <1>4, <1>5, <1>6, <1>7, <1>8 DEF Next, Schedule, Request

-----------------------------------------------------------------------------
(* The theorems                                                            *)

OpenInv == TypeOK /\ ScheduleInv /\ OutcomeInv

\* The invariant holds in every state of every run.
THEOREM OpenInvariant == Spec => []OpenInv
<1>1. Init => OpenInv
  BY OpenAssumption, InitTypeOK, InitSchedule DEF OpenInv
<1>2. OpenInv /\ [Next]_vars => OpenInv'
  BY OpenAssumption, NextTypeOK, NextSchedule, NextOutcome DEF OpenInv
<1> QED  BY <1>1, <1>2, PTL DEF Spec

\* Every variable of an open run keeps to its type, and no more requests hold a permit
\* than concurrency allows, for any number of requests.
THEOREM OpenTypeOK == Spec => []TypeOK
<1>1. OpenInv => TypeOK
  BY DEF OpenInv
<1> QED  BY OpenInvariant, <1>1, PTL

\* Every request of an open run is due when the schedule alone says, whatever delays the
\* scheduler, the permits or the calls.
THEOREM OpenIntended == Spec => []IntendedArrivals
<1>1. OpenInv => IntendedArrivals
  BY DEF OpenInv, ScheduleInv, IntendedArrivals, intended, base
<1> QED  BY OpenInvariant, <1>1, PTL

-----------------------------------------------------------------------------
(* The promise of a load run                                               *)

Expired == past_deadline(now) \/ aborting
Sent == With(States \ {"none"})

\* Every request sent is counted, dropped, lost or still out.
LEMMA Balance ==
    ASSUME OpenAssumption, task \in [Arrivals -> States]
    PROVE  /\ Arrivals \ With({"none"}) = Sent
           /\ Cardinality(Sent) = Cardinality(With({"counted"})) + Cardinality(With({"dropped", "aborted"}))
                                    + Cardinality(With({"panicked"})) + Cardinality(With(Ours))
<1> DEFINE A == {"counted"}  B == {"dropped", "aborted"}  P == {"panicked"}
<1>1. Arrivals \ With({"none"}) = Sent
  BY DEF With, Sent
<1>2. States \ {"none"} = ((A \cup B) \cup P) \cup Ours
  BY DEF States, Ours
<1>3. Cardinality(With(((A \cup B) \cup P) \cup Ours)) = Cardinality(With((A \cup B) \cup P)) + Cardinality(With(Ours))
  <2>1. ((A \cup B) \cup P) \cap Ours = {}
    BY DEF Ours
  <2> HIDE DEF A, B, P
  <2> QED  BY <2>1, WithUnion
<1>4. Cardinality(With((A \cup B) \cup P)) = Cardinality(With(A \cup B)) + Cardinality(With(P))
  <2>1. (A \cup B) \cap P = {}
    OBVIOUS
  <2> HIDE DEF A, B, P
  <2> QED  BY <2>1, WithUnion
<1>5. Cardinality(With(A \cup B)) = Cardinality(With(A)) + Cardinality(With(B))
  <2>1. A \cap B = {}
    OBVIOUS
  <2> HIDE DEF A, B, P
  <2> QED  BY <2>1, WithUnion
<1>6. Cardinality(Sent) = Cardinality(With(((A \cup B) \cup P) \cup Ours))
  BY <1>2, Zenon DEF Sent
<1> QED  BY <1>1, <1>3, <1>4, <1>5, <1>6

\* Between arrivals, the requests sent are those before the one slept for.
LEMMA SentBefore ==
    ASSUME OpenAssumption, TypeOK, ScheduleInv, scheduler = "sleep"
    PROVE  Cardinality(Sent) = emitted - 1
<1>1. emitted \in Nat /\ emitted > 0 /\ emitted <= MaxArrivals /\ MaxArrivals \in Nat
      /\ task \in [Arrivals -> States]
  BY DEF TypeOK, ScheduleInv, OpenAssumption, States
<1>2. Sent = 1..(emitted - 1)
  BY <1>1 DEF Sent, With, ScheduleInv, Arrivals
<1> QED  BY <1>1, <1>2, FS_Interval

LEMMA InitLoadRun == ASSUME OpenAssumption, Init PROVE LoadRun!Init
<1>1. \A S : "none" \notin S => With(S) = {}
  BY DEF Init, With
<1>2. Arrivals \ With({"none"}) = {}
  BY DEF Init, With
<1>3. \A S : "none" \notin S => Cardinality(With(S)) = 0
  BY <1>1, FS_EmptySet
<1>4. Cardinality(Arrivals \ With({"none"})) = 0
  BY <1>2, FS_EmptySet
<1>5. config.requests \in Nat
  BY ConfigTypes DEF Init
<1>6. (past_deadline(now) \/ aborting) \in BOOLEAN
  BY DEF Init, past_deadline
<1> QED  BY <1>3, <1>4, <1>5, <1>6 DEF LoadRun!Init, Init

LEMMA StepLoadRun ==
    ASSUME OpenAssumption, OpenInv, [Next]_vars
    PROVE  [LoadRun!Next]_(LoadRun!vars)
<1> USE DEF clock, schedule
<1> DEFINE S == Cardinality(Sent)
           C == Cardinality(With({"counted"}))
           D == Cardinality(With({"dropped", "aborted"}))
           L == Cardinality(With({"panicked"}))
           K == Cardinality(With(Ours))
           P == IF config.duration_stop # "wait" THEN "cut" ELSE "keep"
           B == IF timed THEN {} ELSE {config.requests}
<1>1. /\ config \in Configs /\ now \in Nat /\ emitted \in Nat
      /\ task \in [Arrivals -> States] /\ deadline \subseteq Nat
  BY ConfigTypes DEF OpenInv, TypeOK, States, deadline
<1>2. /\ S \in Nat /\ C \in Nat /\ D \in Nat /\ L \in Nat /\ K \in Nat
      /\ S = C + D + L + K
  BY <1>1, Balance, WithFinite DEF Sent
<1>3. config' = config /\ timed' = timed /\ deadline' = deadline /\ B' = B /\ P' = P
  BY DEF Next, Schedule, Request, vars, NextArrival, SpawnRequest, Drain, Acquire, Respond, Record, Abort,
         Panic, Shutdown, Tick, timed, deadline
<1>4. task' \in [Arrivals -> States]
  <2>1. TypeOK'
    BY NextTypeOK DEF OpenInv
  <2> QED  BY <2>1 DEF TypeOK, States
<1>5. Arrivals \ With({"none"}) = Sent /\ (Arrivals \ With({"none"}))' = Sent'
  BY <1>1, <1>4 DEF With, Sent
<1>6. LoadRun!in_flight = K
  <2>1. LoadRun!in_flight = S - (C + D + L)
    BY <1>5, Zenon DEF LoadRun!in_flight
  <2> HIDE DEF S, C, D, L, K
  <2> QED  BY <1>2, <2>1
<1>7. ASSUME Expired => Expired', S' = S, C' = C, D' = D, L' = L, report' = report
      PROVE  LoadRun!Next \/ UNCHANGED (LoadRun!vars)
  <2>1. CASE ~Expired /\ Expired'
    <3>1. (past_deadline(now) \/ aborting)' = TRUE /\ ~(past_deadline(now) \/ aborting)
      BY <2>1 DEF Expired, past_deadline
    <3> QED  BY <1>3, <1>5, <1>7, <3>1 DEF LoadRun!Next, LoadRun!Expire
  <2>2. CASE Expired <=> Expired'
    <3>1. (past_deadline(now) \/ aborting)' = (past_deadline(now) \/ aborting)
      BY <2>2 DEF Expired
    <3> QED  BY <1>3, <1>5, <1>7, <3>1 DEF LoadRun!vars
  <2> QED  BY <1>7, <2>1, <2>2
<1>8. ASSUME Expired' = Expired, S' = S + 1, C' = C, D' = D, L' = L, report' = report, report = {},
             \A n \in B : S < n
      PROVE  LoadRun!Next
  BY <1>3, <1>5, <1>8 DEF LoadRun!Next, LoadRun!Send, Expired
<1>9. ASSUME Expired' = Expired, S' = S, C' = C + 1, D' = D, L' = L, report' = report, K > 0
      PROVE  LoadRun!Next
  BY <1>3, <1>5, <1>6, <1>9 DEF LoadRun!Next, LoadRun!Count, Expired
<1>10. ASSUME Expired' = Expired, S' = S, C' = C, D' = D + 1, L' = L, report' = report, K > 0, P = "cut", Expired
       PROVE  LoadRun!Next
  <2>1. 1 \in 1..LoadRun!in_flight
    BY <1>2, <1>6, <1>10
  <2> QED  BY <1>3, <1>5, <1>10, <2>1 DEF LoadRun!Next, LoadRun!Drop, Expired
<1>11. ASSUME Expired' = Expired, S' = S, C' = C, D' = D, L' = L + 1, report' = report, K > 0
       PROVE  LoadRun!Next
  <2>1. 0 \in 0..C /\ C' = C - 0 /\ L' = L + 0 + 1
    BY <1>2, <1>11
  <2> QED  BY <1>3, <1>5, <1>6, <1>11, <2>1 DEF LoadRun!Next, LoadRun!Lose, Expired
<1>12. ASSUME Expired' = Expired, S' = S, C' = C, D' = D, L' = L, report = {}, report' = {C}, K = 0
       PROVE  LoadRun!Next
  BY <1>3, <1>5, <1>6, <1>12 DEF LoadRun!Next, LoadRun!Report, Expired
<1>13. ASSUME task' = task PROVE S' = S /\ C' = C /\ D' = D /\ L' = L
  BY <1>13 DEF Sent, With
<1>14. ASSUME UNCHANGED <<now, aborting>> PROVE Expired' = Expired
  BY <1>3, <1>14 DEF Expired, past_deadline
<1>15. ASSUME aborting => aborting', now' \in {now, now + 1} PROVE Expired => Expired'
  BY <1>1, <1>3, <1>15 DEF Expired, past_deadline
\* A task under way is one of those in flight, and there is no report yet.
<1>16. ASSUME NEW k \in Arrivals, task[k] \in Ours PROVE K > 0
  <2>1. k \in With(Ours)
    BY <1>16 DEF With
  <2>2. K # 0
    BY <2>1, WithFinite, FS_EmptySet
  <2> QED  BY <1>2, <2>2
<1>17. CASE NextArrival
  <2>1. UNCHANGED <<now, task, report>> /\ ~aborting
    BY <1>17 DEF NextArrival, OpenInv, OutcomeInv
  <2> QED  BY <1>7, <1>13, <1>15, <2>1
<1>18. CASE SpawnRequest
  <2>1. CASE shutdown
    <3>1. UNCHANGED <<now, task, report>> /\ ~aborting
      BY <1>18, <2>1 DEF SpawnRequest, OpenInv, OutcomeInv
    <3> QED  BY <1>7, <1>13, <1>15, <3>1
  <2>2. CASE ~shutdown
    <3>1. /\ scheduler = "sleep" /\ task' = [task EXCEPT ![emitted] = "queued"]
          /\ UNCHANGED <<now, aborting, report>>
      BY <1>18, <2>2 DEF SpawnRequest
    <3>2. emitted \in Arrivals /\ task[emitted] = "none" /\ (~timed => emitted <= request_passes) /\ report = {}
      BY <1>1, <3>1 DEF OpenInv, ScheduleInv, OutcomeInv, OpenAssumption, Arrivals
    <3>3. S' = S + 1
      BY <1>1, <3>1, <3>2, WithEnter DEF Sent, States
    <3>4. C' = C /\ D' = D /\ L' = L
      <4>1. "queued" \in States
        BY DEF States
      <4> QED  BY <1>1, <3>1, <3>2, <4>1, WithStay
    <3>5. \A n \in B : S < n
      <4>1. S = emitted - 1
        BY <3>1, SentBefore DEF OpenInv
      <4>2. request_passes \in Nat /\ request_passes <= config.requests /\ config.requests \in Nat
        BY <1>1, PassesType, ConfigTypes
      <4> QED  BY <1>1, <3>2, <4>1, <4>2
    <3> QED  BY <1>8, <1>14, <3>1, <3>2, <3>3, <3>4, <3>5
  <2> QED  BY <2>1, <2>2
<1>19. CASE Drain
  <2>1. /\ scheduler = "drain" /\ report' = {C} /\ Out = {} /\ UNCHANGED <<now, task, aborting>>
    BY <1>19 DEF Drain
  <2>2. report = {} /\ K = 0
    BY <2>1, FS_EmptySet DEF OpenInv, OutcomeInv, Out, Ours
  <2> QED  BY <1>12, <1>13, <1>14, <2>1, <2>2
<1>20. ASSUME NEW k \in Arrivals, Acquire(k) \/ Respond(k)
       PROVE  LoadRun!Next \/ UNCHANGED (LoadRun!vars)
  <2>1. PICK s \in Ours : task' = [task EXCEPT ![k] = s] /\ task[k] \in Ours
    BY <1>20 DEF Acquire, Respond, Ours
  <2>2. s \in States /\ UNCHANGED <<now, aborting, report>>
    BY <1>20 DEF Acquire, Respond, Ours, States
  <2>3. Sent' = Sent
    BY <1>1, <2>1, <2>2, WithStay DEF Sent, Ours
  <2>4. C' = C /\ D' = D /\ L' = L
    BY <1>1, <2>1, <2>2, WithStay DEF Ours
  <2> QED  BY <1>7, <1>14, <2>2, <2>3, <2>4
<1>21. ASSUME NEW k \in Arrivals, Record(k) PROVE LoadRun!Next
  <2>1. task[k] = "ended" /\ UNCHANGED <<now, aborting, report>>
    BY <1>21 DEF Record
  <2>2. K > 0 /\ Expired' = Expired
    BY <1>14, <1>16, <2>1 DEF Ours
  <2>3. CASE should_record_after_deadline(k)
    <3>1. task' = [task EXCEPT ![k] = "counted"] /\ "counted" \in States
      BY <1>21, <2>3 DEF Record, States
    <3>2. Sent' = Sent /\ D' = D /\ L' = L
      BY <1>1, <2>1, <3>1, WithStay DEF Sent
    <3>3. C' = C + 1
      BY <1>1, <2>1, <3>1, WithEnter
    <3> QED  BY <1>9, <2>1, <2>2, <3>2, <3>3
  <2>4. CASE ~should_record_after_deadline(k)
    <3>1. task' = [task EXCEPT ![k] = "dropped"] /\ "dropped" \in States
      BY <1>21, <2>4 DEF Record, States
    <3>2. Sent' = Sent /\ C' = C /\ L' = L
      BY <1>1, <2>1, <3>1, WithStay DEF Sent
    <3>3. D' = D + 1
      BY <1>1, <2>1, <3>1, WithEnter
    <3>4. P = "cut" /\ past_deadline(finished_at[k])
      BY <2>4 DEF should_record_after_deadline
    <3>5. past_deadline(now)
      <4>1. finished_at[k] <= now /\ finished_at[k] \in Nat
        BY DEF OpenInv, OutcomeInv, TypeOK
      <4> QED  BY <1>1, <3>4, <4>1 DEF past_deadline
    <3> QED  BY <1>10, <2>1, <2>2, <3>2, <3>3, <3>4, <3>5 DEF Expired
  <2> QED  BY <2>3, <2>4
<1>22. ASSUME NEW k \in Arrivals, Abort(k) PROVE LoadRun!Next
  <2>1. /\ task[k] \in Ours /\ task' = [task EXCEPT ![k] = "aborted"] /\ aborting
        /\ UNCHANGED <<now, aborting, report>>
    BY <1>22 DEF Abort, Out, With, Ours
  <2>2. K > 0 /\ Expired' = Expired /\ Expired
    BY <1>14, <1>16, <2>1 DEF Expired
  <2>3. Sent' = Sent /\ C' = C /\ L' = L
    <3>1. "aborted" \in States /\ task[k] \in States \ {"none", "counted", "panicked", "aborted", "dropped"}
      BY <2>1 DEF Ours, States
    <3>2. With(States \ {"none"})' = With(States \ {"none"})
      BY <1>1, <2>1, <3>1, WithStay
    <3>3. With({"counted"})' = With({"counted"})
      BY <1>1, <2>1, <3>1, WithStay
    <3>4. With({"panicked"})' = With({"panicked"})
      BY <1>1, <2>1, <3>1, WithStay
    <3> QED
      BY <3>2, <3>3, <3>4 DEF Sent
  <2>4. D' = D + 1
    BY <1>1, <2>1, WithEnter DEF Ours, States
  <2>5. P = "cut"
    BY <2>1 DEF OpenInv, OutcomeInv
  <2> QED  BY <1>10, <2>1, <2>2, <2>3, <2>4, <2>5
<1>23. ASSUME NEW k \in Arrivals, Panic(k) PROVE LoadRun!Next
  <2>1. /\ task[k] = "running" /\ task' = [task EXCEPT ![k] = "panicked"]
        /\ UNCHANGED <<now, aborting, report>>
    BY <1>23 DEF Panic
  <2>2. K > 0 /\ Expired' = Expired
    BY <1>14, <1>16, <2>1 DEF Ours
  <2>3. Sent' = Sent /\ C' = C /\ D' = D
    BY <1>1, <2>1, WithStay DEF Sent, States
  <2>4. L' = L + 1
    BY <1>1, <2>1, WithEnter DEF States
  <2> QED  BY <1>11, <2>1, <2>2, <2>3, <2>4
<1>24. CASE Shutdown \/ Tick \/ UNCHANGED vars
  <2>1. UNCHANGED <<task, report, aborting>> /\ now' \in {now, now + 1}
    BY <1>24 DEF Shutdown, Tick, vars
  <2> QED  BY <1>7, <1>13, <1>15, <2>1
<1> HIDE DEF S, C, D, L, K, P, B
<1> QED
  BY <1>17, <1>18, <1>19, <1>20, <1>21, <1>22, <1>23, <1>24 DEF Next, Schedule, Request

\* An open run is a load run as BenchSpec has it: every request it sent is in the
\* report, dropped by the policy, aborted under close or lost in a panic, and the report
\* is made once, when none is out.
THEOREM OpenImplements == Spec => LoadRun!Spec
<1>1. Init => LoadRun!Init
  BY OpenAssumption, InitLoadRun
<1>2. OpenInv /\ [Next]_vars => [LoadRun!Next]_(LoadRun!vars)
  BY OpenAssumption, StepLoadRun
<1> QED  BY <1>1, <1>2, OpenInvariant, PTL DEF Spec, LoadRun!Spec

=============================================================================
