---------------------------- MODULE BenchClosed ----------------------------
(***************************************************************************)
(* run_benchmark's closed-loop model: concurrency workers, each a task     *)
(* that sends its next request when the one before has ended.              *)
(*                                                                         *)
(* A run stops by time (--duration) or by count (--requests, which         *)
(* --max-duration may cut short).  A worker looks at the clock and at the  *)
(* shutdown flag, then sleeps until its next slot, then sends: it does not *)
(* look again after the sleep.  Time is counted in ticks; between any two  *)
(* steps the clock may move, so every delay of the scheduler is here.      *)
(***************************************************************************)
EXTENDS Naturals, FiniteSets, Functions

CONSTANTS
    MaxWorkers,     \* bound: the largest --concurrency considered
    MaxTime,        \* bound: the clock stops here unless a worker sleeps longer
    MaxCall,        \* bound: ticks a call takes at most
    Configs         \* the resolved configurations considered

Workers == 1..MaxWorkers

\* An optional number: a set of one or of none.
Option == SUBSET Nat

\* gap[t]: ticks between two requests of the whole run under the rate that
\* target_rps_at gives t ticks into it (and ever after the last t); 0 is no target.
Config == [concurrency : Workers, docs : Nat, requests : Nat, duration : Option,
           max_duration : Option, duration_stop : {"close", "wait", "ignore"},
           gap : [0..MaxTime -> Nat]]

ASSUME BenchAssumption ==
    /\ MaxWorkers \in Nat \ {0} /\ MaxTime \in Nat /\ MaxCall \in Nat \ {0}
    /\ Configs \subseteq Config

VARIABLES
    config, now, shutdown_requested,
    pc,         \* worker -> "spawned", "head", "slot", "call", "done", "panicked"
    limit,      \* worker -> its deadline, as an option
    left,       \* worker -> requests left in its share (request-count mode)
    interval,   \* worker -> the interval sampled for the slot it waits for
    next_slot,  \* worker -> the time its next request is due
    begun,      \* worker -> requests it has sent
    begun_at,   \* worker -> when it sent the last, the one before and that before it
    late,       \* worker -> requests sent after its deadline or the shutdown
    local,      \* worker -> requests recorded in its own metrics
    dropped,    \* worker -> requests that ended unrecorded
    progress_count, joined,
    count,      \* requests in the merged metrics
    end_reason  \* "none" until the report

clock == <<config, now, shutdown_requested>>
worker == <<limit, left, interval, next_slot, begun, begun_at, late>>
tally == <<local, dropped, progress_count>>
main == <<joined, count, end_reason>>
vars == <<clock, pc, worker, tally, main>>

timed == config.duration # {}

LargerOf(x, y) == IF x > y THEN x ELSE y

\* Number of passes over the documents in request-count mode.
request_passes == config.requests \div LargerOf(config.docs, 1)

\* Variant: every worker takes the remainder.
RemainderForEach(w) ==
    request_passes \div config.concurrency + (request_passes % config.concurrency)

passes_per_worker == request_passes \div config.concurrency

worker_requests(w) ==
    passes_per_worker
        + (IF w = config.concurrency THEN request_passes % config.concurrency ELSE 0)

\* What target_rps_at asks for at time t, as a gap.
rate_gap(t) == config.gap[IF t < MaxTime THEN t ELSE MaxTime]

\* The interval of one worker at the rate of this moment.
worker_interval == rate_gap(now) * config.concurrency

Init ==
    /\ config \in Configs /\ now = 0 /\ shutdown_requested = FALSE
    /\ pc = [w \in Workers |-> IF w <= config.concurrency THEN "spawned" ELSE "done"]
    /\ limit = [w \in Workers |-> {}]
    /\ left = [w \in Workers |->
                 IF w <= config.concurrency THEN worker_requests(w) * config.docs ELSE 0]
    /\ interval = [w \in Workers |-> 0] /\ next_slot = [w \in Workers |-> 0]
    /\ begun = [w \in Workers |-> 0] /\ begun_at = [w \in Workers |-> [last |-> {}, second |-> {}, third |-> {}]]
    /\ late = [w \in Workers |-> 0]
    /\ local = [w \in Workers |-> 0] /\ dropped = [w \in Workers |-> 0]
    /\ progress_count = 0
    /\ joined = {} /\ count = 0 /\ end_reason = "none"

-----------------------------------------------------------------------------
(* A worker                                                                *)

\* The task starts: --duration is counted from here, --max-duration from the start
\* of the run.
Spawn(w) ==
    /\ pc[w] = "spawned" /\ pc' = [pc EXCEPT ![w] = "head"]
    /\ limit' = [limit EXCEPT ![w] = IF timed THEN {now + d : d \in config.duration}
                                              ELSE config.max_duration]
    /\ next_slot' = [next_slot EXCEPT ![w] = now]
    /\ UNCHANGED <<clock, left, interval, begun, begun_at, late, tally, main>>

past_limit(w) == \E d \in limit[w] : now >= d
must_stop(w) == shutdown_requested \/ past_limit(w)

\* Variant: a worker goes on when its share is used up.
ShareUnlimited(w) == FALSE

share_used(w) == ~timed /\ left[w] = 0

over(w) == must_stop(w) \/ share_used(w)

\* Between two requests: the share is used up, or it is time to stop, or the
\* worker samples the rate and waits for its slot.  Without a document a timed
\* worker only watches the clock.
Head(w) ==
    /\ pc[w] = "head"
    /\ IF over(w)
       THEN pc' = [pc EXCEPT ![w] = "done"] /\ UNCHANGED interval
       ELSE /\ config.docs > 0
            /\ pc' = [pc EXCEPT ![w] = "slot"]
            /\ interval' = [interval EXCEPT ![w] = worker_interval]
    /\ UNCHANGED <<clock, limit, left, next_slot, begun, begun_at, late, tally, main>>

\* Variant: a worker that is behind catches up with what it missed.
CatchesUp(w) == next_slot[w] + interval[w]

following_slot(w) == LargerOf(next_slot[w] + interval[w], now)

\* The slot has come, or there is no target rate: the request is sent.
Send(w) ==
    /\ pc[w] = "slot"
    /\ IF interval[w] = 0 THEN UNCHANGED next_slot
       ELSE now >= next_slot[w] /\ next_slot' = [next_slot EXCEPT ![w] = following_slot(w)]
    /\ pc' = [pc EXCEPT ![w] = "call"]
    /\ begun' = [begun EXCEPT ![w] = @ + 1]
    /\ begun_at' = [begun_at EXCEPT
                      ![w] = [last |-> {now}, second |-> @.last, third |-> @.second]]
    /\ late' = [late EXCEPT ![w] = @ + IF must_stop(w) THEN 1 ELSE 0]
    /\ UNCHANGED <<clock, limit, left, interval, tally, main>>

should_record_after_deadline(w) == past_limit(w) => config.duration_stop = "wait"

\* Variant: "wait" drops what ends late, as "ignore" does.
RecordsInTime(w) == timed => ~past_limit(w)

records(w) == timed => should_record_after_deadline(w)

\* The response is in.
Finish(w) ==
    /\ pc[w] = "call" /\ pc' = [pc EXCEPT ![w] = "head"]
    /\ left' = [left EXCEPT ![w] = IF timed THEN @ ELSE @ - 1]
    /\ IF records(w)
       THEN /\ local' = [local EXCEPT ![w] = @ + 1]
            /\ progress_count' = progress_count + 1 /\ UNCHANGED dropped
       ELSE dropped' = [dropped EXCEPT ![w] = @ + 1] /\ UNCHANGED <<local, progress_count>>
    /\ UNCHANGED <<clock, limit, interval, next_slot, begun, begun_at, late, main>>

\* The task panics in a request (a poisoned row source, for one).
Panic(w) ==
    /\ pc[w] = "call" /\ pc' = [pc EXCEPT ![w] = "panicked"]
    /\ UNCHANGED <<clock, worker, tally, main>>

-----------------------------------------------------------------------------
(* The run                                                                 *)

\* The metrics of a worker that ended are merged; those of one that panicked are
\* dropped without a word.
Join(w) ==
    /\ w \notin joined /\ pc[w] \in {"done", "panicked"}
    /\ joined' = joined \cup {w}
    /\ count' = count + IF pc[w] = "done" THEN local[w] ELSE 0
    /\ UNCHANGED <<clock, pc, worker, tally, end_reason>>

derive_end_reason ==
    IF shutdown_requested THEN "user_cancelled"
    ELSE IF timed THEN "duration_reached"
    ELSE IF \E d \in config.max_duration : now >= d THEN "max_duration_reached"
    ELSE "requests_completed"

Report ==
    /\ end_reason = "none" /\ joined = Workers
    /\ end_reason' = derive_end_reason
    /\ UNCHANGED <<clock, pc, worker, tally, joined, count>>

Shutdown ==
    /\ ~shutdown_requested /\ end_reason = "none" /\ shutdown_requested' = TRUE
    /\ UNCHANGED <<config, now, pc, worker, tally, main>>

\* A call is over within MaxCall: the transport's timeout.
Tick ==
    /\ end_reason = "none"
    /\ now < MaxTime \/ \E w \in Workers : pc[w] = "slot" /\ now < next_slot[w]
    /\ \A w \in Workers : pc[w] = "call" => now \notin {t + MaxCall : t \in begun_at[w].last}
    /\ now' = now + 1
    /\ UNCHANGED <<config, shutdown_requested, pc, worker, tally, main>>

Step(w) == Spawn(w) \/ Head(w) \/ Send(w) \/ Finish(w)

Next ==
    \/ \E w \in Workers : Step(w) \/ Panic(w) \/ Join(w)
    \/ Report \/ Shutdown \/ Tick

\* Tasks run, calls end and time passes; a panic or a shutdown need never come.
Fairness ==
    /\ \A w \in Workers : WF_vars(Step(w)) /\ WF_vars(Join(w))
    /\ WF_vars(Report) /\ WF_vars(Tick)

Spec == Init /\ [][Next]_vars
FairSpec == Spec /\ Fairness

-----------------------------------------------------------------------------
(* Properties                                                              *)

\* Every variable keeps to its type.
TypeOK ==
    /\ config \in Configs /\ now \in Nat /\ shutdown_requested \in BOOLEAN
    /\ pc \in [Workers -> {"spawned", "head", "slot", "call", "done", "panicked"}]
    /\ limit \in [Workers -> Option]
    /\ left \in [Workers -> Nat] /\ interval \in [Workers -> Nat] /\ next_slot \in [Workers -> Nat]
    /\ begun \in [Workers -> Nat]
    /\ begun_at \in [Workers -> [last : Option, second : Option, third : Option]]
    /\ late \in [Workers -> Nat] /\ local \in [Workers -> Nat] /\ dropped \in [Workers -> Nat]
    /\ progress_count \in Nat /\ joined \subseteq Workers /\ count \in Nat
    /\ end_reason \in {"none", "user_cancelled", "duration_reached",
                       "max_duration_reached", "requests_completed"}

\* The sum of f over its domain: f counts things, one pair stands for each.
Units(f) == UNION {{x} \X (1..f[x]) : x \in DOMAIN f}
Total(f) == Cardinality(Units(f))

\* --requests is never exceeded, however it divides among workers and documents, and
\* a run that says it completed its requests has sent every whole pass of them.
BudgetKept ==
    /\ ~timed => Total(begun) <= config.requests
    /\ end_reason = "requests_completed" /\ "panicked" \notin Range(pc)
         => Total(begun) = request_passes * config.docs

\* The smallest gap of the schedule, that of the highest rate.
ShortestGaps == {g \in Range(config.gap) : \A t \in 0..MaxTime : g <= config.gap[t]}

\* A worker never sends more than two requests within one of its intervals, however
\* late its calls or the scheduler made it: a slow call buys no burst afterwards.
PaceKept ==
    \A w \in Workers, g \in ShortestGaps :
        \A a \in begun_at[w].third, c \in begun_at[w].last : a + g * config.concurrency <= c

\* Once the deadline has passed or the shutdown came a worker sends one request at
\* most: the one whose slot it was already waiting for.
OneLateRequest == \A w \in Workers : late[w] <= 1

\* No worker sends more than it was asked to, while the run lasts or past its end.
LoadAsAsked == PaceKept /\ OneLateRequest

\* The run keeps the promise of a load run, its end included.
LoadRun == INSTANCE BenchSpec WITH
    budget <- IF timed THEN {} ELSE {config.requests},
    policy <- IF timed /\ config.duration_stop # "wait" THEN "cut" ELSE "keep",
    expired <- \E w \in Workers : past_limit(w),
    sent <- Total(begun),
    counted <- Total([w \in Workers |-> IF pc[w] = "panicked" THEN 0 ELSE local[w]]),
    dropped <- Total(dropped),
    lost <- Total([w \in Workers |-> IF pc[w] = "panicked" THEN begun[w] - dropped[w] ELSE 0]),
    report <- IF end_reason = "none" THEN {} ELSE {count}
PromiseKept == LoadRun!LiveSpec

=============================================================================
