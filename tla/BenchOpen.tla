----------------------------- MODULE BenchOpen -----------------------------
(***************************************************************************)
(* run_open_model: requests arrive by a schedule, not when earlier ones    *)
(* end.                                                                    *)
(*                                                                         *)
(* One scheduler walks the arrival times that ArrivalSchedule derives from *)
(* the target rate, sleeps until each, and spawns the request as a task of *)
(* its own.  A task first takes one of concurrency permits and keeps it    *)
(* until its outcome is recorded.  At the end of the schedule the tasks    *)
(* still out are awaited, or aborted under duration_stop: close.           *)
(***************************************************************************)
EXTENDS Naturals, FiniteSets, FiniteSetsExt

CONSTANTS
    MaxArrivals,    \* bound: the most arrivals of any configuration considered
    MaxTime,        \* bound: the clock stops here unless the scheduler sleeps longer
    Configs

Arrivals == 1..MaxArrivals

\* gap[t]: ticks to the next arrival at the rate that holds t ticks into the run
\* (and ever after the last t); 0 where the rate is zero.  duration and
\* max_duration are sets of at most one number.
Config == [concurrency : Nat, docs : Nat, requests : Nat, duration : SUBSET Nat,
           max_duration : SUBSET Nat, duration_stop : {"close", "wait", "ignore"},
           gap : [0..MaxTime -> Nat]]

\* MaxArrivals is what it says: a count is within it, and so is a duration, in which
\* arrivals come at most one a tick.
ASSUME OpenAssumption ==
    /\ MaxArrivals \in Nat /\ MaxTime \in Nat /\ Configs \subseteq Config
    /\ \A c \in Configs : IF c.duration = {} THEN c.requests <= MaxArrivals
                         ELSE \A d \in c.duration : d <= MaxArrivals

VARIABLES
    config, now, shutdown,
    scheduler,      \* "next", "sleep", "drain", "done"
    cursor, emitted, arrival,   \* of ArrivalSchedule; the arrival slept for
    task,           \* arrival -> "none", "queued", "running", "ended" or how it ended
    due,            \* arrival -> the intended time
    finished_at,    \* arrival -> when the response was in
    aborting,
    report          \* {} or the count of the metrics returned

clock == <<config, now, shutdown>>
schedule == <<scheduler, cursor, emitted, arrival>>
vars == <<clock, schedule, task, due, finished_at, aborting, report>>

timed == config.duration # {}
deadline == IF timed THEN config.duration ELSE config.max_duration
past_deadline(t) == \E d \in deadline : t >= d

\* Number of arrivals in request-count mode: one request each, although a pass is
\* one request of every document.
request_passes == config.requests \div (IF config.docs > 1 THEN config.docs ELSE 1)

rate_gap(t) == config.gap[IF t < MaxTime THEN t ELSE MaxTime]

Init ==
    /\ config \in Configs /\ now = 0 /\ shutdown = FALSE
    /\ scheduler = IF config.docs = 0 THEN "drain" ELSE "next"
    /\ cursor = 0 /\ emitted = 0 /\ arrival = 0
    /\ task = [k \in Arrivals |-> "none"]
    /\ due = [k \in Arrivals |-> 0] /\ finished_at = [k \in Arrivals |-> 0]
    /\ aborting = FALSE /\ report = {}

-----------------------------------------------------------------------------
(* The scheduler                                                           *)

\* The times from a cursor on at which the rate is positive: ArrivalSchedule walks
\* an idle schedule step by step.
busy_from(c) == {t \in c..(IF c > MaxTime THEN c ELSE MaxTime) : rate_gap(t) > 0}

exhausted ==
    IF timed THEN \A d \in config.duration : ~\E t \in busy_from(cursor) : t < d
             ELSE emitted >= request_passes

\* Variant: the next arrival is counted from now, not from the one before.
FromNow(a) == now + rate_gap(a)

cursor_after(a) == a + rate_gap(a)

\* The next arrival of the schedule is computed first, shutdown and deadline are
\* looked at after it.  A schedule whose rate is zero for good has none and, bounded
\* by count, looks for it without end: no step is enabled then.
NextArrival ==
    /\ scheduler = "next" /\ (exhausted \/ busy_from(cursor) # {})
    /\ IF exhausted \/ shutdown \/ past_deadline(now)
       THEN /\ scheduler' = "drain" /\ aborting' = (config.duration_stop = "close")
            /\ UNCHANGED <<cursor, emitted, arrival>>
       ELSE /\ arrival' = Min(busy_from(cursor)) /\ cursor' = cursor_after(arrival')
            /\ emitted' = emitted + 1
            /\ scheduler' = "sleep" /\ UNCHANGED aborting
    /\ UNCHANGED <<clock, task, due, finished_at, report>>

\* The time of the arrival has come: the request is spawned and the scheduler goes on.
SpawnRequest ==
    /\ scheduler = "sleep" /\ now >= arrival
    /\ IF shutdown
       THEN /\ scheduler' = "drain" /\ aborting' = (config.duration_stop = "close")
            /\ UNCHANGED <<task, due>>
       ELSE /\ task' = [task EXCEPT ![emitted] = "queued"]
            /\ due' = [due EXCEPT ![emitted] = arrival]
            /\ scheduler' = "next" /\ UNCHANGED aborting
    /\ UNCHANGED <<clock, cursor, emitted, arrival, finished_at, report>>

With(states) == {k \in Arrivals : task[k] \in states}
Out == With({"queued", "running", "ended"})

\* Every task is joined; the metrics are all there is.
Drain ==
    /\ scheduler = "drain" /\ Out = {}
    /\ scheduler' = "done" /\ report' = {Cardinality(With({"counted"}))}
    /\ UNCHANGED <<clock, cursor, emitted, arrival, task, due, finished_at, aborting>>

-----------------------------------------------------------------------------
(* A request                                                               *)

permits_held == With({"running", "ended"})

\* Variant: a permit too many.
OneMorePermit == Cardinality(permits_held) <= config.concurrency

\* The semaphore has at least one permit.
permit_free ==
    Cardinality(permits_held) < (IF config.concurrency > 1 THEN config.concurrency ELSE 1)

Acquire(k) ==
    /\ task[k] = "queued" /\ permit_free
    /\ task' = [task EXCEPT ![k] = "running"]
    /\ UNCHANGED <<clock, schedule, due, finished_at, aborting, report>>

Respond(k) ==
    /\ task[k] = "running"
    /\ task' = [task EXCEPT ![k] = "ended"]
    /\ finished_at' = [finished_at EXCEPT ![k] = now]
    /\ UNCHANGED <<clock, schedule, due, aborting, report>>

\* Variant: what ends late is dropped in every mode.
RecordsInTime(k) == ~past_deadline(finished_at[k])

should_record_after_deadline(k) ==
    past_deadline(finished_at[k]) => config.duration_stop = "wait"

\* The metrics' lock is awaited between the response and the record.
Record(k) ==
    /\ task[k] = "ended"
    /\ task' = [task EXCEPT ![k] = IF should_record_after_deadline(k) THEN "counted" ELSE "dropped"]
    /\ UNCHANGED <<clock, schedule, due, finished_at, aborting, report>>

\* A task is aborted at an await, be its response in or not.
Abort(k) ==
    /\ aborting /\ k \in Out
    /\ task' = [task EXCEPT ![k] = "aborted"]
    /\ UNCHANGED <<clock, schedule, due, finished_at, aborting, report>>

Panic(k) ==
    /\ task[k] = "running"
    /\ task' = [task EXCEPT ![k] = "panicked"]
    /\ UNCHANGED <<clock, schedule, due, finished_at, aborting, report>>

-----------------------------------------------------------------------------
Shutdown ==
    /\ ~shutdown /\ scheduler # "done" /\ shutdown' = TRUE
    /\ UNCHANGED <<config, now, schedule, task, due, finished_at, aborting, report>>

Tick ==
    /\ scheduler # "done"
    /\ now < MaxTime \/ (scheduler = "sleep" /\ now < arrival)
    /\ now' = now + 1
    /\ UNCHANGED <<config, shutdown, schedule, task, due, finished_at, aborting, report>>

Schedule == NextArrival \/ SpawnRequest \/ Drain
Request(k) == Acquire(k) \/ Respond(k) \/ Record(k)

Next ==
    \/ Schedule \/ Shutdown \/ Tick
    \/ \E k \in Arrivals : Request(k) \/ Abort(k) \/ Panic(k)

\* Tasks run, calls end, an abort takes effect and time passes.  The semaphore is
\* first come, first served, so a queued task is not passed over for ever.
Fairness ==
    /\ WF_vars(Schedule) /\ WF_vars(Tick)
    /\ \A k \in Arrivals : SF_vars(Acquire(k)) /\ WF_vars(Respond(k) \/ Record(k))

Spec == Init /\ [][Next]_vars
FairSpec == Spec /\ Fairness

-----------------------------------------------------------------------------
(* Properties                                                              *)

\* Every variable keeps to its type, and no more requests are in flight than there
\* are permits.
TypeOK ==
    /\ config \in Configs /\ now \in Nat /\ shutdown \in BOOLEAN
    /\ scheduler \in {"next", "sleep", "drain", "done"}
    /\ cursor \in Nat /\ emitted \in Nat /\ arrival \in Nat
    /\ task \in [Arrivals -> {"none", "queued", "running", "ended",
                              "counted", "dropped", "aborted", "panicked"}]
    /\ due \in [Arrivals -> Nat] /\ finished_at \in [Arrivals -> Nat]
    /\ aborting \in BOOLEAN /\ report \subseteq Nat
    /\ config.concurrency >= 1
         => Cardinality(With({"running", "ended"})) <= config.concurrency

\* Requests are due when the schedule says, each one gap after the one before, and
\* never at a moment of zero rate: no delay of a request, of a permit or of the
\* scheduler moves a later arrival, which is what keeps the latencies honest.
IntendedArrivals ==
    \A k \in 1..emitted : task[k] # "none" =>
        due[k] = Min(busy_from(IF k = 1 THEN 0 ELSE due[k - 1] + rate_gap(due[k - 1])))

\* The run keeps the promise of a load run, its end included: panicked tasks and
\* aborted ones do not keep it open.
LoadRun == INSTANCE BenchSpec WITH
    budget <- IF timed THEN {} ELSE {config.requests},
    policy <- IF config.duration_stop # "wait" THEN "cut" ELSE "keep",
    expired <- past_deadline(now) \/ aborting,
    sent <- Cardinality(Arrivals \ With({"none"})),
    counted <- Cardinality(With({"counted"})),
    dropped <- Cardinality(With({"dropped", "aborted"})),
    lost <- Cardinality(With({"panicked"})),
    report <- report
PromiseKept == LoadRun!LiveSpec

\* command-line help, args.rs:344: "Total number of requests to send".
EveryRequestSent ==
    scheduler = "done" /\ ~timed /\ ~shutdown /\ deadline = {}
        => Cardinality(Arrivals \ With({"none"})) = config.requests

=============================================================================
