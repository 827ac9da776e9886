---------------------------- MODULE MCBenchOpen ----------------------------
(* Up to four arrivals under a flat rate, a burst that idles, and a rate    *)
(* that starts at zero; one and two permits; a window of no length.         *)
EXTENDS BenchOpen

Flat(g) == [t \in 0..MaxTime |-> g]
Idle == [t \in 0..MaxTime |-> IF t = 1 THEN 0 ELSE 1]
FromZero == [t \in 0..MaxTime |-> IF t = 0 THEN 0 ELSE 2]
Base == [concurrency |-> 1, docs |-> 1, requests |-> 3, duration |-> {}, max_duration |-> {},
         duration_stop |-> "wait", gap |-> Flat(1)]

MCConfigs ==
    {[Base EXCEPT !.requests = 0, !.duration = {3}, !.duration_stop = s, !.gap = Idle]
       : s \in {"close", "wait", "ignore"}}
    \cup {[Base EXCEPT !.concurrency = 2, !.gap = g, !.duration_stop = s]
       : g \in {Flat(1), FromZero}, s \in {"close", "wait"}}
    \cup {[Base EXCEPT !.concurrency = 2, !.max_duration = {2}, !.duration_stop = "ignore"],
          [Base EXCEPT !.max_duration = {0}],
          [Base EXCEPT !.requests = 4, !.docs = 1], [Base EXCEPT !.docs = 0]}

\* For EveryRequestSent.
TwoDocs == {[Base EXCEPT !.docs = 2]}

=============================================================================
