--------------------------- MODULE MCBenchClosed ---------------------------
(* One and two workers, one and two documents, with and without a rate.     *)
EXTENDS BenchClosed

Flat(g) == [t \in 0..MaxTime |-> g]
Base == [concurrency |-> 2, docs |-> 1, requests |-> 0, duration |-> {}, max_duration |-> {},
         duration_stop |-> "wait", gap |-> Flat(0)]

Timed == {[Base EXCEPT !.docs = 2, !.duration = {1}, !.duration_stop = s, !.gap = Flat(1)]
            : s \in {"close", "wait"}}
Paced == {[Base EXCEPT !.concurrency = 1, !.requests = 4, !.gap = Flat(2)]}
Counted == {[Base EXCEPT !.requests = 3, !.max_duration = {2}, !.gap = Flat(1)],
            [Base EXCEPT !.docs = 2, !.requests = 7]}
MCConfigs == Timed \cup Paced \cup Counted

=============================================================================
