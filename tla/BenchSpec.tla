----------------------------- MODULE BenchSpec -----------------------------
(***************************************************************************)
(* What a load run promises of its requests, whatever generates them.      *)
(*                                                                         *)
(* No more requests are sent than the budget.  Each request sent ends in   *)
(* one of three ways: counted in the report, dropped because it ended      *)
(* after the window of a run whose policy drops such requests, or lost     *)
(* with the worker that held it.  The report is made once, when every      *)
(* request has ended, and counts each counted request once.                *)
(***************************************************************************)
EXTENDS Naturals

VARIABLES
    budget,     \* {} or the largest number of requests, as a singleton
    policy,     \* "keep" or "cut": what becomes of requests that end late
    expired,    \* the window is over
    sent, counted, dropped, lost,
    report      \* {} or the number reported, as a singleton

vars == <<budget, policy, expired, sent, counted, dropped, lost, report>>

in_flight == sent - (counted + dropped + lost)

Init ==
    /\ budget \subseteq Nat /\ policy \in {"keep", "cut"}
    /\ expired \in BOOLEAN /\ report = {}     \* a window of no length is over as it opens
    /\ sent = 0 /\ counted = 0 /\ dropped = 0 /\ lost = 0

Expire ==
    /\ ~expired /\ expired' = TRUE
    /\ UNCHANGED <<budget, policy, sent, counted, dropped, lost, report>>

Send ==
    /\ report = {} /\ \A n \in budget : sent < n
    /\ sent' = sent + 1
    /\ UNCHANGED <<budget, policy, expired, counted, dropped, lost, report>>

Count ==
    /\ in_flight > 0 /\ counted' = counted + 1
    /\ UNCHANGED <<budget, policy, expired, sent, dropped, lost, report>>

\* One request that ends late, or all that are in flight when the run is cut.
Drop ==
    /\ policy = "cut" /\ expired
    /\ \E n \in 1..in_flight : dropped' = dropped + n
    /\ UNCHANGED <<budget, policy, expired, sent, counted, lost, report>>

\* A worker dies: its request in flight and some of what it had counted are lost.
Lose ==
    /\ in_flight > 0
    /\ \E n \in 0..counted : counted' = counted - n /\ lost' = lost + n + 1
    /\ UNCHANGED <<budget, policy, expired, sent, dropped, report>>

Report ==
    /\ report = {} /\ in_flight = 0 /\ report' = {counted}
    /\ UNCHANGED <<budget, policy, expired, sent, counted, dropped, lost>>

Next == Expire \/ Send \/ Count \/ Drop \/ Lose \/ Report

Spec == Init /\ [][Next]_vars

\* And the run ends: there is a report.
LiveSpec == Spec /\ <>(report # {})

=============================================================================
