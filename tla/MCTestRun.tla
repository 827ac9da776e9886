----------------------------- MODULE MCTestRun -----------------------------
(* Chains of one to three documents and the settings that tell runs apart.  *)
EXTENDS TestRun

CONSTANTS id, token

D(uses, defs) == [uses |-> uses, defs |-> defs]
MCChains == {<<D({}, {})>>, <<D({}, {id}), D({id}, {})>>,
             <<D({token}, {id}), D({id}, {id}), D({id}, {})>>}

Plain == [unit |-> "file", seeds |-> {}, write |-> FALSE, capture_exchange |-> FALSE,
          retry |-> <<<<>>, <<>>, 0>>, no_retry |-> <<<<>>, <<>>, FALSE>>]

\* What can be said of retries: an attribute over the OPTIONS over the command
\* line, and no_retry over all.
Retries == {<<<<>>, <<>>, 1>>, <<<<1>>, <<0>>, 0>>, <<<<>>, <<0>>, 1>>}
NoRetries == {<<<<>>, <<>>, FALSE>>, <<<<TRUE>>, <<FALSE>>, FALSE>>}

MCSettings ==
    {[unit |-> u, seeds |-> s, write |-> w, capture_exchange |-> c, retry |-> r, no_retry |-> n] :
        u \in {"file", "row", "fixture"}, s \in {{}, {token}}, w \in BOOLEAN, c \in BOOLEAN,
        r \in Retries, n \in NoRetries}

\* For OnlyWriteModeWrites.
CaptureSettings == {[Plain EXCEPT !.capture_exchange = TRUE]}

=============================================================================
