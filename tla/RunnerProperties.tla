-------------------------- MODULE RunnerProperties --------------------------
(***************************************************************************)
(* What a run of one document promises: a verdict that rests on checks     *)
(* made, in the order of the stream, a snapshot that is the server's       *)
(* answer, and an end.                                                     *)
(***************************************************************************)
EXTENDS Runner

\* Section k is run as part of the RESPONSE or ERROR before it.
IsAttached(d, k) ==
    /\ k > 1 /\ Attaches(d, k - 1) /\ ~get_skip(d, k - 1)
    /\ d[k - 1].type \in {"RESPONSE", "ERROR"}

\* The expectations section k states: one for each message, status or assertion
\* block it holds against the call, in each of its iterations.
Obligations(d, k) ==
    CASE IsAttached(d, k) ->
            get_repeat(d, k - 1) * (IF d[k - 1].type = "ERROR" THEN 1 ELSE Len(d[k - 1].want))
      [] ~IsAttached(d, k) /\ get_skip(d, k) -> 0
      [] OTHER ->
            get_repeat(d, k) * (CASE d[k].type \in {"RESPONSE", "ERROR"} -> Len(d[k].want)
                                  [] d[k].type = "ASSERTS"               -> 1
                                  [] OTHER                               -> 0)

\* Those of the first k sections, for every k.
ObligationsUpTo(d) ==
    LET upto[k \in 0..Len(d)] == IF k = 0 THEN 0 ELSE upto[k - 1] + Obligations(d, k)
    IN  upto

AllObligations(d) == ObligationsUpTo(d)[Len(d)]

\* s, n times over.
Times(s, n) == [k \in 1..(n * Len(s)) |-> s[((k - 1) % Len(s)) + 1]]

\* The messages RESPONSE section k expects, in each of its iterations.
Stated(d, k) ==
    IF d[k].type = "RESPONSE" /\ ~get_skip(d, k) THEN Times(d[k].want, get_repeat(d, k)) ELSE <<>>

\* Those of the first k sections, in order, for every k.
ExpectationsUpTo(d) ==
    LET upto[k \in 0..Len(d)] == IF k = 0 THEN <<>> ELSE upto[k - 1] \o Stated(d, k)
    IN  upto

Expectations(d) == ExpectationsUpTo(d)[Len(d)]

MatchesPrefix(expected, s) ==
    Len(expected) <= Len(s) /\ \A k \in DOMAIN expected : expected[k] = s[k]

\* A document that checks the stream with RESPONSE sections alone.
ResponsesOnly(d) == ~HasType(d, "ASSERTS") /\ ~HasType(d, "ERROR") /\ HasType(d, "RESPONSE")

\* The last reader runs once: it drains the stream in its first iteration, and another
\* would find it at its end (README).
DrainsOnce(d) ==
    \A k \in DOMAIN d :
        d[k].type = "RESPONSE" /\ ~get_skip(d, k) /\ IsLastReader(d, k) => get_repeat(d, k) = 1

\* A document whose verdict is a comparison with the stream.
Streamlined(d) == ResponsesOnly(d) /\ DrainsOnce(d)

Finished == pc = "done"
CleanPass == Finished /\ result.status = "pass" /\ failure_reasons = {} /\ Judging

\* Every ERROR with an attached ASSERTS has a content, so that there is a target to
\* assert on whatever the error.
ErrorsHaveTargets(d) ==
    \A k \in DOMAIN d : d[k].type = "ERROR" /\ Attaches(d, k) => d[k].want # <<>>

\* No RESPONSE hands its messages to an ASSERTS.
NoneAttached(d) == \A k \in DOMAIN d : d[k].type = "RESPONSE" => ~Attaches(d, k)

\* The checks made can be held against the sections one by one.  Over HTTP the code
\* parts from them in three places: an error with no status gives the ASSERTS of an
\* empty ERROR no target, expectations put off past the last RESPONSE are never
\* compared, and a RESPONSE of a bidi document puts off its messages but not its
\* ASSERTS, or takes over the messages of others.
Accountable ==
    settings.http => /\ ErrorsHaveTargets(doc)
                     /\ deferred_bidi_expectations = <<>>
                     /\ CallKind = "bidi" => NoneAttached(doc)

\* A test that passes with its assertions on has checked every expectation its
\* sections state, and each was found to hold: none is lost by deferral,
\* attachment, repetition or an early exit from a section.
NoSilentPass == CleanPass /\ Accountable => met = AllObligations(doc)

\* A clean pass has settled every expectation the run came to: none was dropped
\* between being reached and being compared.  Over HTTP this leaves aside the two
\* ways the code loses one: deferrals no RESPONSE picks up, and the ASSERTS of an
\* ERROR that has no target.
EveryCheckHeld ==
    /\ CleanPass
    /\ settings.http => deferred_bidi_expectations = <<>> /\ ErrorsHaveTargets(doc)
    => met = due

\* What the ledger says at every step: an expectation reached and not settled is
\* deferred, or is one the RESPONSE being read has still to take a message for.
Ledger ==
    Judging /\ failure_reasons = {} /\ (settings.http => ErrorsHaveTargets(doc))
    => met + Len(deferred_bidi_expectations) + Held(pc = "read", Len(todo)) = due

\* A REQUEST never finds the request stream closed: readers close it only past the
\* last REQUEST, whatever is skipped or repeated in between.  (run_one still has a
\* branch for it, runner.rs:1362.)
RequestsOpenWhileSending == Sending => tx_open

\* Responses are matched in the order received: what a passing run of RESPONSE
\* sections expected is how the server's messages begin.  (Over HTTP this leaves aside
\* deferrals no RESPONSE picks up.)
PassedInOrder ==
    /\ CleanPass /\ Streamlined(doc)
    /\ settings.http => deferred_bidi_expectations = <<>>
    => MatchesPrefix(Expectations(doc), served)

\* And it does not fail for nothing: with no fault of the transport, a run of
\* RESPONSE sections fails only when the messages do not begin as expected.  (An
\* HTTP exchange that ends in an error delivers that error alone.)
FailedForCause ==
    /\ Finished /\ Streamlined(doc) /\ Judging /\ ~transport_failure
    /\ failure_reasons # {} /\ failure_reasons \subseteq {"mismatch", "no message"}
    /\ settings.http => last_error = NoError
    => ~MatchesPrefix(Expectations(doc), served)

\* Of RESPONSE sections, without a fault of the transport, the verdict is that of
\* comparing what they expect with how the stream begins.
VerdictFollowsStream == PassedInOrder /\ FailedForCause

\* No RESPONSE section of the document is empty.
Contentful(d) == \A k \in DOMAIN d : d[k].type = "RESPONSE" => d[k].want # <<>>

\* The response a snapshot is taken from holds every message the server sent, in
\* order, whichever section or drain took it off the stream.  (An HTTP exchange that
\* ends in an error delivers that error alone; an empty last RESPONSE drains it, and
\* the snapshot holds neither the messages nor the error.)
SnapshotComplete ==
    /\ Finished /\ result.response /\ ~transport_failure /\ ~HasType(doc, "ERROR")
    /\ settings.http => ~captured.error /\ Contentful(doc)
    => captured.messages = served

\* A read that timed out drops the stream, so later sections fail fast instead of
\* timing out one by one: no section reads a stream again.
FailFastAfterTimeout ==
    [][pc \notin {"final await", "final drain", "verdict", "done"}
         /\ "timeout" \in failure_reasons => ~stream']_vars

\* Every run of a document comes to an end, against a server that may stall at any
\* point, or it waits for the one message of a call that has had its headers.
EndsUnlessStalled == <>(Finished \/ [](call = "headers"))

-----------------------------------------------------------------------------
(* What the guides and the comments say, and the code does not do.         *)

\* command-line.md:70: every run of a document comes to an end.
Termination == <>Finished

\* streaming.md:29-30: the test fails if any message does not match, so a clean pass
\* has checked all that the sections state.
PassMeansAllChecked == CleanPass => met = AllObligations(doc)

\* streaming.md:29: "The test fails if the server sends a different number of
\* messages".
PassMeansSameCount ==
    CleanPass /\ ResponsesOnly(doc) => Len(served) = Len(Expectations(doc))

\* attributes.md:44: #[repeat(N)] re-executes a RESPONSE N times in a row, so a
\* server that sends what N executions expect passes.
RepeatedResponsePasses ==
    /\ Finished /\ ResponsesOnly(doc) /\ Judging /\ ~transport_failure
    => (failure_reasons = {} <=> MatchesPrefix(Expectations(doc), served))

=============================================================================
