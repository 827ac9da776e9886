------------------------------ MODULE TestRun ------------------------------
(***************************************************************************)
(* One unit of a suite from its start to its result: a test file, one row  *)
(* of a parameterized test, or a fixture.                                  *)
(*                                                                         *)
(* The documents of a file run in order and share their variables; the     *)
(* first that fails ends the attempt.  An attempt that failed in transport *)
(* is run again from the first document.  A response buffered on the way   *)
(* is written back to the file.  run_one is one step here: what it does    *)
(* between the call and the verdict is Runner's.                           *)
(***************************************************************************)
EXTENDS Naturals, Sequences

CONSTANTS
    Names,          \* variables an EXTRACT can bind
    Chains,         \* the lists of documents considered
    Settings        \* the ways to run them considered

Document == [uses : SUBSET Names, defs : SUBSET Names]

\* Each of retry and no_retry is what the attributes, the OPTIONS and the command
\* line say, in this order; the first two may be silent.
Said(T) == {s \in Seq(T) : Len(s) <= 1}
Setting ==
    [unit : {"file", "row", "fixture"}, seeds : SUBSET Names,
     write : BOOLEAN, capture_exchange : BOOLEAN,
     retry : Said(Nat) \X Said(Nat) \X Nat,
     no_retry : Said(BOOLEAN) \X Said(BOOLEAN) \X BOOLEAN]

ASSUME TestRunAssumption ==
    /\ Chains \subseteq Seq(Document) \ {<<>>}
    /\ Settings \subseteq Setting

VARIABLES
    chain, settings,
    pc,             \* "load", "attempt", "run", "judge", "done"
    attempt,
    current,        \* the document run next
    variables,      \* each variable bound, with the attempt and document that did
    acc,            \* ChainAccumulator
    log,            \* every run of a document so far
    result,         \* "none", "pass" or "fail"
    file            \* <<>>, or the run of a document whose response it now holds

testPlan == <<chain, settings>>
testVars == <<testPlan, pc, attempt, current, variables, acc, log, result, file>>

Effective(said) == Head(said[1] \o said[2] \o <<said[3]>>)

\* A fixture is run once.  A file's or a row's own settings are those of its head.
max_retries ==
    IF settings.unit = "fixture" \/ Effective(settings.no_retry) THEN 0
    ELSE Effective(settings.retry)

Seeded == [n \in settings.seeds |-> [attempt |-> 0, doc |-> 0]]

NoResponse == <<>>
Fresh == [failed |-> FALSE, kind |-> "none", code |-> FALSE, response |-> NoResponse]

TestInit ==
    /\ chain \in Chains /\ settings \in Settings
    /\ settings.unit = "row" => ~settings.write         \* rejected at expansion
    /\ settings.unit = "fixture" => settings.seeds = {}
    /\ pc = "load" /\ attempt = 0 /\ current = 1
    /\ variables = Seeded /\ acc = Fresh /\ log = {}
    /\ result = "none" /\ file = NoResponse

\* A file that does not parse or validate, or whose OPTIONS are invalid, fails.
Load(ok) ==
    /\ pc = "load"
    /\ IF ok THEN pc' = "attempt" /\ UNCHANGED result
             ELSE pc' = "done" /\ result' = "fail"
    /\ UNCHANGED <<testPlan, attempt, current, variables, acc, log, file>>

-----------------------------------------------------------------------------
(* One attempt                                                             *)

\* Variant: a second attempt finds the variables of the first.
BeginAttemptWithLeftovers ==
    /\ pc = "attempt"
    /\ pc' = "run" /\ attempt' = attempt + 1 /\ current' = 1
    /\ acc' = Fresh
    /\ UNCHANGED <<testPlan, variables, log, result, file>>

BeginAttempt ==
    /\ pc = "attempt"
    /\ pc' = "run" /\ attempt' = attempt + 1 /\ current' = 1
    /\ variables' = Seeded /\ acc' = Fresh
    /\ UNCHANGED <<testPlan, log, result, file>>

\* What becomes of a document.  It is "clean" or a "mismatch": the runner heard the
\* server out, and what it heard is as expected or is not.  It is "unresolved" when a
\* placeholder of a REQUEST has no value: run_one returns at once (runner.rs:1339).
\* It is "refused" when the call failed at its start without an answer of the server
\* and an ERROR expected as much (runner.rs:2025).  Other failures on the way are
\* "transport", and "config" is a document rejected before its call.  The message of
\* a failure may look like it carries a retryable transport code whatever it is about.
Causes == {"clean", "mismatch", "unresolved", "refused", "transport", "config"}

\* run_one's own verdict.
Fails(cause) ==
    /\ cause \notin {"clean", "refused"}
    /\ ~(settings.write /\ cause = "mismatch")

FailureKind(cause) == IF cause = "transport" THEN "transport" ELSE "assertion"

buffering == settings.write \/ settings.capture_exchange

\* The ways out of run_one that hand its buffer over, whatever is in it.
Responds(cause) == cause \notin {"unresolved", "refused", "config"}

\* Variant: the first response is kept.
FirstResponse(run) ==
    IF buffering /\ Responds(run.cause) /\ acc.response = NoResponse THEN run ELSE acc.response

\* The response of an earlier document stays when this one gives none.
LastResponse(run) == IF buffering /\ Responds(run.cause) THEN run ELSE acc.response

Absorbed(run) ==
    [failed |-> Fails(run.cause),
     kind |-> IF Fails(run.cause) THEN FailureKind(run.cause) ELSE "none",
     code |-> run.code, response |-> LastResponse(run)]

\* Variant: the chain runs on after a failure.
absorbAll(run) == acc' = Absorbed(run) /\ pc' = IF run.doc = Len(chain) THEN "judge" ELSE "run"

\* Folds a document's result in; a failure ends the attempt.
absorb(run) ==
    /\ acc' = Absorbed(run)
    /\ pc' = IF Fails(run.cause) \/ run.doc = Len(chain) THEN "judge" ELSE "run"

\* run_one: a document that uses a variable no one has bound cannot be clean, one
\* that is not clean may have run any of its EXTRACTs.  A call refused at its start
\* leaves an EXTRACT nothing to read, which is a failure.
RunDocument(cause, bound, code) ==
    /\ pc = "run"
    /\ LET doc == chain[current]
           known == DOMAIN variables \cup bound
           run == [attempt |-> attempt, doc |-> current, cause |-> cause, code |-> code,
                   from |-> {variables[n] : n \in doc.uses \cap DOMAIN variables}]
       IN  /\ bound \subseteq doc.defs
           /\ cause \in {"clean", "refused"} => bound = doc.defs /\ doc.uses \subseteq DOMAIN variables
           /\ cause \in {"refused", "config"} => bound = {}
           /\ cause = "unresolved" => ~(doc.uses \cup doc.defs \subseteq known)
           /\ code => Fails(cause)
           /\ variables' = [n \in known |->
                    IF n \in bound THEN [attempt |-> attempt, doc |-> current] ELSE variables[n]]
           /\ absorb(run) /\ log' = log \cup {run}
    /\ current' = current + 1
    /\ UNCHANGED <<testPlan, attempt, result, file>>

\* run_one gives no result at all (no client could be made): the unit fails at
\* once, whatever its earlier documents answered.
RunError ==
    /\ pc = "run"
    /\ pc' = "done" /\ result' = "fail"
    /\ UNCHANGED <<testPlan, attempt, current, variables, acc, log, file>>

-----------------------------------------------------------------------------
(* Between attempts, and after the last                                    *)

\* Variant: what the message looks like is enough.
should_retry_message == acc.failed /\ acc.code

should_retry_result == acc.failed /\ acc.kind = "transport" /\ acc.code

\* Variant: one attempt too many.
RetryOnceMore ==
    /\ pc = "judge" /\ should_retry_result /\ attempt <= max_retries + 1
    /\ pc' = "attempt"
    /\ UNCHANGED <<testPlan, attempt, current, variables, acc, log, result, file>>

\* attempt here counts from 1, in the code from 0.
Retry ==
    /\ pc = "judge" /\ should_retry_result /\ attempt <= max_retries
    /\ pc' = "attempt"
    /\ UNCHANGED <<testPlan, attempt, current, variables, acc, log, result, file>>

\* The last attempt is the result, and its response, if there is one, goes to the
\* file.  A file that cannot be written is a failure.
Conclude(written) ==
    /\ pc = "judge" /\ ~(should_retry_result /\ attempt <= max_retries)
    /\ pc' = "done"
    /\ LET update == settings.unit = "file" /\ acc.response # NoResponse
       IN  /\ file' = IF update /\ written THEN acc.response ELSE file
           /\ result' = IF acc.failed \/ (update /\ ~written) THEN "fail" ELSE "pass"
    /\ UNCHANGED <<testPlan, attempt, current, variables, acc, log>>

Run == \E cause \in Causes, bound \in SUBSET Names, code \in BOOLEAN :
            RunDocument(cause, bound, code)

TestNext ==
    \/ \E ok \in BOOLEAN : Load(ok) \/ Conclude(ok)
    \/ BeginAttempt \/ Run \/ RunError \/ Retry

TestSpec == TestInit /\ [][TestNext]_testVars

-----------------------------------------------------------------------------
(* Properties                                                              *)

Binding == [attempt : Nat, doc : Nat]
DocumentRun ==
    [attempt : Nat, doc : Nat, cause : Causes, code : BOOLEAN, from : SUBSET Binding]

\* Every variable keeps to its type, and there is never one attempt more than the
\* settings allow.
TestTypeOK ==
    /\ chain \in Chains /\ settings \in Settings
    /\ pc \in {"load", "attempt", "run", "judge", "done"}
    /\ attempt \in 0..(max_retries + 1) /\ current \in 1..(Len(chain) + 1)
    /\ DOMAIN variables \subseteq Names
    /\ \A n \in DOMAIN variables : variables[n] \in Binding
    /\ acc.failed \in BOOLEAN /\ acc.kind \in {"none", "assertion", "transport"}
    /\ acc.code \in BOOLEAN /\ acc.response \in DocumentRun \cup {NoResponse}
    /\ log \subseteq DocumentRun
    /\ result \in {"none", "pass", "fail"} /\ file \in DocumentRun \cup {NoResponse}

\* What a document is sent comes from the seed or from an earlier document of the
\* same attempt, never from an attempt given up.
VariablesFlowForward ==
    \A r \in log : \A b \in r.from :
        b.attempt = 0 \/ (b.attempt = r.attempt /\ b.doc < r.doc)

\* A pass is a pass of the whole chain in one attempt, the last: every document
\* ran in it and none failed, after a failure no other document runs.
PassMeansWholeChain ==
    /\ result = "pass" =>
        \A d \in DOMAIN chain : \E r \in log :
            r.attempt = attempt /\ r.doc = d /\ ~Fails(r.cause)
    /\ \A r, s \in log : r.attempt = s.attempt /\ r.doc < s.doc => ~Fails(r.cause)

\* An attempt is given up only because its last document failed in transport with
\* a code worth retrying: an assertion is never given a second chance.
RetriedForTransportAlone ==
    \A a \in 1..attempt : a < attempt \/ pc = "attempt" =>
        \E r \in log : r.attempt = a /\ r.cause = "transport" /\ r.code

\* The file is rewritten once at most, at the end, by a unit that is a file, with
\* the last response its last attempt heard: none of an attempt given up, and none
\* of a document before another that was heard out.  A unit that passes leaves
\* nothing it heard unwritten.
SnapshotOfLastAttempt ==
    LET heard == {r \in log : r.attempt = attempt /\ r.cause \in {"clean", "mismatch", "transport"}}
    IN  /\ file # NoResponse =>
            /\ pc = "done" /\ settings.unit = "file"
            /\ file \in heard /\ \A r \in heard : r.doc <= file.doc
        /\ result = "pass" /\ settings.unit = "file" /\ buffering /\ heard # {} => file # NoResponse

\* What a unit reports and what it writes back are of its last attempt and of the
\* whole chain.
ResultOfLastAttempt == PassMeansWholeChain /\ SnapshotOfLastAttempt

\* runner.rs:743-746: "Last document's captured response wins [...] only the final
\* call's response (the one that matters for snapshotting) is kept".  A file is not
\* rewritten with the answer to a call that was not the last.
FinalResponseWritten ==
    file # NoResponse => \A r \in log : r.attempt = attempt => r.doc <= file.doc

\* runner.rs:2480-2483: in write mode "transport failures [...] must stay failures and
\* must not rewrite the file with an empty/partial response".
BrokenCallsKeepTheFile ==
    file # NoResponse /\ settings.write => \A r \in log : r.attempt = attempt => r.cause # "transport"

\* command-line.md:78: "`-w, --write` - write actual server responses back to test
\* files (snapshot mode)".  Without it no test file is written.
OnlyWriteModeWrites == file # NoResponse => settings.write

=============================================================================
