------------------------------- MODULE Runner -------------------------------
(***************************************************************************)
(* TestRunner::run_one: one document of a test played against one call.    *)
(*                                                                         *)
(* The runner walks the sections of the document.  REQUEST sections push   *)
(* into a bounded channel that a spawned task, call_stream, drains into    *)
(* the wire; RESPONSE, ASSERTS and ERROR sections await that task for the  *)
(* response stream and read it.  The server, the transport and the timers  *)
(* are the environment: they may act between any two steps of the runner.  *)
(*                                                                         *)
(* settings: http      the document speaks gRPC-Web or Connect             *)
(*           kind      the method's shape in the descriptor                *)
(*           write     --write;  capture  --write or an exchange capture   *)
(*           no_assert --no-assert                                         *)
(***************************************************************************)
EXTENDS Document

CONSTANTS
    Payloads,              \* JSON messages
    Codes,                 \* gRPC status codes an error may carry
    Unavailable,           \* code 14, a failure of the connection itself
    NoStatus,              \* an error that is not a GrpcError
    Nothing,               \* no message yet
    Names,                 \* variables of EXTRACT and {{placeholders}}
    Docs,                  \* the documents considered
    Settings,              \* the run settings considered
    REQUEST_CHANNEL_BUFFER,
    MaxItems               \* bound on the items a server sends

Kinds == {"unary", "server_stream", "client_stream", "bidi"}

\* An item of the response stream.
Item == [kind : {"msg"}, val : Payloads] \cup [kind : {"trailers"}, val : {Nothing}]
            \cup [kind : {"err"}, val : Codes]

RunSettings == {s \in [http : BOOLEAN, kind : Kinds, write : BOOLEAN, capture : BOOLEAN,
                       no_assert : BOOLEAN] : s.write => s.capture}

ASSUME DocsAssumption == Docs \subseteq Seq(Sections(Payloads, Payloads \cup Codes, Names))
ASSUME SettingsAssumption == Settings \subseteq RunSettings
ASSUME BufferAssumption == REQUEST_CHANNEL_BUFFER \in Nat \ {0} /\ MaxItems \in Nat
ASSUME StatusAssumption == Unavailable \in Codes /\ NoStatus \notin Codes

VARIABLES
    doc, settings,
    pc,          \* where the runner is
    i,           \* the section being executed
    iter,        \* its repeat iteration
    attempt,     \* retries already used by the current send
    todo,        \* values the section has still to send or to receive
    got,         \* messages an attached ASSERTS will be run on
    tx_open,     \* tx is Some
    chan,        \* request values buffered in the mpsc channel
    rx_open,     \* the receiving half is alive
    taken,       \* request values call_stream has pulled
    call,        \* the spawned call: running, headers, ok, or err
    status,      \* the error it ended with
    handle,      \* call_handle is Some
    stream,      \* response_stream is Some
    wire,        \* response items not read yet
    served,      \* messages the server has sent
    ended,       \* the response stream is complete
    deferred_bidi_expectations,
    failure_reasons, transport_failure,
    last_message, last_error, skip_next_section, variables,
    captured,    \* captured_response: its messages and whether it has an error
    retry_occurred,
    result,
    due, met     \* expectations the run came to, and those found to hold

runner == <<pc, i, iter, attempt, todo, got>>
channel == <<tx_open, chan, rx_open, taken>>
callVars == <<call, status, handle, stream>>
server == <<wire, served, ended>>
verdict == <<deferred_bidi_expectations, failure_reasons, transport_failure,
             last_message, last_error, skip_next_section, variables, captured,
             retry_occurred, result>>
ledger == <<due, met>>
vars == <<doc, settings, runner, channel, callVars, server, verdict, ledger>>

NoResult == [status |-> "none", kind |-> "none", response |-> FALSE]
NoError == [kind |-> "none", val |-> Nothing]

Section == doc[i]
Judging == ~settings.no_assert

-----------------------------------------------------------------------------
(* The call: which requests it reads, and when.                            *)

\* The mode the transport goes by: the descriptor's for gRPC, the inferred
\* one for HTTP.
CallKind == IF settings.http THEN infer_rpc_mode_for_section_types(doc) ELSE settings.kind

\* call_stream reads the request channel to its end before it calls.
NeedsCollect == settings.http /\ CallKind \in {"client_stream", "bidi"}

\* The gRPC call streams its requests while it runs.
StreamsRequests == ~settings.http /\ CallKind \in {"client_stream", "bidi"}

\* The response is complete before call_stream returns: an HTTP exchange, or a
\* gRPC method with a single response.
WholeResponse == settings.http \/ CallKind \in {"unary", "client_stream"}

is_http_bidi == settings.http /\ CallKind = "bidi"

-----------------------------------------------------------------------------
Init ==
    /\ doc \in Docs
    /\ settings \in Settings
    /\ pc = "start" /\ i = 1 /\ iter = 1 /\ attempt = 0 /\ todo = <<>> /\ got = <<>>
    /\ tx_open = TRUE /\ chan = <<>> /\ rx_open = TRUE /\ taken = 0
    /\ call = "running" /\ status = Nothing /\ handle = TRUE /\ stream = FALSE
    /\ wire = <<>> /\ served = <<>> /\ ended = FALSE
    /\ deferred_bidi_expectations = <<>>
    /\ failure_reasons = {} /\ transport_failure = FALSE
    /\ last_message = Nothing /\ last_error = NoError
    /\ skip_next_section = FALSE /\ variables = {}
    /\ captured = [messages |-> <<>>, error |-> FALSE]
    /\ retry_occurred = FALSE /\ result = NoResult
    /\ due = 0 /\ met = 0

-----------------------------------------------------------------------------
(* Bookkeeping shared by the runner's actions.                             *)

\* `break` out of the repeat loop: on to the next section.
NextSection ==
    /\ pc' = "section" /\ i' = i + 1
    /\ iter' = 1 /\ attempt' = 0 /\ todo' = <<>> /\ got' = <<>>

\* The end of one iteration of the repeat loop.
NextIteration ==
    IF iter < get_repeat(doc, i)
    THEN /\ pc' = "exec" /\ iter' = iter + 1
         /\ attempt' = 0 /\ got' = <<>>
         /\ todo' = IF Section.type = "REQUEST" THEN Section.want ELSE <<>>
         /\ UNCHANGED i
    ELSE NextSection

Goto(label) == pc' = label /\ UNCHANGED <<i, iter, attempt, todo, got>>

Failed(reasons) == failure_reasons' = failure_reasons \cup reasons

\* n when p, else none.
Held(p, n) == IF p THEN n ELSE 0

\* The ledger: n expectations are reached; n of them are found to hold.
Owe(n) == due' = due + Held(Judging, n)
Settle(n) == met' = met + Held(Judging, n)

\* n expectations reached and checked at once, all or none of which hold.
Judge(n, holds, reason) ==
    /\ Owe(n)
    /\ Settle(Held(holds, n))
    /\ Failed(IF Judging /\ ~holds THEN {reason} ELSE {})

\* A failure that only counts while assertions are evaluated.
FailedIfJudging(reason) == Failed(IF Judging THEN {reason} ELSE {})

Capture(msg, err) ==
    captured' = IF ~settings.capture THEN captured
                ELSE [messages |-> captured.messages \o msg, error |-> captured.error \/ err]

\* What an ASSERTS or ERROR section accepts: its one target, anything when empty.
Accepts(section, target) == section.want = <<>> \/ section.want[1] = target

-----------------------------------------------------------------------------
(* Before the sections.                                                    *)

\* Variant: the call is awaited, not spawned.
Awaited == call \in {"ok", "err"}

\* The call runs beside the sections, whatever has become of it.
Spawned == call \in {"running", "headers", "ok", "err"}

\* Spawn the call.  A document with no REQUEST sends one empty object, which
\* fails only if the call has already dropped its receiver, and closes tx.
Start ==
    /\ pc = "start" /\ Spawned
    /\ IF HasType(doc, "REQUEST")
       THEN UNCHANGED <<channel, failure_reasons, transport_failure>>
       ELSE /\ chan' = IF rx_open THEN Append(chan, Nothing) ELSE chan
            /\ Failed(IF rx_open THEN {} ELSE {"implicit request"})
            /\ transport_failure' = ~rx_open
            /\ tx_open' = FALSE
            /\ UNCHANGED <<rx_open, taken>>
    /\ pc' = "section"
    /\ UNCHANGED <<doc, settings, i, iter, attempt, todo, got, callVars, server, ledger,
                   deferred_bidi_expectations, last_message, last_error, skip_next_section,
                   variables, captured, retry_occurred, result>>

\* Section i is passed over: the section before it ran it as its attached
\* ASSERTS, or it resolves to #[skip].
SkipSection ==
    /\ pc = "section" /\ i \in DOMAIN doc
    /\ skip_next_section \/ get_skip(doc, i)
    /\ skip_next_section' = FALSE
    /\ NextSection
    /\ UNCHANGED <<doc, settings, channel, callVars, server, ledger,
                   deferred_bidi_expectations, failure_reasons, transport_failure,
                   last_message, last_error, variables, captured, retry_occurred, result>>

EnterSection ==
    /\ pc = "section" /\ i \in DOMAIN doc
    /\ ~skip_next_section /\ ~get_skip(doc, i)
    /\ pc' = "exec"
    /\ todo' = IF Section.type = "REQUEST" THEN Section.want ELSE <<>>
    /\ UNCHANGED <<doc, settings, i, iter, attempt, got, channel, callVars, server,
                   verdict, ledger>>

-----------------------------------------------------------------------------
(* REQUEST                                                                 *)

Sending == pc = "exec" /\ Section.type = "REQUEST"

Resolvable == Section.uses \subseteq variables

\* A placeholder with no value is never sent: run_one returns at once.
UnresolvedRequest ==
    /\ Sending /\ todo # <<>> /\ ~Resolvable
    /\ result' = [status |-> "fail", kind |-> "assertion", response |-> FALSE]
    /\ tx_open' = FALSE
    /\ Goto("done")
    /\ UNCHANGED <<doc, settings, chan, rx_open, taken, callVars, server, ledger,
                   deferred_bidi_expectations, failure_reasons, transport_failure,
                   last_message, last_error, skip_next_section, variables, captured,
                   retry_occurred>>

\* Variant: the channel is unbounded.
SendRequestUnbounded ==
    /\ Sending /\ todo # <<>> /\ Resolvable /\ tx_open /\ rx_open
    /\ chan' = Append(chan, Head(todo))
    /\ retry_occurred' = (retry_occurred \/ attempt > 0)
    /\ todo' = Tail(todo) /\ attempt' = 0
    /\ UNCHANGED <<doc, settings, pc, i, iter, got, tx_open, rx_open, taken, callVars, server,
                   ledger, deferred_bidi_expectations, failure_reasons, transport_failure,
                   last_message, last_error, skip_next_section, variables, captured, result>>

\* The code also answers a send on a closed tx, which never happens: see
\* RequestsOpenWhileSending.
SendRequest ==
    /\ Sending /\ todo # <<>> /\ Resolvable
    /\ tx_open /\ rx_open /\ Len(chan) < REQUEST_CHANNEL_BUFFER
    /\ chan' = Append(chan, Head(todo))
    /\ retry_occurred' = (retry_occurred \/ attempt > 0)
    /\ todo' = Tail(todo) /\ attempt' = 0
    /\ UNCHANGED <<doc, settings, pc, i, iter, got, tx_open, rx_open, taken, callVars, server,
                   ledger, deferred_bidi_expectations, failure_reasons, transport_failure,
                   last_message, last_error, skip_next_section, variables, captured, result>>

\* The send times out on a full channel, or the receiver is gone.  It is
\* retried after a pause; the last attempt's failure is recorded and the next
\* value of the section is tried all the same.
SendFails ==
    /\ Sending /\ todo # <<>> /\ Resolvable /\ tx_open
    /\ ~rx_open \/ Len(chan) = REQUEST_CHANNEL_BUFFER
    /\ IF attempt < get_retry(doc, i)
       THEN /\ attempt' = attempt + 1
            /\ UNCHANGED <<todo, failure_reasons, transport_failure>>
       ELSE /\ attempt' = 0 /\ todo' = Tail(todo)
            /\ Failed({"request not sent"}) /\ transport_failure' = TRUE
    /\ UNCHANGED <<doc, settings, pc, i, iter, got, channel, callVars, server, ledger,
                   deferred_bidi_expectations, last_message, last_error, skip_next_section,
                   variables, captured, retry_occurred, result>>

RequestSent ==
    /\ Sending /\ todo = <<>>
    /\ NextIteration
    /\ UNCHANGED <<doc, settings, channel, callVars, server, verdict, ledger>>

-----------------------------------------------------------------------------
(* Readers: RESPONSE, ASSERTS and ERROR                                    *)

Reading == pc = "exec" /\ Section.type \in {"RESPONSE", "ASSERTS", "ERROR"}

\* Past the last REQUEST a reader closes the request stream.  (With no REQUEST
\* at all the bound is usize::MAX, but Start has closed it already.)
CloseRequests == tx_open' = (tx_open /\ MoreRequests(doc, i))

\* HTTP bidi cannot answer before the last request: the expectations wait.
DeferResponse ==
    /\ Reading /\ Section.type = "RESPONSE"
    /\ is_http_bidi /\ MoreRequests(doc, i)
    /\ deferred_bidi_expectations' = deferred_bidi_expectations \o Section.want
    /\ Owe(Len(Section.want)) /\ UNCHANGED met
    /\ NextIteration
    /\ UNCHANGED <<doc, settings, channel, callVars, server, failure_reasons,
                   transport_failure, last_message, last_error, skip_next_section, variables,
                   captured, retry_occurred, result>>

\* The reader closes the requests if it is past them and needs the stream: it
\* awaits the spawned call, with no timeout of its own.
EnterReader ==
    /\ Reading
    /\ ~(Section.type = "RESPONSE" /\ is_http_bidi /\ MoreRequests(doc, i))
    /\ CloseRequests
    /\ Goto(IF ~stream /\ handle THEN "await" ELSE "ready")
    /\ UNCHANGED <<doc, settings, chan, rx_open, taken, callVars, server, verdict, ledger>>

StreamReady ==
    /\ pc = "await" /\ call = "ok"
    /\ handle' = FALSE /\ stream' = TRUE
    /\ Goto("ready")
    /\ UNCHANGED <<doc, settings, channel, call, status, server, verdict, ledger>>

\* ensure_stream_ready! in RESPONSE and ASSERTS.
StreamStartFails ==
    /\ pc = "await" /\ call = "err" /\ Section.type # "ERROR"
    /\ handle' = FALSE
    /\ Failed({"stream start"}) /\ transport_failure' = TRUE
    /\ NextSection
    /\ UNCHANGED <<doc, settings, channel, call, status, stream, server, ledger,
                   deferred_bidi_expectations, last_message, last_error, skip_next_section,
                   variables, captured, retry_occurred, result>>

\* A RESPONSE or an ERROR without a stream breaks out of the repeat loop.
NoStream ==
    /\ pc = "ready" /\ ~stream /\ Section.type \in {"RESPONSE", "ERROR"}
    /\ Failed({"no response stream"}) /\ transport_failure' = TRUE
    /\ deferred_bidi_expectations' =
         IF Section.type = "RESPONSE" THEN <<>> ELSE deferred_bidi_expectations
    /\ NextSection
    /\ UNCHANGED <<doc, settings, channel, callVars, server, ledger, last_message, last_error,
                   skip_next_section, variables, captured, retry_occurred, result>>

\* A timer fires only while the stream has nothing to deliver.
Stalled == stream /\ wire = <<>> /\ ~ended
Exhausted == stream /\ wire = <<>> /\ ended
Arrived(kind) == stream /\ wire # <<>> /\ Head(wire).kind = kind
Consume == wire' = Tail(wire) /\ UNCHANGED <<served, ended>>

-----------------------------------------------------------------------------
(* RESPONSE                                                                *)

\* Variant: the deferred expectations are dropped.
MergeForgets(waiting, own) == own
\* Deferred expectations come before the section's own, in order.
Merge(waiting, own) == waiting \o own

StartResponse ==
    /\ pc = "ready" /\ Section.type = "RESPONSE" /\ stream
    /\ todo' = Merge(deferred_bidi_expectations, Section.want)
    /\ deferred_bidi_expectations' = <<>>
    /\ Owe(Len(Section.want)) /\ UNCHANGED met
    /\ pc' = "read"
    /\ UNCHANGED <<doc, settings, i, iter, attempt, got, channel, callVars, server,
                   failure_reasons, transport_failure, last_message, last_error,
                   skip_next_section, variables, captured, retry_occurred, result>>

Expecting == pc = "read" /\ todo # <<>>

ResponseMessage ==
    /\ Expecting /\ Arrived("msg")
    /\ LET msg == Head(wire).val
           matches == msg = Head(todo)
       IN  /\ last_message' = msg
           /\ got' = IF Section.with_asserts THEN Append(got, msg) ELSE got
           /\ Capture(<<msg>>, FALSE)
           /\ Settle(Held(matches, 1)) /\ UNCHANGED due
           /\ Failed(IF Judging /\ ~matches THEN {"mismatch"} ELSE {})
    /\ Consume
    /\ todo' = Tail(todo)
    /\ UNCHANGED <<doc, settings, pc, i, iter, attempt, channel, callVars,
                   deferred_bidi_expectations, transport_failure, last_error,
                   skip_next_section, variables, retry_occurred, result>>

\* Variant: a stream that ends early ends the section, and nothing is recorded.
ResponseEndsQuietly ==
    /\ Expecting
    /\ Arrived("trailers") \/ Arrived("err") \/ Exhausted
    /\ IF Exhausted THEN UNCHANGED server ELSE Consume
    /\ todo' = <<>> /\ pc' = "drain"
    /\ UNCHANGED <<doc, settings, i, iter, attempt, got, channel, callVars, verdict, ledger>>

\* The stream gives something other than a message, or has ended: the rest of
\* the section's expectations are given up.
ResponseEnds ==
    /\ Expecting
    /\ Arrived("trailers") \/ Arrived("err") \/ Exhausted
    /\ IF Arrived("err")
       THEN last_error' = [kind |-> "text", val |-> Head(wire).val] /\ Capture(<<>>, TRUE)
       ELSE UNCHANGED <<last_error, captured>>
    /\ IF Exhausted THEN UNCHANGED server ELSE Consume
    /\ FailedIfJudging("no message")
    /\ todo' = <<>> /\ pc' = "drain"
    /\ UNCHANGED <<doc, settings, i, iter, attempt, got, channel, callVars, ledger,
                   deferred_bidi_expectations, transport_failure, last_message,
                   skip_next_section, variables, retry_occurred, result>>

\* Variant: the stalled stream is kept.
ResponseTimeoutKeepsStream ==
    /\ Expecting /\ Stalled
    /\ Failed({"timeout"}) /\ transport_failure' = TRUE
    /\ todo' = <<>> /\ pc' = "attach"
    /\ UNCHANGED <<doc, settings, i, iter, attempt, got, channel, callVars, server,
                   ledger, deferred_bidi_expectations, last_message, last_error,
                   skip_next_section, variables, captured, retry_occurred, result>>

ResponseTimeout ==
    /\ Expecting /\ Stalled
    /\ Failed({"timeout"}) /\ transport_failure' = TRUE
    /\ stream' = FALSE
    /\ todo' = <<>> /\ pc' = "attach"
    /\ UNCHANGED <<doc, settings, i, iter, attempt, got, channel, call, status, handle, server,
                   ledger, deferred_bidi_expectations, last_message, last_error,
                   skip_next_section, variables, captured, retry_occurred, result>>

ResponseComplete ==
    /\ pc = "read" /\ todo = <<>>
    /\ Goto("drain")
    /\ UNCHANGED <<doc, settings, channel, callVars, server, verdict, ledger>>

\* Variant: over-delivered messages are dropped.
DrainMessageUncaptured ==
    /\ pc = "drain" /\ IsLastReader(doc, i) /\ Arrived("msg")
    /\ Consume
    /\ UNCHANGED <<doc, settings, runner, channel, callVars, verdict, ledger>>

\* The last reader of the document takes what is left of the stream, up to the
\* trailers, without checking it; an error or a stall there is not a failure.
DrainMessage ==
    /\ pc = "drain" /\ IsLastReader(doc, i) /\ Arrived("msg")
    /\ Capture(<<Head(wire).val>>, FALSE)
    /\ Consume
    /\ UNCHANGED <<doc, settings, runner, channel, callVars, ledger,
                   deferred_bidi_expectations, failure_reasons, transport_failure,
                   last_message, last_error, skip_next_section, variables, retry_occurred,
                   result>>

DrainEnds ==
    /\ pc = "drain"
    /\ \/ ~IsLastReader(doc, i) /\ UNCHANGED server
       \/ /\ IsLastReader(doc, i)
          /\ \/ Arrived("trailers") /\ Consume
             \/ Arrived("err") /\ Consume
             \/ (Exhausted \/ Stalled) /\ UNCHANGED server
    /\ Goto("attach")
    /\ UNCHANGED <<doc, settings, channel, callVars, verdict, ledger>>

\* The ASSERTS after a with_asserts RESPONSE runs on each message it received.
AttachResponse ==
    /\ pc = "attach"
    /\ IF Attaches(doc, i)
       THEN /\ Judge(Len(got), \A k \in DOMAIN got : Accepts(doc[i + 1], got[k]), "assertion")
            /\ skip_next_section' = TRUE
       ELSE /\ Failed(IF Judging /\ Section.with_asserts THEN {"no attached ASSERTS"} ELSE {})
            /\ UNCHANGED <<skip_next_section, ledger>>
    /\ NextIteration
    /\ UNCHANGED <<doc, settings, channel, callVars, server, deferred_bidi_expectations,
                   transport_failure, last_message, last_error, variables, captured,
                   retry_occurred, result>>

-----------------------------------------------------------------------------
(* ASSERTS on its own                                                      *)

Asserting == pc = "ready" /\ Section.type = "ASSERTS"

\* An error already met in this document is the target, and nothing is read.
AssertOnError ==
    /\ Asserting /\ last_error # NoError
    /\ Judge(1, Accepts(Section, last_error.val), "assertion")
    /\ NextIteration
    /\ UNCHANGED <<doc, settings, channel, callVars, server, deferred_bidi_expectations,
                   transport_failure, last_message, last_error, skip_next_section, variables,
                   captured, retry_occurred, result>>

AssertWithoutStream ==
    /\ Asserting /\ last_error = NoError /\ ~stream
    /\ FailedIfJudging("no context")
    /\ NextIteration
    /\ UNCHANGED <<doc, settings, channel, callVars, server, ledger,
                   deferred_bidi_expectations, transport_failure, last_message, last_error,
                   skip_next_section, variables, captured, retry_occurred, result>>

\* One item is read: a message, the trailers (judged on the last message), or
\* an error, which becomes the target of every ASSERTS from here on.
AssertOnItem ==
    /\ Asserting /\ last_error = NoError /\ stream /\ wire # <<>>
    /\ LET item == Head(wire)
           target == IF item.kind = "trailers" THEN last_message ELSE item.val
       IN  /\ last_message' = IF item.kind = "msg" THEN item.val ELSE last_message
           /\ last_error' = IF item.kind = "err"
                            THEN [kind |-> "json", val |-> item.val] ELSE last_error
           /\ Capture(IF item.kind = "msg" THEN <<item.val>> ELSE <<>>, item.kind = "err")
           /\ Judge(1, Accepts(Section, target), "assertion")
    /\ Consume
    /\ NextIteration
    /\ UNCHANGED <<doc, settings, channel, callVars, deferred_bidi_expectations,
                   transport_failure, skip_next_section, variables, retry_occurred, result>>

AssertAtEnd ==
    /\ Asserting /\ last_error = NoError /\ Exhausted
    /\ FailedIfJudging("no message")
    /\ NextIteration
    /\ UNCHANGED <<doc, settings, channel, callVars, server, ledger,
                   deferred_bidi_expectations, transport_failure, last_message, last_error,
                   skip_next_section, variables, captured, retry_occurred, result>>

AssertTimeout ==
    /\ Asserting /\ last_error = NoError /\ Stalled
    /\ Failed({"timeout"}) /\ transport_failure' = TRUE
    /\ stream' = FALSE
    /\ NextIteration
    /\ UNCHANGED <<doc, settings, channel, call, status, handle, server, ledger,
                   deferred_bidi_expectations, last_message, last_error, skip_next_section,
                   variables, captured, retry_occurred, result>>

-----------------------------------------------------------------------------
(* EXTRACT                                                                 *)

\* The queries of the section bind its variables, or one of them fails.
Extract ==
    /\ pc = "exec" /\ Section.type = "EXTRACT"
    /\ \/ /\ last_message # Nothing
          /\ variables' = variables \cup Section.defs
          /\ UNCHANGED failure_reasons
       \/ /\ \E bound \in SUBSET Section.defs :
                /\ last_message = Nothing => bound = {}
                /\ last_message # Nothing => bound # Section.defs
                /\ variables' = variables \cup bound
          /\ Failed({"extraction"})
    /\ NextIteration
    /\ UNCHANGED <<doc, settings, channel, callVars, server, ledger,
                   deferred_bidi_expectations, transport_failure, last_message, last_error,
                   skip_next_section, captured, retry_occurred, result>>

-----------------------------------------------------------------------------
(* ERROR                                                                   *)

\* An error meets the section: it is compared with the expected status, and an
\* attached ASSERTS runs on it when there is a target to run it on.
JudgeError(matches, accepted, target_known) ==
    LET attached == Attaches(doc, i)
    IN  /\ Owe(Len(Section.want) + Held(attached, 1))
        /\ Settle(Held(matches, Len(Section.want))
                   + Held(attached /\ target_known /\ accepted, 1))
        /\ Failed(IF ~Judging THEN {}
                  ELSE (IF Section.want # <<>> /\ ~matches THEN {"error mismatch"} ELSE {})
                       \cup (IF attached /\ target_known /\ ~accepted
                             THEN {"assertion"} ELSE {})
                       \cup (IF Section.with_asserts /\ ~attached
                             THEN {"no attached ASSERTS"} ELSE {}))
        /\ skip_next_section' = attached

AcceptsAttached(target) == Attaches(doc, i) => Accepts(doc[i + 1], target)

\* The call failed before there was a stream.  An error with a status is the
\* target; the text of any other is compared, but there is no target for the
\* attached ASSERTS unless the section has a content.
ErrorAtStart ==
    /\ pc = "await" /\ call = "err" /\ Section.type = "ERROR"
    /\ handle' = FALSE
    /\ \E matches, accepted \in BOOLEAN :
          /\ status # NoStatus => /\ matches = Accepts(Section, status)
                                 /\ accepted = AcceptsAttached(status)
          /\ JudgeError(matches, accepted, status # NoStatus \/ Section.want # <<>>)
    /\ last_error' = IF Judging /\ status # NoStatus /\ (Section.want # <<>> \/ Attaches(doc, i))
                     THEN [kind |-> "json", val |-> status] ELSE last_error
    /\ IF status \in {NoStatus, Unavailable}
       THEN /\ transport_failure' = (transport_failure \/ settings.capture)
            /\ UNCHANGED captured
       ELSE Capture(<<>>, TRUE) /\ UNCHANGED transport_failure
    /\ NextIteration
    /\ UNCHANGED <<doc, settings, channel, call, status, stream, server,
                   deferred_bidi_expectations, last_message, variables, retry_occurred, result>>

ExpectingError == pc = "ready" /\ Section.type = "ERROR"

ErrorReceived ==
    /\ ExpectingError /\ Arrived("err")
    /\ LET code == Head(wire).val
       IN  /\ JudgeError(Accepts(Section, code), AcceptsAttached(code), TRUE)
           /\ last_error' = [kind |-> "json", val |-> code]
    /\ Capture(<<>>, TRUE)
    /\ Consume
    /\ NextIteration
    /\ UNCHANGED <<doc, settings, channel, callVars, deferred_bidi_expectations,
                   transport_failure, last_message, variables, retry_occurred, result>>

\* A message or the trailers in place of an error: read, and not captured.
ErrorNotReceived ==
    /\ ExpectingError
    /\ \/ (Arrived("msg") \/ Arrived("trailers")) /\ Consume
       \/ Exhausted /\ UNCHANGED server
    /\ FailedIfJudging("no error")
    /\ NextIteration
    /\ UNCHANGED <<doc, settings, channel, callVars, ledger, deferred_bidi_expectations,
                   transport_failure, last_message, last_error, skip_next_section, variables,
                   captured, retry_occurred, result>>

ErrorTimeout ==
    /\ ExpectingError /\ Stalled
    /\ Failed({"timeout"}) /\ transport_failure' = TRUE
    /\ stream' = FALSE
    /\ NextSection
    /\ UNCHANGED <<doc, settings, channel, call, status, handle, server, ledger,
                   deferred_bidi_expectations, last_message, last_error, skip_next_section,
                   variables, captured, retry_occurred, result>>

-----------------------------------------------------------------------------
(* After the sections.                                                     *)

FinishSections ==
    /\ pc = "section" /\ i \notin DOMAIN doc
    /\ tx_open' = FALSE
    /\ Goto(IF ~settings.capture THEN "verdict"
            ELSE IF ~stream /\ handle THEN "final await" ELSE "final drain")
    /\ UNCHANGED <<doc, settings, chan, rx_open, taken, callVars, server, verdict, ledger>>

FinalAwait ==
    /\ pc = "final await" /\ call \in {"ok", "err"}
    /\ handle' = FALSE /\ stream' = (call = "ok")
    /\ Failed(IF call = "ok" THEN {} ELSE {"stream start"})
    /\ transport_failure' = (transport_failure \/ call = "err")
    /\ Goto("final drain")
    /\ UNCHANGED <<doc, settings, channel, call, status, server, ledger,
                   deferred_bidi_expectations, last_message, last_error, skip_next_section,
                   variables, captured, retry_occurred, result>>

FinalDrain ==
    /\ pc = "final drain" /\ stream /\ wire # <<>>
    /\ Capture(IF Arrived("msg") THEN <<Head(wire).val>> ELSE <<>>, Arrived("err"))
    /\ Consume
    /\ UNCHANGED <<doc, settings, runner, channel, callVars, ledger,
                   deferred_bidi_expectations, failure_reasons, transport_failure,
                   last_message, last_error, skip_next_section, variables, retry_occurred,
                   result>>

FinalDrainEnds ==
    /\ pc = "final drain"
    /\ ~stream \/ Exhausted \/ Stalled
    /\ Failed(IF Stalled THEN {"timeout"} ELSE {})
    /\ transport_failure' = (transport_failure \/ Stalled)
    /\ Goto("verdict")
    /\ UNCHANGED <<doc, settings, channel, callVars, server, ledger,
                   deferred_bidi_expectations, last_message, last_error, skip_next_section,
                   variables, captured, retry_occurred, result>>

\* The result: in write mode mismatches are the snapshot's new contents and
\* pass; a failure carries the captured response too.
TestExecutionResult ==
    IF failure_reasons = {}
    THEN [status |-> "pass", kind |-> "none",
          response |-> settings.capture /\ ~transport_failure]
    ELSE IF settings.write /\ ~transport_failure
    THEN [status |-> "pass", kind |-> "none", response |-> TRUE]
    ELSE [status |-> "fail",
          kind |-> IF transport_failure THEN "transport" ELSE "assertion",
          response |-> settings.capture]

GiveVerdict ==
    /\ pc = "verdict"
    /\ result' = TestExecutionResult
    /\ Goto("done")
    /\ UNCHANGED <<doc, settings, channel, callVars, server, ledger,
                   deferred_bidi_expectations, failure_reasons, transport_failure,
                   last_message, last_error, skip_next_section, variables, captured,
                   retry_occurred>>

-----------------------------------------------------------------------------
(* The spawned call and the server.                                        *)

runnerSide == <<doc, settings, runner, verdict, ledger>>

RequestsClosed == ~tx_open /\ chan = <<>>

\* The request is complete as far as the call needs it.
RequestRead == IF NeedsCollect THEN RequestsClosed ELSE taken > 0 \/ RequestsClosed

\* call_stream pulls a request.  Unary and server-streaming calls pull one; an
\* HTTP call of that shape drops the receiver with it.
PullRequest ==
    /\ rx_open /\ chan # <<>>
    /\ \/ call = "running" /\ (NeedsCollect \/ StreamsRequests \/ taken = 0)
       \/ call \in {"headers", "ok"} /\ StreamsRequests
    /\ chan' = Tail(chan) /\ taken' = taken + 1
    /\ rx_open' = ~(settings.http /\ ~NeedsCollect)
    /\ UNCHANGED <<runnerSide, tx_open, callVars, server>>

\* The call ends in an error: gRPC's carries a status, and may come at any time
\* (the connection, the deadline of the headers, the server); an HTTP exchange
\* that fails as a whole has none.
CallFails(code) ==
    /\ call \in {"running", "headers"}
    /\ settings.http <=> code = NoStatus
    /\ settings.http => RequestRead /\ (NeedsCollect => taken > 0)
    /\ call' = "err" /\ status' = code
    /\ rx_open' = FALSE
    /\ wire' = <<>> /\ ended' = TRUE /\ UNCHANGED served
    /\ UNCHANGED <<runnerSide, tx_open, chan, taken, handle, stream>>

\* The response headers of a gRPC method with a single response.  The channel's
\* timeout ends here; call_stream still waits for the message and the trailers.
HeadersArrive ==
    /\ call = "running" /\ ~settings.http /\ WholeResponse
    /\ CallKind = "unary" => taken > 0
    /\ call' = "headers"
    /\ UNCHANGED <<runnerSide, channel, status, handle, stream, server>>

\* call_stream returns the stream.  No request at all, for an HTTP call that
\* collects them, is an empty stream and nothing is called.
CallSucceeds ==
    /\ IF ~settings.http /\ WholeResponse THEN call = "headers" ELSE call = "running"
    /\ StreamsRequests \/ RequestRead
    /\ ~settings.http /\ CallKind = "server_stream" => taken > 0
    /\ IF NeedsCollect /\ taken = 0
       THEN ended' = TRUE
       ELSE (WholeResponse => ended) /\ UNCHANGED ended
    /\ call' = "ok"
    /\ rx_open' = (rx_open /\ StreamsRequests)
    /\ UNCHANGED <<runnerSide, tx_open, chan, taken, status, handle, stream, wire, served>>

\* The server may send.
Serving ==
    /\ ~ended
    /\ CASE settings.http                -> call = "running" /\ RequestRead
                                            /\ (NeedsCollect => taken > 0)
         [] WholeResponse                -> call = "headers"
         [] CallKind = "server_stream"   -> call \in {"running", "ok"} /\ taken > 0
         [] OTHER                        -> call \in {"running", "ok"}

Serve(items, done) ==
    /\ wire' = items /\ ended' = done
    /\ UNCHANGED <<runnerSide, channel, callVars>>

SingleResponse == ~settings.http /\ WholeResponse

ServeMessage(v) ==
    /\ Serving /\ Len(served) < MaxItems
    /\ SingleResponse => served = <<>>
    /\ served' = Append(served, v)
    /\ Serve(Append(wire, [kind |-> "msg", val |-> v]), FALSE)

ServeTrailers ==
    /\ Serving /\ (SingleResponse => served # <<>>)
    /\ UNCHANGED served
    /\ Serve(Append(wire, [kind |-> "trailers", val |-> Nothing]), TRUE)

\* The server ends with a status.  An HTTP exchange keeps that error alone and
\* loses the messages before it (convert_result).
ServeError(code) ==
    /\ Serving /\ ~SingleResponse
    /\ UNCHANGED served
    /\ Serve(Append(IF settings.http THEN <<>> ELSE wire, [kind |-> "err", val |-> code]), TRUE)

ServeEnd ==
    /\ Serving /\ (SingleResponse => served # <<>>)
    /\ UNCHANGED served
    /\ Serve(wire, TRUE)

\* The transport stops reading requests once the response is complete.
DropRequests ==
    /\ call = "ok" /\ StreamsRequests /\ ended /\ rx_open
    /\ rx_open' = FALSE
    /\ UNCHANGED <<runnerSide, tx_open, chan, taken, callVars, server>>

-----------------------------------------------------------------------------
RequestSteps == UnresolvedRequest \/ SendRequest \/ SendFails \/ RequestSent

ReaderSteps == DeferResponse \/ EnterReader \/ StreamReady \/ StreamStartFails \/ NoStream

ResponseSteps == \/ StartResponse \/ ResponseMessage \/ ResponseEnds \/ ResponseTimeout
                 \/ ResponseComplete \/ DrainMessage \/ DrainEnds \/ AttachResponse

AssertsSteps == AssertOnError \/ AssertWithoutStream \/ AssertOnItem \/ AssertAtEnd \/ AssertTimeout

ErrorSteps == ErrorAtStart \/ ErrorReceived \/ ErrorNotReceived \/ ErrorTimeout

FinishSteps == FinishSections \/ FinalAwait \/ FinalDrain \/ FinalDrainEnds \/ GiveVerdict

RunnerStep == \/ Start \/ SkipSection \/ EnterSection \/ RequestSteps \/ ReaderSteps
              \/ ResponseSteps \/ AssertsSteps \/ Extract \/ ErrorSteps \/ FinishSteps

CallStep == PullRequest \/ CallSucceeds \/ HeadersArrive \/ DropRequests
            \/ \E code \in Codes \cup {NoStatus} : CallFails(code)

ServerStep == \/ \E v \in Payloads : ServeMessage(v)
              \/ ServeTrailers \/ ServeEnd
              \/ \E code \in Codes : ServeError(code)

Done == pc = "done" /\ UNCHANGED vars

Next == RunnerStep \/ CallStep \/ ServerStep \/ Done

\* The runner and the tasks of the runtime are scheduled, and a call that has no
\* answer fails when its deadline passes, which covers a gRPC call from its first
\* request up to its headers and an HTTP exchange once it is sent.  A call that
\* waits for the runner's requests has no deadline, and the server owes nothing.
Fairness ==
    /\ WF_vars(RunnerStep)
    /\ WF_vars(PullRequest)
    /\ WF_vars(CallSucceeds)
    /\ WF_vars(call = "running" /\ (StreamsRequests \/ RequestRead)
                 /\ \E code \in Codes \cup {NoStatus} : CallFails(code))

Spec == Init /\ [][Next]_vars
FairSpec == Spec /\ Fairness

-----------------------------------------------------------------------------
(* Properties                                                              *)

Labels == {"start", "section", "exec", "await", "ready", "read", "drain", "attach",
           "final await", "final drain", "verdict", "done"}

RunnerTypeOK ==
    /\ doc \in Docs /\ settings \in Settings
    /\ pc \in Labels /\ i \in Nat \ {0} /\ iter \in Nat \ {0} /\ attempt \in Nat
    /\ todo \in Seq(Payloads) /\ got \in Seq(Payloads)

ChannelTypeOK ==
    /\ tx_open \in BOOLEAN /\ rx_open \in BOOLEAN /\ taken \in Nat
    /\ chan \in Seq(Payloads \cup {Nothing}) /\ Len(chan) <= REQUEST_CHANNEL_BUFFER

CallTypeOK ==
    /\ call \in {"running", "headers", "ok", "err"}
    /\ status \in Codes \cup {NoStatus, Nothing}
    /\ handle \in BOOLEAN /\ stream \in BOOLEAN

ServerTypeOK == wire \in Seq(Item) /\ served \in Seq(Payloads) /\ ended \in BOOLEAN

VerdictTypeOK ==
    /\ deferred_bidi_expectations \in Seq(Payloads)
    /\ transport_failure \in BOOLEAN
    /\ last_message \in Payloads \cup {Nothing}
    /\ last_error \in [kind : {"none", "json", "text"}, val : Codes \cup {NoStatus, Nothing}]
    /\ skip_next_section \in BOOLEAN /\ variables \subseteq Names
    /\ captured \in [messages : Seq(Payloads), error : BOOLEAN]
    /\ retry_occurred \in BOOLEAN

\* Every variable of run_one keeps to its type, and the request channel never
\* holds more than its buffer.
TypeOK ==
    /\ RunnerTypeOK /\ ChannelTypeOK /\ CallTypeOK /\ ServerTypeOK /\ VerdictTypeOK
    /\ due \in Nat /\ met \in Nat

=============================================================================
