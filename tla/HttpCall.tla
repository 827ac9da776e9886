------------------------------ MODULE HttpCall ------------------------------
(***************************************************************************)
(* One call over gRPC-Web or Connect: an HTTP exchange whose body is a     *)
(* sequence of frames, each a head of fixed size that tells the length of  *)
(* the payload after it.                                                   *)
(*                                                                         *)
(* The body arrives in chunks cut anywhere, and may end anywhere.  Most    *)
(* calls decode it as it arrives; unary Connect, base64 text and calls     *)
(* with several requests collect it first.  A status comes in the last     *)
(* frame, in the headers of the response or as an HTTP error, and a test   *)
(* must see it whichever it is.                                            *)
(***************************************************************************)
EXTENDS Integers, Sequences, SequencesExt

CONSTANTS
    Calls,      \* the calls made and
    Answers,    \* the answers given to them
    HeadSize,   \* bytes of a frame's head (five in the code)
    Torn        \* a message read from a part of its bytes

Modes == {"unary", "client_stream", "server_stream", "bidi"}
OK == 0
Unknown == 2

\* mode is what the runner asks for, {} if it leaves it to the method; proto says
\* whether there are descriptors, and whether they have the method.
Call == [protocol : {"connect", "grpc_web"}, proto : {"none", "loaded", "broken"},
         mode : SUBSET Modes, method : Modes, requests : Nat]

\* A status is there or it is not.
Status == {s \in SUBSET Nat : \A x, y \in s : x = y}

\* A frame: the last one has the end flag, and a status or metadata; any other a message,
\* which may look like a status itself.  reads: the encodings in which it can be read.
Frame == [last : BOOLEAN, size : Nat, name : STRING, reads : SUBSET {"json", "proto"},
          status : Status, details : BOOLEAN, metadata : BOOLEAN]

\* An unframed body is the payload of its only frame; that of an HTTP error is an error
\* in JSON or, if it has none, a text.
Answer == [http_ok : BOOLEAN, error_body : Status, header_status : Status,
           header_details : BOOLEAN, text : BOOLEAN, framed : BOOLEAN, frames : Seq(Frame)]

\* No bytes, no status; messages of one name have the same bytes, and so the same status.
ASSUME HttpAssumption ==
    /\ HeadSize \in Nat \ {0}
    /\ Calls \subseteq Call /\ Answers \subseteq Answer
    /\ \A a \in Answers :
        /\ ~a.framed => Len(a.frames) = 1 /\ ~a.frames[1].last
        /\ \A i \in DOMAIN a.frames :
            /\ a.frames[i].name # Torn
            /\ a.frames[i].size = 0 => a.frames[i].status = {}
        /\ \A i, j \in DOMAIN a.frames :
            ~a.frames[i].last /\ ~a.frames[j].last /\ a.frames[i].name = a.frames[j].name
                => a.frames[i].status = a.frames[j].status

VARIABLES
    call, answer,
    pc,                 \* "start", "send", "body", "done"
    received, ended,    \* bytes of the body so far; it has ended
    popped,             \* frames taken off the buffer
    messages, trailers, error,  \* parsed so far; trailers: their status, if any of them
    items               \* what the call's stream holds

parsed == <<popped, messages, trailers, error>>
vars == <<call, answer, pc, received, ended, parsed, items>>

NoTrailers == [any |-> FALSE, status |-> {}]

-----------------------------------------------------------------------------
(* Which way a call goes                                                   *)

needs_collect == \E mode \in call.mode : mode \in {"client_stream", "bidi"}

mode_of_call ==
    IF call.mode # {} THEN call.mode
    ELSE IF call.proto = "loaded" THEN {call.method} ELSE {"unary"}

path ==
    IF needs_collect /\ call.requests > 1 THEN "multi"
    ELSE IF call.protocol = "grpc_web" THEN "web"
    ELSE IF mode_of_call \subseteq {"unary", "client_stream"} THEN "unary" ELSE "stream"

\* Several requests are always sent, and their answer read, as JSON.
encoding == IF path = "multi" \/ call.proto = "none" THEN "json" ELSE "proto"

\* The whole body is in before any of it is read.
collects == path \in {"multi", "unary"} \/ answer.text \/ ~answer.http_ok

\* The answer to several requests is read as frames whatever its HTTP status.
reads_frames ==
    path = "multi" \/ (answer.http_ok /\ ~(path = "unary" /\ encoding = "proto"))

Init ==
    /\ call \in Calls /\ answer \in Answers
    /\ answer.text => path = "web"      \* asked for by a call of one request
    /\ pc = "start" /\ received = 0 /\ ended = FALSE /\ popped = 0
    /\ messages = <<>> /\ trailers = NoTrailers /\ error = {} /\ items = <<>>

-----------------------------------------------------------------------------
(* The end of a call                                                       *)

Error(code, details) == [code |-> code, details |-> details]

\* convert_result: an error alone, or the messages and after them the trailers.
convert_result(m, t, e) ==
    IF e # {} THEN <<[error |-> (CHOOSE x \in e : TRUE).code]>>
    ELSE [i \in DOMAIN m |-> [message |-> m[i]]] \o IF t.any THEN <<[trailers |-> t.status]>> ELSE <<>>

Finish(m, t, e) ==
    /\ pc' = "done" /\ items' = convert_result(m, t, e)
    /\ messages' = m /\ trailers' = t /\ error' = e
    /\ UNCHANGED <<call, answer, received, ended, popped>>

\* A failure of the transport has no status of its own.  (A call of several requests
\* returns it instead of a stream.)
Fail == Finish(<<>>, NoTrailers, {Error(Unknown, FALSE)})

-----------------------------------------------------------------------------
(* The exchange                                                            *)

\* Without a request nothing is sent; a method that is not found is an error.
Start ==
    /\ pc = "start"
    /\ \/ needs_collect /\ call.requests = 0 /\ Finish(<<>>, NoTrailers, {})
       \/ /\ ~(needs_collect /\ call.requests = 0)
          /\ path # "multi" /\ call.proto = "broken" /\ Fail
       \/ /\ ~(needs_collect /\ call.requests = 0)
          /\ path = "multi" \/ call.proto # "broken"
          /\ pc' = "send" /\ UNCHANGED <<call, answer, received, ended, parsed, items>>

\* The headers of the response are in, or the server cannot be reached.
Send ==
    /\ pc = "send"
    /\ \/ pc' = "body" /\ UNCHANGED <<call, answer, received, ended, parsed, items>>
       \/ Fail

FrameSize(f) == (IF answer.framed THEN HeadSize ELSE 0) + f.size

\* Bytes of the first n frames.
Offset[n \in 0..Len(answer.frames)] ==
    IF n = 0 THEN 0 ELSE Offset[n - 1] + FrameSize(answer.frames[n])

body_size ==
    IF answer.http_ok THEN Offset[Len(answer.frames)]
    ELSE IF answer.error_body # {} THEN 1 ELSE 0

\* Bytes in the decoder's buffer.
buffered == received - Offset[popped]

\* Variant: a frame is taken when its head is in.
HeadIsEnough(f) == buffered >= HeadSize

frame_complete(f) == buffered >= HeadSize /\ buffered >= HeadSize + f.size

\* The frame at the head of the buffer, if it is all there.  The length in an unframed
\* body is no length: in the model it is more than the body has.
next_frame ==
    IF answer.http_ok /\ answer.framed /\ popped < Len(answer.frames)
           /\ frame_complete(answer.frames[popped + 1])
    THEN {answer.frames[popped + 1]} ELSE {}

may_pop == reads_frames /\ (collects => ended) /\ next_frame # {}

\* The next chunk, cut anywhere.
Chunk ==
    /\ pc = "body" /\ ~ended /\ ~may_pop
    /\ \E n \in (received + 1)..body_size : received' = n
    /\ UNCHANGED <<call, answer, pc, ended, parsed, items>>

\* The body ends, whether or not it is complete: a body without a length ends with its
\* connection.  Base64 that was cut may not decode, and then there is no frame in it.
BodyEnds ==
    /\ pc = "body" /\ ~ended /\ ~may_pop
    /\ ended' = TRUE
    /\ received' = received \/ (answer.text /\ received < body_size /\ received' = 0)
    /\ UNCHANGED <<call, answer, pc, parsed, items>>

\* The connection breaks, or the timeout of the HTTP client passes: what was read is lost.
BodyBreaks == pc = "body" /\ ~ended /\ ~may_pop /\ Fail

-----------------------------------------------------------------------------
(* Frames                                                                  *)

\* The payload of a frame that was taken, as a message: one that cannot be read, or is
\* not all there, is passed over.
Read(f, encodings) ==
    IF buffered >= FrameSize(f) /\ f.reads \cap encodings # {} THEN Append(messages, f.name)
    ELSE messages

NotOK(status) == {code \in status : code # OK}

\* Trailers in the body: a status that is not OK is the call's error.
WebFrame(f) ==
    IF f.last
    THEN LET status == IF f.status # {} THEN f.status ELSE trailers.status
         IN  /\ trailers' = [any |-> trailers.any \/ f.status # {} \/ f.metadata, status |-> status]
             /\ error' = IF NotOK(status) = {} THEN error
                         ELSE {Error(code, f.details) : code \in NotOK(status)}
             /\ UNCHANGED messages
    ELSE messages' = Read(f, {encoding}) /\ UNCHANGED <<trailers, error>>

\* The end of a Connect stream: empty, with the status in the headers; in JSON, with its
\* error and metadata; or else a message that has the flag of the end.
ConnectFrame(f) ==
    \/ /\ f.last /\ f.size = 0
       /\ error' = IF NotOK(answer.header_status) = {} THEN error
                   ELSE {Error(code, FALSE) : code \in NotOK(answer.header_status)}
       /\ UNCHANGED <<messages, trailers>>
    \/ /\ f.last /\ f.size > 0 /\ "json" \in f.reads
       /\ error' = IF f.status = {} THEN error ELSE {Error(code, f.details) : code \in f.status}
       /\ trailers' = [trailers EXCEPT !.any = @ \/ f.metadata]
       /\ UNCHANGED messages
    \/ /\ f.last /\ f.size > 0 /\ "json" \notin f.reads
       /\ messages' = Read(f, {encoding})
       /\ UNCHANGED <<trailers, error>>
    \/ /\ ~f.last
       /\ messages' = Read(f, {encoding, "json"})
       /\ UNCHANGED <<trailers, error>>

PopFrame ==
    /\ pc = "body" /\ may_pop
    /\ popped' = popped + 1
    /\ \E f \in next_frame : IF call.protocol = "grpc_web" THEN WebFrame(f) ELSE ConnectFrame(f)
    /\ UNCHANGED <<call, answer, pc, received, ended, items>>

-----------------------------------------------------------------------------
(* What the end of the body adds                                           *)

AllRead == pc = "body" /\ ended /\ ~may_pop

raw == answer.frames[1]
whole == received = body_size

\* What an unframed body may be read as: its message or, if it was cut, anything that a
\* part of it happens to be.  No bytes at all are a message of protobuf; the head of a
\* frame is none.
Unframed ==
    IF ~answer.framed /\ whole
    THEN {IF encoding \in raw.reads THEN <<raw.name>> ELSE <<>>}
    ELSE IF encoding = "json" THEN {<<>>}
    ELSE IF received = 0 THEN {<<Torn>>}
    ELSE IF answer.framed THEN {<<>>} ELSE {<<>>, <<Torn>>}

\* Nothing was framed: a protobuf answer may be a message without its frame.
unframed_fallback ==
    IF messages = <<>> /\ ~trailers.any /\ encoding = "proto" /\ received > 0
    THEN Unframed ELSE {messages}

\* The Connect decoder passes over the head of what is left, whether or not it is one.
\* JSON without its first bytes is none; protobuf may be, and without all of them it is.
connect_unframed_fallback ==
    IF /\ messages = <<>> /\ ~trailers.any /\ error = {} /\ encoding = "proto"
       /\ buffered >= HeadSize /\ (answer.framed => ~answer.frames[popped + 1].last)
    THEN IF answer.framed /\ buffered = HeadSize THEN {<<Torn>>} ELSE {<<Torn>>, <<>>}
    ELSE {messages}

\* Variant: the status in the headers counts whatever the body says.
HeadersWin(t) == answer.header_status

\* Trailers-Only: without a status in the body, that of the headers counts.
header_status_of(t) == IF t.status = {} THEN answer.header_status ELSE {}

WithHeaderTrailers(t, e) ==
    LET status == header_status_of(t)
    IN  IF status = {} THEN [trailers |-> t, error |-> e]
        ELSE [trailers |-> [any |-> TRUE, status |-> status],
              error |-> IF NotOK(status) = {} THEN e
                        ELSE {Error(code, answer.header_details) : code \in NotOK(status)}]

\* enrich_grpc_web_error: an error without details takes the code of a last message that
\* looks like a status, and that message is dropped.
looks_like_status(name) == {f \in ToSet(answer.frames) : ~f.last /\ f.name = name /\ f.status # {}}

enrich(m, e) ==
    IF \E x \in e : ~x.details /\ m # <<>> /\ looks_like_status(Last(m)) # {}
    THEN [messages |-> Front(m),
          error |-> {Error(code, TRUE) : code \in UNION {f.status : f \in looks_like_status(Last(m))}}]
    ELSE [messages |-> m, error |-> e]

-----------------------------------------------------------------------------
(* The answer                                                              *)

HttpError ==
    /\ AllRead /\ path # "multi" /\ ~answer.http_ok
    /\ IF path # "web" /\ answer.error_body # {} /\ whole
       THEN Finish(<<>>, NoTrailers, {Error(code, FALSE) : code \in answer.error_body})
       ELSE Fail

WebAnswer ==
    /\ AllRead /\ path = "web" /\ answer.http_ok
    /\ \E m \in unframed_fallback :
        LET with == WithHeaderTrailers(trailers, error)
            rich == IF encoding = "json" THEN enrich(m, with.error)
                    ELSE [messages |-> m, error |-> with.error]
        IN  Finish(rich.messages, with.trailers, rich.error)

StreamAnswer ==
    /\ AllRead /\ path = "stream" /\ answer.http_ok
    /\ \E m \in connect_unframed_fallback : Finish(m, trailers, error)

\* One message, with the status in the headers; in JSON frames will do.
UnaryAnswer ==
    /\ AllRead /\ path = "unary" /\ answer.http_ok
    /\ \E m \in Unframed :
        \/ /\ m # <<>>
           /\ Finish(m, NoTrailers, {Error(code, FALSE) : code \in NotOK(answer.header_status)})
        \/ m = <<>> /\ (messages # <<>> \/ error # {}) /\ Finish(messages, trailers, error)
        \/ m = <<>> /\ messages = <<>> /\ error = {} /\ Fail

\* The answer to several requests: its HTTP status and its headers are not asked.
MultiAnswer ==
    /\ AllRead /\ path = "multi"
    /\ LET rich == IF call.protocol = "grpc_web" THEN enrich(messages, error)
                   ELSE [messages |-> messages, error |-> error]
       IN  Finish(rich.messages, trailers, rich.error)

Done == pc = "done" /\ UNCHANGED vars

Next ==
    \/ Start \/ Send \/ Chunk \/ BodyEnds \/ BodyBreaks \/ PopFrame
    \/ HttpError \/ WebAnswer \/ StreamAnswer \/ UnaryAnswer \/ MultiAnswer \/ Done

Spec == Init /\ [][Next]_vars

-----------------------------------------------------------------------------
(* Properties                                                              *)

Answered == pc = "done" /\ ended

\* A frame with a message; one with the end flag may have it too, if Connect sends no end.
IsData(f) == ~f.last \/ (call.protocol = "connect" /\ f.size > 0 /\ "json" \notin f.reads)
Names(fs) == [i \in DOMAIN fs |-> fs[i].name]

\* Connect reads a message in JSON where it is none in protobuf.
Readable(f) == encoding \in f.reads \/ (call.protocol = "connect" /\ answer.framed /\ "json" \in f.reads)

\* The messages that can be read, of the first n frames and of all.
Legible[n \in 0..Len(answer.frames)] ==
    IF n = 0 THEN <<>>
    ELSE IF IsData(answer.frames[n]) /\ Readable(answer.frames[n])
    THEN Append(Legible[n - 1], answer.frames[n]) ELSE Legible[n - 1]

legible == Legible[Len(answer.frames)]

\* A stream as the protocol of the call has it: its last frame, and no other, is the end.
Stream ==
    /\ answer.framed /\ answer.frames # <<>>
    /\ \A i \in DOMAIN answer.frames : answer.frames[i].last <=> i = Len(answer.frames)
    /\ LET f == Last(answer.frames)
       IN  IF call.protocol = "grpc_web" THEN f.status # {}
           ELSE f.size = 0 \/ ("json" \in f.reads /\ OK \notin f.status /\ answer.header_status = {})

\* An answer of the form that the call asked for.
AsAsked ==
    \/ path = "unary" /\ ~answer.framed /\ encoding \in raw.reads
    \/ path = "unary" /\ encoding = "json" /\ Stream /\ legible # <<>>
    \/ path = "web" /\ ~answer.framed /\ encoding = "proto" /\ "proto" \in raw.reads /\ raw.size > 0
    \/ path = "web" /\ answer.framed /\ answer.frames = <<>> /\ answer.header_status # {}
    \/ path \notin {"unary"} /\ Stream

\* The messages among the first n items of the stream, and among all.
Delivered[n \in 0..Len(items)] ==
    IF n = 0 THEN <<>>
    ELSE IF "message" \in DOMAIN items[n]
    THEN Append(Delivered[n - 1], items[n].message) ELSE Delivered[n - 1]

delivered == Delivered[Len(items)]
failed == {x.error : x \in {y \in ToSet(items) : "error" \in DOMAIN y}}

\* However the body is cut, a test sees the server's messages in their order, none of them
\* twice and none without one before it; all of them, if the body came whole and the call
\* did not fail.  A message made of a part of the body comes alone, and only of a body that
\* was cut or has not the form that was asked for.
DeliveredAsSent ==
    Answered /\ answer.http_ok =>
        \/ delivered = <<Torn>> /\ ~(whole /\ AsAsked)
        \/ /\ Torn \notin ToSet(delivered)
           /\ IsPrefix(delivered, Names(legible))
           /\ whole /\ AsAsked /\ failed = {} => delivered = Names(legible)

\* What the server says of the call: in the end of the stream or, without one there, in the
\* headers; by an HTTP error, in its body if Connect has one.
ends == {f \in ToSet(answer.frames) : f.last /\ f.status # {}}

said ==
    IF ~answer.http_ok
    THEN IF path # "web" /\ answer.error_body # {} THEN answer.error_body ELSE {Unknown}
    ELSE NotOK(IF ends # {} THEN UNION {f.status : f \in ends} ELSE answer.header_status)

\* JSON messages over gRPC-Web may end with one that says the status in full, which counts
\* if the status itself came without details.
SaidInFull ==
    /\ path = "web" /\ encoding = "json" /\ answer.http_ok
    /\ IF ends # {} THEN \A f \in ends : ~f.details ELSE ~answer.header_details
    /\ legible # <<>> /\ Last(legible).status # {}

\* The status of a call of one request is the one the server gave, wherever it gave it: the
\* call fails exactly if that is not OK, and with its code.
StatusSurvives ==
    Answered /\ whole /\ path # "multi" /\ (answer.http_ok => AsAsked) =>
        failed = IF said # {} /\ SaidInFull THEN Last(legible).status ELSE said

\* Not so if several requests were sent (src/grpc/web.rs, apply_grpc_web_header_trailers: the
\* headers count when the body has no status).
EveryStatusSurvives ==
    Answered /\ whole /\ (AsAsked \/ (path = "multi" /\ answer.framed /\ answer.frames = <<>>)) =>
        (failed = {} <=> said = {})

\* Not so either: a stream that ends before its trailers is a call that succeeded.
CutIsNoSuccess == Answered /\ ~whole => failed # {}

=============================================================================
