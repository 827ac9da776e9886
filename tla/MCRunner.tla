------------------------------ MODULE MCRunner ------------------------------
(***************************************************************************)
(* Documents and settings for model-checking Runner.                       *)
(***************************************************************************)
EXTENDS RunnerProperties

CONSTANTS a, b, c14, c5, id, none, noStatus

S(type, want) ==
    [type |-> type, want |-> want, uses |-> {}, defs |-> {}, with_asserts |-> FALSE,
     skip |-> Unset, repeat |-> Unset, retry |-> Unset]

Request(w) == S("REQUEST", w)
Response(w) == S("RESPONSE", w)
Asserts(w) == S("ASSERTS", w)
Error(w) == S("ERROR", w)
WithAsserts(s) == [s EXCEPT !.with_asserts = TRUE]
Extracts == [S("EXTRACT", <<>>) EXCEPT !.defs = {id}]
Uses(s) == [s EXCEPT !.uses = {id}]

MCPayloads == {a, b}
MCCodes == {c14, c5}
MCNames == {id}

\* One of each shape the guides describe.
UnaryDoc == <<Request(<<a>>), Response(<<b>>)>>
StreamDoc == <<Request(<<a>>), Response(<<a>>), Response(<<b>>)>>
LinesDoc == <<Request(<<a, b>>), Response(<<a, b>>)>>
BidiDoc == <<Request(<<a>>), Response(<<a>>), Request(<<b>>), Response(<<b>>)>>
ErrorDoc == <<Request(<<a>>), WithAsserts(Error(<<c5>>)), Asserts(<<c5>>)>>
AttachedDoc == <<Request(<<a>>), WithAsserts(Response(<<a>>)), Asserts(<<a>>), Asserts(<<b>>)>>
AssertsDoc == <<Request(<<a>>), Asserts(<<a>>), Extracts, Asserts(<<>>)>>
ExtractDoc == <<Request(<<a>>), Response(<<a>>), Extracts, Uses(Request(<<b>>)), Response(<<b>>)>>
EmptyDoc == <<Response(<<a>>)>>
RetryDoc == <<[Request(<<a, b>>) EXCEPT !.retry = <<1>>], Request(<<b>>), Response(<<a>>)>>
SkipDoc == <<[Request(<<a>>) EXCEPT !.skip = <<TRUE>>], [Response(<<a>>) EXCEPT !.skip = <<FALSE>>]>>
NoReaderDoc == <<Request(<<a>>), [Response(<<a>>) EXCEPT !.skip = <<TRUE>>]>>
RepeatDoc == <<[Request(<<a>>) EXCEPT !.repeat = <<2>>], [Response(<<a>>) EXCEPT !.repeat = <<1>>]>>
BlankDoc == <<Request(<<a>>), Response(<<>>)>>

CoreDocs == {UnaryDoc, StreamDoc, BlankDoc, LinesDoc, BidiDoc, ErrorDoc, AttachedDoc, AssertsDoc,
             ExtractDoc, EmptyDoc, RetryDoc, SkipDoc, NoReaderDoc, RepeatDoc}

\* Documents on which the code and its guides part ways.
DeferredDoc == <<Request(<<a>>), Response(<<a, b>>), Request(<<b>>)>>
EarlyReaderDoc == <<Request(<<a>>), Response(<<a>>), Request(<<b>>)>>
RepeatedResponseDoc == <<Request(<<a>>), [Response(<<a>>) EXCEPT !.repeat = <<2>>]>>

Config(http, kinds) ==
    {[http |-> http, kind |-> k, write |-> w, capture |-> w \/ x, no_assert |-> n] :
        k \in kinds, w \in BOOLEAN, x \in BOOLEAN, n \in BOOLEAN}

GrpcSettings == Config(FALSE, Kinds)
HttpSettings == Config(TRUE, {"bidi"})
Plain(http, kind) ==
    {[http |-> http, kind |-> kind, write |-> FALSE, capture |-> FALSE, no_assert |-> FALSE]}
AllSettings == GrpcSettings \cup HttpSettings

\* What shows where they part (README): one document and one setting each.
DeferredDocs == {DeferredDoc}
EarlyReaderDocs == {EarlyReaderDoc}
RepeatedDocs == {RepeatedResponseDoc}
UnaryDocs == {UnaryDoc}
StreamDocs == {StreamDoc}
PlainHttp == Plain(TRUE, "bidi")
PlainStream == Plain(FALSE, "server_stream")
PlainUnary == Plain(FALSE, "unary")

=============================================================================
