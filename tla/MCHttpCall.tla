---------------------------- MODULE MCHttpCall ----------------------------
\* Every way a call can go, against bodies of up to three frames whose payloads are up to
\* two bytes, and against unframed bodies, HTTP errors and statuses in the headers.
EXTENDS HttpCall

MCCalls ==
    [protocol : {"connect", "grpc_web"}, proto : {"none", "loaded", "broken"},
     mode : {{}, {"unary"}, {"server_stream"}, {"client_stream"}, {"bidi"}},
     method : {"unary", "server_stream"}, requests : 0..2]

Plain == [last |-> FALSE, size |-> 1, name |-> "a", reads |-> {"json", "proto"},
          status |-> {}, details |-> FALSE, metadata |-> FALSE]
StatusLike == [Plain EXCEPT !.name = "d", !.reads = {"json"}, !.status = {7}]
Data ==
    {Plain, [Plain EXCEPT !.name = "b", !.size = 2], [Plain EXCEPT !.name = "c", !.size = 0, !.reads = {"proto"}],
     [Plain EXCEPT !.reads = {}], StatusLike}
End == [Plain EXCEPT !.last = TRUE, !.name = "end", !.reads = {"json"}]
Ends ==
    {[End EXCEPT !.status = s, !.details = d] : s \in {{0}, {5}}, d \in BOOLEAN}
        \cup {[End EXCEPT !.metadata = TRUE], [End EXCEPT !.size = 0], [End EXCEPT !.reads = {"proto"}]}

Framed(frames) ==
    [http_ok |-> TRUE, error_body |-> {}, header_status |-> {}, header_details |-> FALSE,
     text |-> FALSE, framed |-> TRUE, frames |-> frames]
Raw(f) == [Framed(<<f>>) EXCEPT !.framed = FALSE]

MCAnswers ==
    {Framed(<<e>>) : e \in Ends} \cup {Framed(<<d, e>>) : d \in Data, e \in Ends}
    \cup {Framed(<<d1, d2, e>>) : d1, d2 \in Data, e \in {[End EXCEPT !.status = {0}], End}}
    \cup {[Framed(<<d, [End EXCEPT !.status = s]>>) EXCEPT !.text = TRUE] : d \in Data, s \in {{0}, {5}}}
    \cup {[Framed(f) EXCEPT !.header_status = {h}, !.header_details = d] :
            f \in {<<>>, <<Plain>>, <<Plain, [End EXCEPT !.size = 0]>>}
                    \cup {<<p, [End EXCEPT !.status = {s}]>> : p \in {Plain, StatusLike}, s \in {0, 5}},
            h \in {0, 7}, d \in BOOLEAN}
    \cup {[Raw(f) EXCEPT !.header_status = h] : f \in Data, h \in {{}, {0}, {7}}}
    \cup {[Raw(Plain) EXCEPT !.http_ok = FALSE, !.error_body = b] : b \in {{}, {5}}}
=============================================================================
