------------------------------ MODULE Document ------------------------------
(***************************************************************************)
(* A parsed .gctf document as the runner reads it: a sequence of sections, *)
(* the attributes each section resolves to, and the RPC mode inferred from *)
(* their shape.                                                            *)
(*                                                                         *)
(* A section is a record                                                   *)
(*   type         "REQUEST", "RESPONSE", "ASSERTS", "EXTRACT" or "ERROR"   *)
(*   want         the payloads it sends (REQUEST), expects (RESPONSE), the *)
(*                one target it accepts (ASSERTS), or the one status it    *)
(*                expects (ERROR); <<>> when a reader has no content       *)
(*   uses         the variables its placeholders read                      *)
(*   defs         the variables its EXTRACT rules bind                     *)
(*   with_asserts the inline option of that name                           *)
(*   skip, repeat, retry   its own #[...] attributes: <<>> when absent,    *)
(*                <<v>> when it carries the value v                        *)
(***************************************************************************)
EXTENDS Naturals, Sequences

Unset == <<>>

SectionTypes == {"REQUEST", "RESPONSE", "ASSERTS", "EXTRACT", "ERROR"}

\* The sections over messages M, targets T (M among them) and variables V.
Sections(M, T, V) ==
    {s \in [type : SectionTypes, want : Seq(T), uses : SUBSET V, defs : SUBSET V,
            with_asserts : BOOLEAN, skip : Seq(BOOLEAN), repeat : Seq(Nat), retry : Seq(Nat)] :
        s.type \in {"REQUEST", "RESPONSE"} => s.want \in Seq(M)}

\* Section i comes before the last REQUEST of the document (i < last_request_idx).
MoreRequests(d, i) == \E k \in DOMAIN d : k > i /\ d[k].type = "REQUEST"

\* resolve_attributes: section i keeps every attribute inherited from the
\* sections before it and overrides the ones it sets itself.
Resolved(d, i, attr) ==
    LET setters == {k \in DOMAIN d : k <= i /\ d[k][attr] # Unset}
    IN  IF setters = {} THEN Unset
        ELSE d[CHOOSE k \in setters : \A m \in setters : m <= k][attr]

get_skip(d, i) == Resolved(d, i, "skip") = <<TRUE>>

\* get_repeat() falls back to one iteration: an unset or a zero count is 1.
get_repeat(d, i) ==
    LET r == Resolved(d, i, "repeat")
    IN  IF r # Unset /\ r[1] >= 1 THEN r[1] ELSE 1

get_retry(d, i) ==
    LET r == Resolved(d, i, "retry") IN IF r # Unset THEN r[1] ELSE 0

HasType(d, t) == \E k \in DOMAIN d : d[k].type = t

\* More than one request message: two REQUEST sections, or one JSON Lines
\* section of several values.
ManyRequests(d) ==
    \/ \E k, m \in DOMAIN d : k # m /\ d[k].type = "REQUEST" /\ d[m].type = "REQUEST"
    \/ \E k \in DOMAIN d : d[k].type = "REQUEST" /\ Len(d[k].want) > 1

ManyResponses(d) ==
    \/ \E k, m \in DOMAIN d : k # m /\ d[k].type = "RESPONSE" /\ d[m].type = "RESPONSE"
    \/ \E k \in DOMAIN d : d[k].type = "RESPONSE" /\ Len(d[k].want) > 1

infer_rpc_mode_for_section_types(d) ==
    LET streaming == ManyResponses(d) /\ ~HasType(d, "ERROR")
    IN  CASE ManyRequests(d) /\ streaming   -> "bidi"
          [] ManyRequests(d) /\ ~streaming  -> "client_stream"
          [] ~ManyRequests(d) /\ streaming  -> "server_stream"
          [] OTHER                          -> "unary"

\* A RESPONSE (or ERROR) at i hands its received value to the ASSERTS after it.
Attaches(d, i) ==
    d[i].with_asserts /\ i + 1 \in DOMAIN d /\ d[i + 1].type = "ASSERTS"

\* Variant: only the very next section is looked at.
IsLastReaderLooksAtNext(d, i) ==
    LET next == IF Attaches(d, i) THEN i + 2 ELSE i + 1
    IN  next \in DOMAIN d => d[next].type \notin {"RESPONSE", "ASSERTS", "ERROR"}

\* No section after RESPONSE i, its attached ASSERTS aside, reads the stream.
IsLastReader(d, i) ==
    \A k \in DOMAIN d :
        k >= (IF Attaches(d, i) THEN i + 2 ELSE i + 1)
            => d[k].type \notin {"RESPONSE", "ASSERTS", "ERROR"}

=============================================================================
