----------------------------- MODULE Comparison -----------------------------
(***************************************************************************)
(* Whether a message is the one a RESPONSE section expects                 *)
(* (crates/apif-assert/src/comparator.rs), under the options of its        *)
(* header.                                                                 *)
(*                                                                         *)
(* A JSON value is a record whose one field tells its type.  A number has  *)
(* a value and a form, as 60 and 60.0 are two documents of one number;     *)
(* rounding noise, 1e-9 of the larger number in the code, is one part in   *)
(* Noise.  A key is a model value.  What is wrong with a message, and      *)
(* where, is left out: only whether anything is.                           *)
(***************************************************************************)
EXTENDS Integers, Sequences, SequencesExt, FiniteSetsExt

CONSTANTS
    Cases,      \* what is compared: [actual, expected, options]
    Noise,      \* numbers that differ by this part of themselves are equal
    Wildcard    \* the text "*"

Null == [null |-> TRUE]
Bool(b) == [bool |-> b]
Number(n, form) == [number |-> n, form |-> form]
Text(s) == [text |-> s]
Array(s) == [array |-> s]
Object(f) == [object |-> f]

type(v) == CHOOSE t \in {"null", "bool", "number", "text", "array", "object"} : t \in DOMAIN v

Without(f, keys) == [k \in DOMAIN f \ keys |-> f[k]]

\* The message without the fields to leave out, at any depth.
RECURSIVE redact_value(_, _)
redact_value(v, fields) ==
    CASE type(v) = "object" ->
            Object([k \in DOMAIN v.object \ fields |-> redact_value(v.object[k], fields)])
      [] type(v) = "array" ->
            Array([i \in DOMAIN v.array |-> redact_value(v.array[i], fields)])
      [] OTHER -> v

\* Protobuf's JSON leaves out a field that has its default value.
is_protojson_default_value(v) ==
    \/ v = Null \/ v = Bool(FALSE) \/ v = Text("")
    \/ type(v) = "number" /\ v.number = 0
    \/ v = Array(<<>>) \/ v = Object(<<>>)

Distance(a, e) == Max({a.number - e.number, e.number - a.number})
Scale(a, e) == Max({a.number, e.number, -a.number, -e.number})

\* Two integers are compared exactly, they may be too large for a float.
SameNumber(a, e, options) ==
    IF options.tolerance # {} THEN Distance(a, e) <= Max(options.tolerance)
    ELSE IF a.form = "int" /\ e.form = "int" THEN a.number = e.number
    ELSE Distance(a, e) * Noise <= Scale(a, e)

\* Values with the same hash: the same document, to the form of its numbers.
hash_value(v) == v

\* Variant: without the look-up by hash.
TakesTheFirst(act, state, e, compares) ==
    LET free == {i \in DOMAIN act : i \notin state.taken /\ compares[i]}
    IN  IF free = {} THEN [state EXCEPT !.missing = TRUE]
        ELSE [state EXCEPT !.taken = @ \cup {Min(free)}]

\* Variant: an item is found, and may be found again.
TakesAgain(act, state, e, compares) ==
    IF \A i \in DOMAIN act : ~compares[i] THEN [state EXCEPT !.missing = TRUE]
    ELSE [state EXCEPT !.taken = @ \cup {Min({i \in DOMAIN act : compares[i]})}]

\* One round of the loop over the expected items: the first item of the message not
\* yet taken that is the same document and compares, else the first that compares.
TakeItem(act, state, e, compares) ==
    LET free == {i \in DOMAIN act : i \notin state.taken /\ compares[i]}
        same == {i \in free : hash_value(act[i]) = hash_value(e)}
    IN  IF free = {} THEN [state EXCEPT !.missing = TRUE]
        ELSE [state EXCEPT !.taken = @ \cup {Min(IF same # {} THEN same ELSE free)}]

RECURSIVE compare_recursive(_, _, _)

\* The keys expected; a default may be missing, and only partial allows others.
CompareObjects(act, exp, options) ==
    /\ \A k \in DOMAIN exp :
          IF k \in DOMAIN act THEN compare_recursive(act[k], exp[k], options)
                             ELSE is_protojson_default_value(exp[k])
    /\ options.partial \/ DOMAIN act \subseteq DOMAIN exp

CompareInOrder(act, exp, options) ==
    /\ Len(exp) <= Len(act) /\ (options.partial \/ Len(act) = Len(exp))
    /\ \A i \in DOMAIN exp : compare_recursive(act[i], exp[i], options)

CompareUnordered(act, exp, options) ==
    LET end == FoldLeft(
                 LAMBDA state, e :
                   TakeItem(act, state, e,
                            [i \in DOMAIN act |-> compare_recursive(act[i], e, options)]),
                 [taken |-> {}, missing |-> FALSE], exp)
    IN  /\ ~end.missing
        /\ options.partial \/ (Len(act) = Len(exp) /\ end.taken = DOMAIN act)

compare_recursive(a, e, options) ==
    \/ e = Text(Wildcard)
    \/ /\ type(a) = type(e)
       /\ CASE type(e) = "object" -> CompareObjects(a.object, e.object, options)
            [] type(e) = "array" ->
                 IF options.unordered_arrays THEN CompareUnordered(a.array, e.array, options)
                                             ELSE CompareInOrder(a.array, e.array, options)
            [] type(e) = "number" -> SameNumber(a, e, options)
            [] OTHER -> a = e

compare(a, e, options) == compare_recursive(redact_value(a, options.redact), e, options)

-----------------------------------------------------------------------------
VARIABLES case, no_assert, verdict

vars == <<case, no_assert, verdict>>

Init == case \in Cases /\ no_assert \in BOOLEAN /\ verdict = "none"

validate_message ==
    /\ verdict = "none"
    /\ verdict' = IF no_assert \/ compare(case.actual, case.expected, case.options)
                  THEN "ok" ELSE "mismatch"
    /\ UNCHANGED <<case, no_assert>>

Next == validate_message

Spec == Init /\ [][Next]_vars

-----------------------------------------------------------------------------
(* What an answer that is expected is, told without the order in which the  *)
(* code goes about it.                                                      *)

Injections(S, T) == {f \in [S -> T] : \A x, y \in S : f[x] = f[y] => x = y}

RECURSIVE Answers(_, _, _)
Answers(a, e, options) ==
    \/ e = Text(Wildcard)
    \/ /\ type(a) = "object" /\ type(e) = "object"
       /\ options.partial \/ DOMAIN a.object \subseteq DOMAIN e.object
       /\ \A k \in DOMAIN a.object \cap DOMAIN e.object : Answers(a.object[k], e.object[k], options)
       /\ \A k \in DOMAIN e.object \ DOMAIN a.object : is_protojson_default_value(e.object[k])
    \/ /\ type(a) = "array" /\ type(e) = "array"
       /\ options.partial \/ Len(a.array) = Len(e.array)
       /\ LET fits == {p \in (DOMAIN e.array) \X (DOMAIN a.array) :
                         Answers(a.array[p[2]], e.array[p[1]], options)}
          IN  \E f \in Injections(DOMAIN e.array, DOMAIN a.array) :
                 /\ \A i \in DOMAIN f : <<i, f[i]>> \in fits
                 /\ options.unordered_arrays \/ \A i \in DOMAIN f : f[i] = i
    \/ type(a) = "number" /\ type(e) = "number" /\ SameNumber(a, e, options)
    \/ a = e

\* A message without the redacted fields.
RECURSIVE Hidden(_, _)
Hidden(a, fields) ==
    CASE type(a) = "object" ->
            \A k \in DOMAIN a.object : k \notin fields /\ Hidden(a.object[k], fields)
      [] type(a) = "array" -> \A i \in DOMAIN a.array : Hidden(a.array[i], fields)
      [] OTHER -> TRUE

\* A message passes only if, without what its section redacts, it answers what is
\* expected, with an item of its own for every item expected; and, where arrays have an
\* order, whenever it does.  Where they have none the loop takes items as it finds them
\* and may fail a message that answers.
PassesOnlyAnswers ==
    verdict # "none" /\ ~no_assert =>
        LET shown == redact_value(case.actual, case.options.redact)
            answers == Answers(shown, case.expected, case.options)
        IN  /\ Hidden(shown, case.options.redact)
            /\ verdict = "ok" => answers
            /\ answers /\ ~case.options.unordered_arrays => verdict = "ok"

\* What was recorded passes when the server sends the same items in another order.
ShuffledAnswerPasses ==
    /\ verdict # "none" /\ case.options.unordered_arrays /\ case.options.redact = {}
    /\ type(case.actual) = "array" /\ type(case.expected) = "array"
    /\ \E f \in Injections(DOMAIN case.expected.array, DOMAIN case.actual.array) :
          /\ Len(case.expected.array) = Len(case.actual.array)
          /\ \A i \in DOMAIN f : case.expected.array[i] = case.actual.array[f[i]]
    => verdict = "ok"

\* The verdict on a message: never ok without an answer, and ok for what was recorded.
RightVerdict == PassesOnlyAnswers /\ ShuffledAnswerPasses

=============================================================================
