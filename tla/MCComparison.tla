---------------------------- MODULE MCComparison ----------------------------
\* Arrays of up to three items, bare or in an object, against arrays of up to three
\* expected items, of each kind and of documents that are close to each other.
EXTENDS Comparison

CONSTANTS any, name, a, b

One == Number(10, "int")
OneF == Number(10, "float")
Nearly == Number(11, "float")
Two == Number(11, "int")
A0 == Object([k \in {a} |-> Number(0, "int")])
A1 == Object([k \in {a} |-> One])
AB == Object([k \in {a, b} |-> IF k = a THEN One ELSE Text(name)])
None == Object(<<>>)
Nested == Array(<<A1>>)

Options(partial, tolerance, redact, unordered) ==
    [partial |-> partial, tolerance |-> tolerance, redact |-> redact,
     unordered_arrays |-> unordered]

Arrays(S, n) == {Array(s) : s \in UNION {[1..k -> S] : k \in 0..n}}
C(act, exp, os) == [actual : act, expected : exp, options : os]

Plainly == {Options(FALSE, {}, {}, u) : u \in BOOLEAN}
Loosely == {Options(p, t, {}, u) : p \in BOOLEAN, t \in {{}, {1}}, u \in BOOLEAN}
Redacting == {Options(p, {}, {b}, u) : p, u \in BOOLEAN}

Scalars == {Null, Bool(FALSE), Bool(TRUE), Text(""), Text(name), One, OneF, Two, Nearly}
Objects == {None, A0, A1, AB}
In(v) == Object([k \in {a} |-> v])

MCCases ==
    C(Scalars \cup Objects, Scalars \cup Objects \cup {Text(any)}, Loosely)
    \cup C(Arrays({One, OneF, Two, Nearly}, 3), Arrays({One, OneF, Two}, 3), Loosely)
    \cup C(Arrays(Objects, 3), Arrays({None, A0, A1, Text(any)}, 3), Loosely)
    \cup C(Arrays({AB, Nested, Array(<<AB, A1>>)}, 2), Arrays({A1, Nested, Array(<<A1, AB>>)}, 2), Redacting)
    \cup C({In(v) : v \in Arrays({AB, A1}, 2)}, {In(v) : v \in Arrays({AB, A1, Text(any)}, 2)},
           Loosely \cup Redacting)
=============================================================================
