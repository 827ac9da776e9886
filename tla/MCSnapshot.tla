---------------------------- MODULE MCSnapshot ----------------------------
(* Files of every layout a snapshot has to find its way through, with one-  *)
(* and two-line messages.                                                   *)
EXTENDS Snapshot

CONSTANTS a, b

MCHeight == (a :> 1) @@ (b :> 2)

Reply(messages) == [messages |-> messages, error |-> FALSE]
MCAnswers == {Reply(<<a>>), Reply(<<b, a>>), Reply(<<b, b, a>>),
              [messages |-> <<b>>, error |-> TRUE]}

Request == <<Header("REQUEST", FALSE), Text("request"), Blank>>
Asserts == <<Header("ASSERTS", FALSE), Text("assertion")>>

\* One RESPONSE at the end of the file, and one between other sections.
Unary == Request \o <<Header("RESPONSE", FALSE)>> \o Printed(a)
Middle == <<Header("RESPONSE", TRUE)>> \o Printed(a) \o <<Blank>> \o Asserts

\* Several RESPONSEs, one of two values, an attribute above the last.
Stream == <<Header("RESPONSE", FALSE)>> \o Printed(b) \o Printed(a) \o <<Blank, Blank>>
          \o <<Attribute("repeat"), Header("RESPONSE", TRUE)>> \o Printed(a) \o Asserts

\* An empty with_asserts RESPONSE, and an ERROR.
Empty == <<Header("RESPONSE", FALSE)>> \o Printed(b) \o <<Header("RESPONSE", TRUE), Blank>> \o Asserts
Failing == <<Header("ERROR", FALSE)>> \o Printed(a) \o <<Blank, Attribute("skip")>> \o Asserts

MCSymmetry == Permutations(Tasks)
MCWords == {"REQUEST", "RESPONSE", "ERROR", "ASSERTS", "request", "assertion", "repeat", "skip",
            "status message", ""}
MCTexts == {Unary, Middle, Stream, Empty, Failing}

=============================================================================
