------------------------------ MODULE Snapshot ------------------------------
(***************************************************************************)
(* Snapshot mode: a test file is parsed, its calls are made, and what the  *)
(* server answered is written over the RESPONSE and ERROR bodies of the    *)
(* file, at the line numbers the parser saw.  Between the parse and the    *)
(* write the file may change: run does not drop a path given twice, and    *)
(* the user has it open in an editor.                                      *)
(*                                                                         *)
(* A file is the sequence of its lines.  A line is a section header, an    *)
(* attribute, a blank, line n of a pretty-printed JSON value, or any other *)
(* text, which JSON does not accept.  Files hold one document.             *)
(***************************************************************************)
EXTENDS Naturals, SequencesExt

CONSTANTS
    Messages,       \* what a server answers with
    Height,         \* lines the pretty-printed form of a message takes
    Words,          \* what other lines can say: section types, attributes, text
    Answers,        \* the responses a call can capture
    Texts,          \* the files considered
    Tasks,          \* the tests of one file that run at the same time
    MaxVersion      \* bound: changes made to the file

Line == [kind : {"header"}, what : Words, n : {0, 1}]
        \cup [kind : {"attribute", "blank", "text"}, what : Words, n : {0}]
        \cup [kind : {"json"}, what : Messages, n : Nat \ {0}]

ASSUME SnapshotAssumption ==
    /\ Height \in [Messages -> Nat \ {0}]
    /\ \A a \in Answers : a.messages \in Seq(Messages) /\ a.error \in BOOLEAN
    /\ {"", "status message"} \subseteq Words
    /\ Texts \subseteq Seq(Line)
    /\ MaxVersion \in Nat

Header(type, with_asserts) == [kind |-> "header", what |-> type, n |-> IF with_asserts THEN 1 ELSE 0]
Attribute(name) == [kind |-> "attribute", what |-> name, n |-> 0]
Blank == [kind |-> "blank", what |-> "", n |-> 0]
Json(m, n) == [kind |-> "json", what |-> m, n |-> n]
Text(what) == [kind |-> "text", what |-> what, n |-> 0]

IsHeader(l) == l.kind = "header"
IsContent(l) == l.kind # "attribute"
NotBlank(l) == l.kind # "blank"
StartsValue(l) == l.kind = "json" /\ l.n = 1

Printed(m) == [n \in 1..Height[m] |-> Json(m, n)]

-----------------------------------------------------------------------------
(* The parser                                                              *)

\* A section as it is read: its header is line n, and it has no content yet.
Opened(l, n) ==
    [type |-> l.what, with_asserts |-> l.n = 1, start_line |-> n - 1, size |-> 0,
     want |-> <<>>, body |-> <<>>]

\* A line of content is counted, whatever it holds.
AddLine(s, l) ==
    [s EXCEPT !.size = @ + 1,
              !.want = IF StartsValue(l) THEN Append(@, l.what) ELSE @,
              !.body = IF NotBlank(l) THEN Append(@, l) ELSE @]

\* Line n of a file, read after the sections found: attributes, and the lines
\* above the first header, are content of none.
ParseLine(found, l, n) ==
    IF IsHeader(l) THEN Append(found, Opened(l, n))
    ELSE IF IsContent(l) /\ found # <<>> THEN [found EXCEPT ![Len(found)] = AddLine(@, l)]
    ELSE found

Found(text) ==
    LET upto[n \in 0..Len(text)] ==
            IF n = 0 THEN <<>> ELSE ParseLine(upto[n - 1], text[n], n)
    IN  upto[Len(text)]

\* Variant: a section ends where the next header begins, attributes included.
EndsAtNextHeader(text, found, k) ==
    IF k = Len(found) THEN Len(text) ELSE found[k + 1].start_line

\* Zero-based, exclusive: attribute lines before the next header are not this
\* section's, so its end is counted in lines of content.
EndLine(text, found, k) ==
    IF k = Len(found) THEN Len(text) ELSE found[k].start_line + found[k].size + 1

Sections(text) ==
    LET found == Found(text)
    IN  [k \in DOMAIN found |->
            [type |-> found[k].type, with_asserts |-> found[k].with_asserts,
             start_line |-> found[k].start_line, end_line |-> EndLine(text, found, k),
             want |-> found[k].want, body |-> found[k].body]]

\* A body that JSON is expected in holds whole values, an ERROR at most one.
SectionParses(s) ==
    s.type \in {"RESPONSE", "ERROR"} =>
        /\ s.body = FlattenSeq([i \in DOMAIN s.want |-> Printed(s.want[i])])
        /\ s.type = "ERROR" => Len(s.want) <= 1

Parses(text) == \A k \in DOMAIN Sections(text) : SectionParses(Sections(text)[k])

-----------------------------------------------------------------------------
(* update_test_file                                                        *)

\* Blank lines that end the zero-based range start..end-1 of the file.
trailing_blank_line_count(lines, start, end) ==
    LET upper == IF end < Len(lines) THEN end ELSE Len(lines)
        blanks == {n \in 1..Len(lines) : /\ start + n <= upper
                                         /\ \A i \in (upper - n + 1)..upper : lines[i] = Blank}
    IN  IF start >= end \/ start >= Len(lines) \/ blanks = {} THEN 0
        ELSE CHOOSE n \in blanks : \A m \in blanks : m <= n

\* Variant: every RESPONSE is given one message.
OneEach(s, remaining) == 1

\* A with_asserts RESPONSE takes every message left, another as many as it had.
expected_count(s, remaining) ==
    IF s.with_asserts THEN remaining
    ELSE IF s.want = <<>> THEN 1 ELSE Len(s.want)

Min2(x, y) == IF x < y THEN x ELSE y

\* Variant: a blank line after every message.
BodyWithBlanks(messages) ==
    FlattenSeq([i \in DOMAIN messages |-> Printed(messages[i]) \o <<Blank>>])

\* The bodies of several messages are kept apart by a blank line.
Body(messages) ==
    FlattenSeq([i \in DOMAIN messages |->
                    (IF i > 1 THEN <<Blank>> ELSE <<>>) \o Printed(messages[i])])

\* Copy the old lines up to, not including, zero-based line number upto.
CopyUpTo(lines, done, upto) ==
    LET to == Min2(upto, Len(lines))
    IN  IF to <= done.current_line THEN done
        ELSE [done EXCEPT !.new_lines = @ \o SubSeq(lines, done.current_line + 1, to),
                          !.current_line = to]

WriteResponse(lines, done, s, response) ==
    LET remaining == Len(response.messages) - done.msg_idx
        count == Min2(expected_count(s, remaining), remaining)
        opened == Append(done.new_lines, Header("RESPONSE", s.with_asserts))
        blanks == trailing_blank_line_count(lines, Len(opened), s.end_line)
    IN  [new_lines |-> opened \o Body(SubSeq(response.messages, done.msg_idx + 1, done.msg_idx + count))
                              \o [i \in 1..blanks |-> Blank],
         msg_idx |-> done.msg_idx + count,
         current_line |-> s.end_line]

WriteError(done, s) ==
    [done EXCEPT !.new_lines = @ \o <<Header("ERROR", s.with_asserts), Text("status message")>>,
                 !.current_line = s.end_line]

WriteSection(lines, done, s, response) ==
    IF s.type = "RESPONSE" /\ Len(response.messages) > done.msg_idx THEN
        WriteResponse(lines, done, s, response)
    ELSE IF s.type = "ERROR" /\ response.error THEN WriteError(done, s)
    ELSE CopyUpTo(lines, done, s.end_line)

Updated(lines, sections, response) ==
    LET written[k \in 0..Len(sections)] ==
            IF k = 0 THEN [new_lines |-> <<>>, current_line |-> 0, msg_idx |-> 0]
            ELSE LET s == sections[k]
                 IN  WriteSection(lines, CopyUpTo(lines, written[k - 1], s.start_line), s, response)
    IN  CopyUpTo(lines, written[Len(sections)], Len(lines)).new_lines

-----------------------------------------------------------------------------
(* The tests, the file and its editor                                      *)

VARIABLES
    disk,           \* the lines on disk
    version,        \* changes made to it so far
    task,           \* each test of the file
    last            \* <<>>, or the last write by a test nobody else wrote under

snapshotVars == <<disk, version, task, last>>

Idle == [pc |-> "idle", sections |-> <<>>, parsed |-> 0, lines |-> <<>>,
         response |-> [messages |-> <<>>, error |-> FALSE]]

SnapshotInit ==
    /\ disk \in Texts /\ version = 0
    /\ task = [t \in Tasks |-> Idle]
    /\ last = <<>>

\* run_single_test: a file that does not parse fails its test.
ParseFile(t) ==
    /\ task[t].pc = "idle" /\ Parses(disk)
    /\ task' = [task EXCEPT ![t] = [Idle EXCEPT !.pc = "run", !.sections = Sections(disk),
                                                !.parsed = version]]
    /\ UNCHANGED <<disk, version, last>>

\* The calls are made; update_test_file reads the file as it is by then.
Read(t, response) ==
    /\ task[t].pc = "run"
    /\ task' = [task EXCEPT ![t].pc = "write", ![t].lines = disk, ![t].response = response]
    /\ UNCHANGED <<disk, version, last>>

\* write_atomic: the new lines replace the file in one rename.
Replace(t) ==
    /\ task[t].pc = "write" /\ version < MaxVersion
    /\ disk' = Updated(task[t].lines, task[t].sections, task[t].response)
    /\ version' = version + 1
    /\ last' = IF task[t].parsed = version
               THEN <<[before |-> disk, response |-> task[t].response, version |-> version']>>
               ELSE last
    /\ task' = [task EXCEPT ![t] = Idle]

\* No response was captured, or the file could not be read or replaced.
GiveUp(t) ==
    /\ task[t].pc \in {"run", "write"}
    /\ task' = [task EXCEPT ![t] = Idle]
    /\ UNCHANGED <<disk, version, last>>

\* The user saves the file with one blank line more or less.
Save(text) ==
    /\ version < MaxVersion
    /\ disk' = text /\ version' = version + 1
    /\ UNCHANGED <<task, last>>

Edit ==
    \/ \E i \in 1..Len(disk) + 1 : Save(InsertAt(disk, i, Blank))
    \/ \E i \in DOMAIN disk : disk[i] = Blank /\ Save(RemoveAt(disk, i))

SnapshotNext ==
    \/ \E t \in Tasks : \/ ParseFile(t) \/ Replace(t) \/ GiveUp(t)
                        \/ \E response \in Answers : Read(t, response)
    \/ Edit

SnapshotSpec == SnapshotInit /\ [][SnapshotNext]_snapshotVars

-----------------------------------------------------------------------------
(* Properties                                                              *)

\* The file is what a test wrote from the lines it had parsed itself.
Held == last # <<>> /\ last[1].version = version
Before == Sections(last[1].before)

IsResponse(s) == s.type = "RESPONSE"

\* The messages the runner reads for a RESPONSE: all it expects, at least one.
Reads(s) == IF s.want = <<>> THEN 1 ELSE Len(s.want)

\* How many messages the RESPONSEs among the first sections read.
ReadBy(sections) ==
    LET upto[k \in 0..Len(sections)] ==
            IF k = 0 THEN 0
            ELSE upto[k - 1] + (IF IsResponse(sections[k]) THEN Reads(sections[k]) ELSE 0)
    IN  upto

\* run_one over a document whose only readers are RESPONSEs: each takes its
\* messages in turn and the rest are drained.
Passes(sections, messages) ==
    \A k \in DOMAIN sections : IsResponse(sections[k]) =>
        /\ ReadBy(sections)[k] <= Len(messages)
        /\ sections[k].want \in
            {<<>>, SubSeq(messages, ReadBy(sections)[k - 1] + 1, ReadBy(sections)[k])}

\* The documents a snapshot can replay: no ERROR, no ASSERTS that reads a message
\* of its own, and only the last RESPONSE may take what is left.
Replayable(sections) ==
    /\ \A k \in DOMAIN sections :
        /\ sections[k].type # "ERROR"
        /\ sections[k].type = "ASSERTS" =>
            k > 1 /\ sections[k - 1].type = "RESPONSE" /\ sections[k - 1].with_asserts
        /\ sections[k].type = "RESPONSE" /\ sections[k].with_asserts =>
            \A m \in DOMAIN sections : m > k => sections[m].type # "RESPONSE"

\* Every RESPONSE has a message left to take.
Enough(sections, messages) ==
    \A k \in DOMAIN sections :
        IsResponse(sections[k]) => ReadBy(sections)[k - 1] < Len(messages)

\* How many messages a document checks.
Checks(sections) ==
    LET upto[k \in 0..Len(sections)] ==
            IF k = 0 THEN 0
            ELSE upto[k - 1] + (IF IsResponse(sections[k]) THEN Len(sections[k].want) ELSE 0)
    IN  upto[Len(sections)]

\* Attributes stand directly above the header they are for.
AttributesAdjacent(text) ==
    \A i \in DOMAIN text : text[i].kind = "attribute" =>
        i < Len(text) /\ text[i + 1].kind \in {"attribute", "header"}

\* The file was laid out as a snapshot can find its way through it.
HeldAdjacent == Held /\ AttributesAdjacent(last[1].before)

\* A snapshot replays: the file written from an answer passes when the server
\* gives the same answer again, whatever the file expected before, and it checks
\* no fewer messages than it did as long as there are as many
\* (src/utils/file.rs: messages are dealt to the RESPONSEs by count).
ReplaysItsAnswer ==
    HeldAdjacent /\ Replayable(Before) /\ Enough(Before, last[1].response.messages)
        => /\ Parses(disk)
           /\ Passes(Sections(disk), last[1].response.messages)
           /\ Checks(Sections(disk)) >= Min2(Checks(Before), Len(last[1].response.messages))

\* A snapshot taken again changes nothing: blank lines and separators do not pile
\* up or drift, and no section moves (trailing_blank_line_count is asked with a
\* line number of the new file about lines of the old one).
ChangesNothingAgain ==
    HeldAdjacent => Updated(disk, Sections(disk), last[1].response) = disk

\* Both together: what a snapshot is taken for, and that it may be taken again.
SnapshotHolds == ReplaysItsAnswer /\ ChangesNothingAgain

\* A text read line by line: whether the last line is in the body of a RESPONSE
\* or an ERROR, and what the text says outside such bodies, blanks aside.
ReadLine(seen, l) ==
    LET kept == NotBlank(l) /\ (IsHeader(l) \/ l.kind = "attribute" \/ ~seen.inside)
    IN  [inside |-> IF IsHeader(l) THEN l.what \in {"RESPONSE", "ERROR"} ELSE seen.inside,
         rest |-> IF kept THEN Append(seen.rest, l) ELSE seen.rest]

ReadThrough(text) ==
    LET upto[n \in 0..Len(text)] ==
            IF n = 0 THEN [inside |-> FALSE, rest |-> <<>>] ELSE ReadLine(upto[n - 1], text[n])
    IN  upto[Len(text)]

\* What a file says outside the bodies a snapshot replaces, blanks aside.
Rest(text) == ReadThrough(text).rest

\* A snapshot replaces the bodies it is for and loses, doubles or moves nothing
\* else: requests, assertions, attributes and headers stay (src/utils/file.rs
\* copies by the line numbers of the parser).
RestIsKept ==
    HeldAdjacent => Rest(disk) = Rest(last[1].before)

\* A file written back is a test file still (command-line.md: --write writes the
\* server's responses back to test files).
WrittenFileParses == Held => Parses(disk)

=============================================================================
