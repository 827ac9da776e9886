--------------------------- MODULE LanguageServer ---------------------------
(***************************************************************************)
(* The language server's copy of one document and what it derives from it. *)
(*                                                                         *)
(* The server answers a few messages at a time, and a handler may be       *)
(* overtaken at every await: at each lock it takes, while it reads the     *)
(* disk, while it sends.  The text and its version are under two locks     *)
(* that are held together; the tokens and the hints are kept with their    *)
(* version in one map each; the parse and its version are in two maps.     *)
(* The text of an edit is its number, which the editor also gives it as    *)
(* its version.  One step runs a handler from one await to the next.       *)
(***************************************************************************)
EXTENDS Integers

CONSTANTS
    Handlers,       \* slots for the messages under way at once, as numbers
    Unparsable,     \* edits whose text does not parse
    MaxEdits,       \* bounds: edits the editor makes, the opening one included,
    MaxSaves,       \* files it saves
    MaxRequests     \* and requests it sends

ASSUME ServerAssumption ==
    /\ Handlers \subseteq Nat
    /\ MaxEdits \in Nat \ {0} /\ MaxSaves \in Nat /\ MaxRequests \in Nat
    /\ Unparsable \subseteq 1..MaxEdits

VARIABLES
    handler,            \* per slot: the message it handles and where it is
    open, edits, disk,  \* the editor: has the document open; its last edit; the saved one
    saves, requests,    \* messages sent so far
    documents,          \* the text kept, {} if none
    doc_versions,       \* and its version
    parsed_docs,        \* the parse kept: the text it is of
    parsed_doc_versions,
    caches,             \* semantic_tokens_cache and inlay_hints_cache: version and text
    diagnostics,        \* the text whose diagnostics the editor shows, 0: none
    overtaken           \* history: which messages came while an edit or a save was handled

editor == <<open, edits, disk, saves, requests>>
analysis == <<parsed_docs, parsed_doc_versions, caches>>
vars == <<handler, editor, documents, doc_versions, analysis, diagnostics, overtaken>>

Kept == {"semantic_tokens", "inlay_hints"}
Edits == {"did_open", "did_change"}
Requests == Kept \cup {"parse"}     \* hover, completion, symbols, definition: a parse

Idle == [message |-> "none", at |-> "idle", text |-> 0, version |-> 0]

Init ==
    /\ handler = [h \in Handlers |-> Idle]
    /\ open = FALSE /\ edits = 0 /\ disk = 0 /\ saves = 0 /\ requests = 0
    /\ documents = {} /\ doc_versions = {}
    /\ parsed_docs = {} /\ parsed_doc_versions = {}
    /\ caches = [k \in Kept |-> {}]
    /\ diagnostics = 0
    /\ overtaken = {}

-----------------------------------------------------------------------------
(* The editor sends a message and a free slot takes it                     *)

Busy(messages) == \E h \in Handlers : handler[h].message \in messages

\* Slots are alike: a message takes the first free one.
Take(h, message, at, text, version) ==
    /\ handler[h] = Idle /\ \A g \in Handlers : handler[g] = Idle => h <= g
    /\ handler' = [handler EXCEPT ![h] =
                     [message |-> message, at |-> at, text |-> text, version |-> version]]
    /\ UNCHANGED <<documents, doc_versions, analysis, diagnostics>>

\* What the message may overtake, or be overtaken by.
Overtakes(message) ==
    overtaken' = overtaken
        \cup (IF Busy(Edits) /\ message \notin Requests THEN {"edit"} ELSE {})
        \cup (IF Busy({"did_save"}) /\ message \notin Requests THEN {"save"} ELSE {})
        \cup (IF Busy(Edits) /\ message = "did_save" THEN {"save"} ELSE {})

Edit(h) ==
    /\ edits < MaxEdits /\ (edits = 0 \/ open)
    /\ LET message == IF edits = 0 THEN "did_open" ELSE "did_change"
       IN  Take(h, message, "set_document", edits + 1, edits + 1) /\ Overtakes(message)
    /\ edits' = edits + 1 /\ open' = TRUE
    /\ UNCHANGED <<disk, saves, requests>>

\* The file is on the disk before the server hears of it.
Save(h) ==
    /\ open /\ saves < MaxSaves
    /\ Take(h, "did_save", "read_disk", 0, 0) /\ Overtakes("did_save")
    /\ disk' = edits /\ saves' = saves + 1
    /\ UNCHANGED <<open, edits, requests>>

Close(h) ==
    /\ open
    /\ Take(h, "did_close", "close", 0, 0) /\ Overtakes("did_close")
    /\ open' = FALSE
    /\ UNCHANGED <<edits, disk, saves, requests>>

Ask(h) ==
    /\ open /\ requests < MaxRequests
    /\ \E message \in Requests : Take(h, message, "snapshot", 0, 0)
    /\ requests' = requests + 1
    /\ UNCHANGED <<open, edits, disk, saves, overtaken>>

-----------------------------------------------------------------------------
(* The document                                                            *)

At(h, place) == handler[h].at = place
Goto(h, place) == handler' = [handler EXCEPT ![h].at = place]
End(h) == handler' = [handler EXCEPT ![h] = Idle]

\* Variants: the lock is not held from one await to the next; a handler that waits for
\* it holds another one already.
NeverHeld(places) == FALSE
HeldByTheWaiting(places) == \E h \in Handlers : handler[h].at \in places \cup {"set_document"}

Holding(places) == \E h \in Handlers : handler[h].at \in places

\* The lock of documents is held for writing until doc_versions is locked too.
LockDocument(h) ==
    /\ At(h, "set_document") /\ ~Holding({"set_versions", "snapshot_versions"})
    /\ Goto(h, "set_versions")
    /\ UNCHANGED <<editor, documents, doc_versions, analysis, diagnostics, overtaken>>

version_of(versions) == IF versions = {} THEN -1 ELSE CHOOSE v \in versions : TRUE

\* Variant: the version of the first edit stays.
FirstVersionStays(h) == IF doc_versions = {} THEN {handler[h].version} ELSE doc_versions

stored_version(h) == {handler[h].version}

SetDocument(h) ==
    /\ At(h, "set_versions")
    /\ documents' = {handler[h].text} /\ doc_versions' = stored_version(h)
    /\ Goto(h, "invalidate_docs")
    /\ UNCHANGED <<editor, analysis, diagnostics, overtaken>>

LockSnapshot(h) ==
    /\ At(h, "snapshot") /\ ~Holding({"set_versions"})
    /\ Goto(h, "snapshot_versions")
    /\ UNCHANGED <<editor, documents, doc_versions, analysis, diagnostics, overtaken>>

\* A request for a document the server does not have is answered with nothing.
Snapshot(h) ==
    /\ At(h, "snapshot_versions")
    /\ \/ documents = {} /\ End(h)
       \/ \E text \in documents :
             handler' = [handler EXCEPT ![h] = [@ EXCEPT !.at = "look_up", !.text = text,
                                                         !.version = version_of(doc_versions)]]
    /\ UNCHANGED <<editor, documents, doc_versions, analysis, diagnostics, overtaken>>

ReadDisk(h) ==
    /\ At(h, "read_disk")
    /\ \/ handler' = [handler EXCEPT ![h] = [@ EXCEPT !.at = "current_doc_version", !.text = disk]]
       \/ End(h)
    /\ UNCHANGED <<editor, documents, doc_versions, analysis, diagnostics, overtaken>>

CurrentVersion(h) ==
    /\ At(h, "current_doc_version")
    /\ handler' = [handler EXCEPT ![h] = [@ EXCEPT !.at = "set_document",
                                                   !.version = version_of(doc_versions)]]
    /\ UNCHANGED <<editor, documents, doc_versions, analysis, diagnostics, overtaken>>

-----------------------------------------------------------------------------
(* What is derived from it                                                 *)

\* invalidate_analysis_cache, one map after the other.
Invalidate(h) ==
    /\ \/ /\ At(h, "invalidate_docs") /\ Goto(h, "invalidate_versions")
          /\ parsed_docs' = {} /\ UNCHANGED <<parsed_doc_versions, caches>>
       \/ /\ At(h, "invalidate_versions") /\ Goto(h, "invalidate_tokens")
          /\ parsed_doc_versions' = {} /\ UNCHANGED <<parsed_docs, caches>>
       \/ /\ At(h, "invalidate_tokens") /\ Goto(h, "invalidate_hints")
          /\ caches' = [caches EXCEPT !["semantic_tokens"] = {}]
          /\ UNCHANGED <<parsed_docs, parsed_doc_versions>>
       \/ /\ At(h, "invalidate_hints")
          /\ Goto(h, IF handler[h].text \in Unparsable THEN "publish" ELSE "keep_parse")
          /\ caches' = [caches EXCEPT !["inlay_hints"] = {}]
          /\ UNCHANGED <<parsed_docs, parsed_doc_versions>>
    /\ UNCHANGED <<editor, documents, doc_versions, diagnostics, overtaken>>

\* The parse is stored, then its version: by an edit or a save, and by a request.
KeepParse(h) ==
    /\ \/ /\ At(h, "keep_parse") /\ Goto(h, "keep_version")
          /\ parsed_docs' = {handler[h].text} /\ UNCHANGED parsed_doc_versions
       \/ /\ At(h, "keep_version")
          /\ IF handler[h].message = "parse" THEN End(h) ELSE Goto(h, "publish")
          /\ parsed_doc_versions' = {handler[h].version} /\ UNCHANGED parsed_docs
    /\ UNCHANGED <<editor, documents, doc_versions, caches, diagnostics, overtaken>>

\* The diagnostics carry no version: the editor shows the last ones it gets.
Publish(h) ==
    /\ At(h, "publish") /\ End(h)
    /\ diagnostics' = handler[h].text
    /\ UNCHANGED <<editor, documents, doc_versions, analysis, overtaken>>

\* did_close forgets the document, map by map, and clears its diagnostics.
Forget(h) ==
    /\ \/ /\ At(h, "close") /\ ~Holding({"set_versions", "snapshot_versions"})
          /\ Goto(h, "close_versions")
          /\ documents' = {} /\ UNCHANGED <<doc_versions, analysis, diagnostics>>
       \/ /\ At(h, "close_versions") /\ Goto(h, "close_parsed")
          /\ doc_versions' = {} /\ UNCHANGED <<documents, analysis, diagnostics>>
       \/ /\ At(h, "close_parsed") /\ Goto(h, "close_parsed_versions")
          /\ parsed_docs' = {}
          /\ UNCHANGED <<documents, doc_versions, parsed_doc_versions, caches, diagnostics>>
       \/ /\ At(h, "close_parsed_versions") /\ Goto(h, "close_tokens")
          /\ parsed_doc_versions' = {}
          /\ UNCHANGED <<documents, doc_versions, parsed_docs, caches, diagnostics>>
       \/ /\ At(h, "close_tokens") /\ Goto(h, "close_hints")
          /\ caches' = [caches EXCEPT !["semantic_tokens"] = {}]
          /\ UNCHANGED <<documents, doc_versions, parsed_docs, parsed_doc_versions, diagnostics>>
       \/ /\ At(h, "close_hints") /\ Goto(h, "close_publish")
          /\ caches' = [caches EXCEPT !["inlay_hints"] = {}]
          /\ UNCHANGED <<documents, doc_versions, parsed_docs, parsed_doc_versions, diagnostics>>
       \/ /\ At(h, "close_publish") /\ End(h)
          /\ diagnostics' = 0 /\ UNCHANGED <<documents, doc_versions, analysis>>
    /\ UNCHANGED <<editor, overtaken>>

-----------------------------------------------------------------------------
(* Requests                                                                *)

\* Variant: what is cached is kept under the version the document has by then.
KeptUnderLatest(h) == version_of(doc_versions)

kept_version(h) == handler[h].version

\* Tokens and hints: what is cached under the version of the snapshot is the answer;
\* else it is computed from the text of the snapshot and kept with that version.
LookUpKept(h) ==
    /\ At(h, "look_up") /\ handler[h].message \in Kept
    /\ IF \E entry \in caches[handler[h].message] : entry.version = handler[h].version
       THEN End(h) ELSE Goto(h, "keep")
    /\ UNCHANGED <<editor, documents, doc_versions, analysis, diagnostics, overtaken>>

Keep(h) ==
    /\ At(h, "keep") /\ End(h)
    /\ caches' = [caches EXCEPT ![handler[h].message] =
                    {[version |-> kept_version(h), text |-> handler[h].text]}]
    /\ UNCHANGED <<editor, documents, doc_versions, parsed_docs, parsed_doc_versions,
                   diagnostics, overtaken>>

LookUpParse(h) ==
    /\ At(h, "look_up") /\ handler[h].message = "parse"
    /\ \/ parsed_docs # {} /\ parsed_doc_versions = {handler[h].version} /\ End(h)
       \/ /\ ~(parsed_docs # {} /\ parsed_doc_versions = {handler[h].version})
          /\ IF handler[h].text \in Unparsable THEN End(h) ELSE Goto(h, "keep_parse")
    /\ UNCHANGED <<editor, documents, doc_versions, analysis, diagnostics, overtaken>>

Receive(h) == Edit(h) \/ Save(h) \/ Close(h) \/ Ask(h)

Proceed(h) ==
    \/ LockDocument(h) \/ SetDocument(h) \/ LockSnapshot(h) \/ Snapshot(h)
    \/ ReadDisk(h) \/ CurrentVersion(h) \/ Invalidate(h) \/ KeepParse(h) \/ Publish(h)
    \/ Forget(h) \/ LookUpKept(h) \/ Keep(h) \/ LookUpParse(h)

Next == \E h \in Handlers : Receive(h) \/ Proceed(h)

Spec == Init /\ [][Next]_vars /\ \A h \in Handlers : WF_vars(Proceed(h))

-----------------------------------------------------------------------------
(* Properties                                                              *)

Texts == 0..MaxEdits
Versions == {-1} \cup Texts

\* Where the handler of an edit, a save, a closing and a request may be.
Analysing == {"invalidate_docs", "invalidate_versions", "invalidate_tokens", "invalidate_hints",
              "keep_parse", "keep_version", "publish"}
Writing == {"set_document", "set_versions"} \cup Analysing
Saving == {"read_disk", "current_doc_version"} \cup Writing
Closing == {"close", "close_versions", "close_parsed", "close_parsed_versions", "close_tokens",
            "close_hints", "close_publish"}
Asking == {"snapshot", "snapshot_versions", "look_up", "keep", "keep_parse", "keep_version"}

\* The types, and never two handlers of which one holds the document's lock for writing.
TypeOK ==
    /\ handler \in [Handlers -> [message : {"none", "did_save", "did_close"} \cup Edits \cup Requests,
                                 at : {"idle"} \cup Saving \cup Closing \cup Asking,
                                 text : Texts, version : Versions]]
    /\ open \in BOOLEAN /\ edits \in Texts /\ disk \in Texts
    /\ saves \in 0..MaxSaves /\ requests \in 0..MaxRequests
    /\ overtaken \subseteq {"edit", "save"}
    /\ documents \subseteq Texts /\ doc_versions \subseteq Versions
    /\ parsed_docs \subseteq Texts /\ parsed_doc_versions \subseteq Versions
    /\ caches \in [Kept -> SUBSET [version : Versions, text : Texts]]
    /\ diagnostics \in Texts
    /\ \A h, g \in Handlers :
          handler[h].at = "set_versions" /\ handler[g].at \in {"set_versions", "snapshot_versions"}
              => h = g

\* Nothing is kept under the version of another text, neither the document nor the
\* tokens and hints, in whatever order edits, requests and the closing are handled: as
\* long as no edit meets a save or, when one follows, another edit.  (A text that a late
\* edit leaves behind while the document is closed has no version.)
KeptOfItsVersion ==
    "save" \notin overtaken /\ (saves = 0 \/ "edit" \notin overtaken) =>
        /\ documents # {} /\ doc_versions # {} => doc_versions = documents
        /\ \A k \in Kept : \A entry \in caches[k] : entry.version \in {-1, entry.text}

\* When every message has been handled and none overtook an edit or a save, the server
\* has the editor's text, under its version, and the editor shows its diagnostics; a
\* document that was closed has left nothing of these.
SettlesOnTheLastEdit ==
    (handler = [h \in Handlers |-> Idle]) /\ overtaken = {} /\ edits > 0 =>
        IF open THEN /\ documents = {edits} /\ doc_versions = {edits}
                     /\ diagnostics = edits
        ELSE documents = {} /\ doc_versions = {} /\ diagnostics = 0

\* Every message is handled to its end: no two handlers wait for each other's locks.
MessagesHandled == \A h \in Handlers : (handler[h] # Idle) ~> (handler[h] = Idle)

\* A snapshot of the text with its version "prevents caching a parse of one revision
\* under the version number of another" (server.rs:594-595).
ParseOfItsVersion ==
    saves = 0 /\ parsed_docs # {} /\ parsed_doc_versions # {}
        /\ ~Holding({"keep_version", "invalidate_versions", "close_parsed_versions"})
        => parsed_doc_versions \in {{-1}, parsed_docs}
=============================================================================
