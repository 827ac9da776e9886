----------------------- MODULE LanguageServer_proofs -----------------------
(***************************************************************************)
(* For every number of messages under way at once, of edits, saves and     *)
(* requests: nothing is kept under the version of another text, and the    *)
(* server settles on the last edit.                                        *)
(***************************************************************************)
EXTENDS LanguageServer, TLAPS

Places == {"idle"} \cup Saving \cup Closing \cup Asking
HandlerType == [message : {"none", "did_save", "did_close"} \cup Edits \cup Requests,
                at : Places, text : Texts, version : Versions]

Writers == Edits \cup {"did_save", "did_close"}

-----------------------------------------------------------------------------
(* How a handler moves                                                     *)

LEMMA Constants ==
    ASSUME ServerAssumption
    PROVE  /\ Texts \subseteq Nat /\ 0 \in Texts /\ Versions = {-1} \cup Texts /\ -1 \notin Texts
           /\ Idle \in HandlerType
<1>1. MaxEdits \in Nat
  BY DEF ServerAssumption
<1>2. Texts \subseteq Nat /\ 0 \in Texts /\ -1 \notin Texts
  BY <1>1 DEF Texts
<1>3. Idle \in HandlerType
  BY <1>2 DEF Versions, Idle, HandlerType, Places
<1> QED  BY <1>2, <1>3 DEF Versions

LEMMA GotoMoves ==
    ASSUME handler \in [Handlers -> HandlerType], NEW h \in Handlers, NEW place \in Places,
           Goto(h, place)
    PROVE  /\ handler' \in [Handlers -> HandlerType]
           /\ handler'[h].at = place /\ handler'[h].message = handler[h].message
           /\ handler'[h].text = handler[h].text /\ handler'[h].version = handler[h].version
           /\ \A g \in Handlers : g # h => handler'[g] = handler[g]
<1>1. handler[h] \in HandlerType
  OBVIOUS
<1>2. [handler[h] EXCEPT !.at = place] \in HandlerType
  BY <1>1 DEF HandlerType
<1>3. handler' = [handler EXCEPT ![h] = [handler[h] EXCEPT !.at = place]]
  BY DEF Goto
<1> QED  BY <1>1, <1>2, <1>3 DEF HandlerType

LEMMA EndMoves ==
    ASSUME ServerAssumption, handler \in [Handlers -> HandlerType], NEW h \in Handlers, End(h)
    PROVE  /\ handler' \in [Handlers -> HandlerType] /\ handler'[h] = Idle
           /\ \A g \in Handlers : g # h => handler'[g] = handler[g]
BY Constants DEF End

\* A message comes to a free slot.
LEMMA TakeMoves ==
    ASSUME handler \in [Handlers -> HandlerType], NEW h \in Handlers,
           NEW message \in {"did_save", "did_close"} \cup Edits \cup Requests, NEW at \in Places,
           NEW text \in Texts, NEW version \in Versions, Take(h, message, at, text, version)
    PROVE  /\ handler' \in [Handlers -> HandlerType] /\ handler[h] = Idle
           /\ handler'[h] = [message |-> message, at |-> at, text |-> text, version |-> version]
           /\ \A g \in Handlers : g # h => handler'[g] = handler[g]
           /\ UNCHANGED <<documents, doc_versions, analysis, diagnostics>>
<1>1. [message |-> message, at |-> at, text |-> text, version |-> version] \in HandlerType
  BY DEF HandlerType
<1> QED  BY <1>1 DEF Take

\* The version of no text is -1; of a text, the one kept.
LEMMA VersionOf ==
    ASSUME NEW S
    PROVE  version_of(S) \in {-1} \cup S /\ (S # {} => version_of(S) \in S)
<1>1. CASE S = {}
  BY <1>1 DEF version_of
<1>2. CASE S # {}
  BY <1>2 DEF version_of
<1> QED  BY <1>1, <1>2

-----------------------------------------------------------------------------
(* Types and the document's lock                                           *)

Exclusive ==
    \A h, g \in Handlers :
       handler[h].at = "set_versions" /\ handler[g].at \in {"set_versions", "snapshot_versions"} => h = g

StateType ==
    /\ open \in BOOLEAN /\ edits \in Texts /\ disk \in Texts
    /\ saves \in 0..MaxSaves /\ requests \in 0..MaxRequests
    /\ overtaken \subseteq {"edit", "save"}
    /\ documents \subseteq Texts /\ doc_versions \subseteq Versions
    /\ parsed_docs \subseteq Texts /\ parsed_doc_versions \subseteq Versions
    /\ caches \in [Kept -> SUBSET [version : Versions, text : Texts]]
    /\ diagnostics \in Texts

LEMMA TypeIs == TypeOK <=> handler \in [Handlers -> HandlerType] /\ StateType /\ Exclusive
BY DEF TypeOK, HandlerType, Places, StateType, Exclusive

LEMMA InitTypeOK == ASSUME ServerAssumption, Init PROVE TypeOK
<1>1. handler \in [Handlers -> HandlerType] /\ \A h \in Handlers : handler[h].at = "idle"
  BY Constants DEF Init, Idle
<1>2. caches \in [Kept -> SUBSET [version : Versions, text : Texts]]
  BY DEF Init
<1>3. saves \in 0..MaxSaves /\ requests \in 0..MaxRequests
  BY DEF Init, ServerAssumption
<1>4. StateType
  BY Constants, <1>2, <1>3 DEF Init, StateType
<1> QED  BY <1>1, <1>4, TypeIs DEF Exclusive

\* The shared state keeps to its type, whatever a handler does.
LEMMA ProceedState ==
    ASSUME ServerAssumption, TypeOK, NEW h \in Handlers, Proceed(h)
    PROVE  StateType'
<1> USE DEF editor, analysis
<1>1. /\ StateType /\ handler[h].text \in Texts /\ handler[h].version \in Versions
      /\ 0 \in Texts /\ handler[h].message \in {"none", "did_save", "did_close"} \cup Edits \cup Requests
  BY TypeIs, Constants DEF HandlerType
<1>2. CASE LockDocument(h) \/ LockSnapshot(h) \/ Snapshot(h) \/ ReadDisk(h) \/ CurrentVersion(h)
           \/ LookUpKept(h) \/ LookUpParse(h)
  BY <1>1, <1>2 DEF LockDocument, LockSnapshot, Snapshot, ReadDisk, CurrentVersion, LookUpKept, LookUpParse,
                    StateType
<1>3. CASE SetDocument(h)
  BY <1>1, <1>3 DEF SetDocument, stored_version, StateType
<1>4. CASE Invalidate(h)
  BY <1>1, <1>4 DEF Invalidate, StateType, Kept
<1>5. CASE KeepParse(h)
  BY <1>1, <1>5 DEF KeepParse, StateType
<1>6. CASE Publish(h)
  BY <1>1, <1>6 DEF Publish, StateType
<1>7. CASE Forget(h)
  BY <1>1, <1>7 DEF Forget, StateType, Kept
<1>8. CASE Keep(h)
  <2>1. {[version |-> handler[h].version, text |-> handler[h].text]} \in SUBSET [version : Versions, text : Texts]
    BY <1>1
  <2>2. caches' = [caches EXCEPT ![handler[h].message] = {[version |-> handler[h].version, text |-> handler[h].text]}]
    BY <1>8 DEF Keep, kept_version
  <2>3. caches' \in [Kept -> SUBSET [version : Versions, text : Texts]]
    BY <1>1, <2>1, <2>2 DEF StateType
  <2> QED  BY <1>1, <1>8, <2>3 DEF Keep, StateType
<1> QED  BY <1>2, <1>3, <1>4, <1>5, <1>6, <1>7, <1>8 DEF Proceed

\* Where a handler may be, by its message; an edit carries its number twice.
PlaceOf(r) ==
    /\ r.message = "none" => r = Idle
    /\ r.message \in Edits => r.at \in Writing /\ r.version = r.text
    /\ r.message = "did_save" => r.at \in Saving
    /\ r.message = "did_close" => r.at \in Closing
    /\ r.message \in Kept => r.at \in Asking \ {"keep_parse", "keep_version"}
    /\ r.message = "parse" => r.at \in Asking \ {"keep"}

\* What a handler's step does to the handlers: it goes on or ends, and takes the
\* document's lock only when it may.
Moved(h) ==
    /\ handler' \in [Handlers -> HandlerType]
    /\ \A g \in Handlers : g # h => handler'[g] = handler[g]
    /\ handler'[h] = Idle \/ handler'[h].message = handler[h].message
    /\ PlaceOf(handler'[h])
    /\ handler'[h].at = "set_versions" => ~Holding({"set_versions", "snapshot_versions"})
    /\ handler'[h].at = "snapshot_versions" => ~Holding({"set_versions"})

LEMMA ProceedMoves ==
    ASSUME ServerAssumption, TypeOK, NEW h \in Handlers, Proceed(h), PlaceOf(handler[h])
    PROVE  Moved(h) /\ handler[h] # Idle /\ UNCHANGED <<editor, overtaken>>
<1> USE DEF Places, At
<1>1. /\ handler \in [Handlers -> HandlerType] /\ handler[h] \in HandlerType /\ StateType
      /\ Idle.at = "idle" /\ Idle.message = "none" /\ Idle \in HandlerType
  BY TypeIs, Constants DEF Idle
<1>2. /\ handler[h].message \in {"none", "did_save", "did_close"} \cup Edits \cup Requests
      /\ handler[h].message = "none" => handler[h].at = "idle"
  BY <1>1 DEF HandlerType, PlaceOf
<1>3. ASSUME NEW place \in Places, Goto(h, place), handler[h].at # "idle",
             handler[h].message \in Edits => place \in Writing,
             handler[h].message = "did_save" => place \in Saving,
             handler[h].message = "did_close" => place \in Closing,
             handler[h].message \in Kept => place \in Asking \ {"keep_parse", "keep_version"},
             handler[h].message = "parse" => place \in Asking \ {"keep"},
             place = "set_versions" => ~Holding({"set_versions", "snapshot_versions"}),
             place = "snapshot_versions" => ~Holding({"set_versions"})
      PROVE  Moved(h) /\ handler[h] # Idle
  <2> HIDE DEF Places
  <2>1. PlaceOf(handler'[h])
    BY <1>1, <1>2, <1>3, GotoMoves DEF PlaceOf
  <2> QED  BY <1>1, <1>3, <2>1, GotoMoves DEF Moved
<1>4. PlaceOf(Idle)
  BY DEF PlaceOf, Idle, Edits, Requests, Kept
<1>5. ASSUME End(h), handler[h].at # "idle" PROVE Moved(h) /\ handler[h] # Idle
  <2>1. handler'[h] = Idle
    BY <1>1, <1>5, EndMoves
  <2> QED  BY <1>1, <1>4, <1>5, <2>1, EndMoves DEF Moved
<1>6. UNCHANGED <<editor, overtaken>>
  BY DEF Proceed, LockDocument, SetDocument, LockSnapshot, Snapshot, ReadDisk, CurrentVersion, Invalidate, KeepParse,
         Publish, Forget, LookUpKept, Keep, LookUpParse, editor
<1>7. CASE LockDocument(h)
  BY <1>2, <1>3, <1>7 DEF LockDocument, PlaceOf, Edits, Requests, Kept, Writing, Saving, Closing, Asking, Analysing
<1>8. CASE SetDocument(h)
  BY <1>2, <1>3, <1>8 DEF SetDocument, PlaceOf, Edits, Requests, Kept, Writing, Saving, Closing, Asking, Analysing
<1>9. CASE LockSnapshot(h)
  BY <1>2, <1>3, <1>9 DEF LockSnapshot, PlaceOf, Edits, Requests, Kept, Writing, Saving, Closing, Asking, Analysing
<1>10. CASE Invalidate(h)
  BY <1>2, <1>3, <1>10 DEF Invalidate, PlaceOf, Edits, Requests, Kept, Writing, Saving, Closing, Asking, Analysing
<1>11. CASE KeepParse(h)
  BY <1>2, <1>3, <1>5, <1>11 DEF KeepParse, PlaceOf, Edits, Requests, Kept, Writing, Saving, Closing, Asking, Analysing
<1>12. CASE Publish(h) \/ Keep(h)
  BY <1>5, <1>12 DEF Publish, Keep
<1>13. CASE Forget(h)
  BY <1>2, <1>3, <1>5, <1>13 DEF Forget, PlaceOf, Edits, Requests, Kept, Writing, Saving, Closing, Asking, Analysing
<1>14. CASE LookUpKept(h)
  BY <1>2, <1>3, <1>5, <1>14 DEF LookUpKept, PlaceOf, Edits, Requests, Kept, Writing, Saving, Closing, Asking, Analysing
<1>15. CASE LookUpParse(h)
  BY <1>2, <1>3, <1>5, <1>15 DEF LookUpParse, PlaceOf, Edits, Requests, Kept, Writing, Saving, Closing, Asking, Analysing
<1>16. ASSUME NEW r \in HandlerType, handler[h].at # "idle",
              handler' = [handler EXCEPT ![h] = r], r.message = handler[h].message,
              \/ r.at = "look_up" /\ r.message \in Requests
              \/ r.at \in {"current_doc_version", "set_document"} /\ r.message = "did_save"
       PROVE  Moved(h) /\ handler[h] # Idle
  <2>1. handler'[h] = r /\ handler' \in [Handlers -> HandlerType]
        /\ \A g \in Handlers : g # h => handler'[g] = handler[g]
    BY <1>1, <1>16
  <2>2. PlaceOf(r) /\ r.at \notin {"set_versions", "snapshot_versions"}
    BY <1>2, <1>16 DEF PlaceOf, Edits, Requests, Kept, Saving, Writing, Asking
  <2> QED  BY <1>1, <1>16, <2>1, <2>2 DEF Moved
<1>17. CASE Snapshot(h)
  <2>1. CASE documents = {} /\ End(h)
    BY <1>5, <1>17, <2>1 DEF Snapshot
  <2>2. CASE ~(documents = {} /\ End(h))
    <3> DEFINE r(text) == [handler[h] EXCEPT !.at = "look_up", !.text = text,
                                             !.version = version_of(doc_versions)]
    <3>1. PICK text \in documents : handler' = [handler EXCEPT ![h] = r(text)]
      BY <1>17, <2>2 DEF Snapshot
    <3>2. text \in Texts /\ version_of(doc_versions) \in Versions
      BY <1>1, <3>1, VersionOf, Constants DEF StateType
    <3>3. "look_up" \in Places
      BY DEF Asking
    <3>4. r(text) \in HandlerType /\ r(text).message = handler[h].message /\ r(text).at = "look_up"
      <4> HIDE DEF Places
      <4> QED  BY <1>1, <3>2, <3>3 DEF HandlerType
    <3>5. handler[h].message \in Requests /\ handler[h].at # "idle"
      BY <1>2, <1>17 DEF Snapshot, PlaceOf, Edits, Saving, Writing, Analysing, Closing
    <3> HIDE DEF r
    <3> QED  BY <1>6, <1>16, <3>1, <3>4, <3>5
  <2> QED  BY <2>1, <2>2
<1>18. CASE ReadDisk(h)
  <2>1. CASE End(h)
    BY <1>5, <1>18, <2>1 DEF ReadDisk
  <2>2. CASE ~End(h)
    <3> DEFINE r == [handler[h] EXCEPT !.at = "current_doc_version", !.text = disk]
    <3>1. handler' = [handler EXCEPT ![h] = r]
      BY <1>18, <2>2 DEF ReadDisk
    <3>2. "current_doc_version" \in Places /\ disk \in Texts
      BY <1>1 DEF Saving, StateType
    <3>3. r \in HandlerType /\ r.message = handler[h].message /\ r.at = "current_doc_version"
      <4> HIDE DEF Places
      <4> QED  BY <1>1, <3>2 DEF HandlerType
    <3>4. handler[h].message = "did_save" /\ handler[h].at # "idle"
      BY <1>2, <1>18 DEF ReadDisk, PlaceOf, Edits, Requests, Kept, Writing, Analysing, Closing, Asking
    <3> HIDE DEF r
    <3> QED  BY <1>6, <1>16, <3>1, <3>3, <3>4
  <2> QED  BY <2>1, <2>2
<1>19. CASE CurrentVersion(h)
  <2> DEFINE r == [handler[h] EXCEPT !.at = "set_document", !.version = version_of(doc_versions)]
  <2>1. handler' = [handler EXCEPT ![h] = r]
    BY <1>19 DEF CurrentVersion
  <2>2. "set_document" \in Places /\ version_of(doc_versions) \in Versions
    BY <1>1, VersionOf, Constants DEF Saving, Writing, StateType
  <2>3. r \in HandlerType /\ r.message = handler[h].message /\ r.at = "set_document"
    <3> HIDE DEF Places
    <3> QED  BY <1>1, <2>2 DEF HandlerType
  <2>4. handler[h].message = "did_save" /\ handler[h].at # "idle"
    BY <1>2, <1>19 DEF CurrentVersion, PlaceOf, Edits, Requests, Kept, Writing, Analysing, Closing, Asking
  <2> HIDE DEF r
  <2> QED  BY <1>6, <1>16, <2>1, <2>3, <2>4
<1> QED
  BY <1>6, <1>7, <1>8, <1>9, <1>10, <1>11, <1>12, <1>13, <1>14, <1>15, <1>17, <1>18, <1>19 DEF Proceed

\* A message comes to a free slot; no handler goes on.
LEMMA ReceiveMoves ==
    ASSUME ServerAssumption, TypeOK, NEW h \in Handlers, Receive(h)
    PROVE  /\ handler' \in [Handlers -> HandlerType] /\ handler[h] = Idle
           /\ \A g \in Handlers : g # h => handler'[g] = handler[g]
           /\ PlaceOf(handler'[h])
           /\ handler'[h].at \notin {"set_versions", "snapshot_versions", "look_up", "keep"}
           /\ StateType' /\ UNCHANGED <<documents, doc_versions, analysis, diagnostics>>
<1> USE DEF analysis
<1>1. /\ handler \in [Handlers -> HandlerType] /\ StateType /\ 0 \in Texts /\ 0 \in Versions
      /\ Texts = 0..MaxEdits /\ Texts \subseteq Versions
      /\ MaxEdits \in Nat /\ MaxSaves \in Nat /\ MaxRequests \in Nat
  BY TypeIs, Constants DEF Texts, ServerAssumption
<1>2. ASSUME NEW message, Overtakes(message) PROVE overtaken' \subseteq {"edit", "save"}
  BY <1>1, <1>2 DEF Overtakes, StateType
<1>3. CASE Edit(h)
  <2> DEFINE message == IF edits = 0 THEN "did_open" ELSE "did_change"
  <2>1. /\ Take(h, message, "set_document", edits + 1, edits + 1) /\ Overtakes(message)
        /\ edits < MaxEdits /\ edits' = edits + 1 /\ open' = TRUE /\ UNCHANGED <<disk, saves, requests>>
    BY <1>3 DEF Edit
  <2>2. edits + 1 \in Texts /\ edits + 1 \in Versions
    BY <1>1, <2>1 DEF StateType
  <2>3. message \in Edits
    BY DEF Edits
  <2>4. "set_document" \in Places
    BY DEF Places, Saving, Writing
  <2> HIDE DEF message
  <2>5. /\ handler' \in [Handlers -> HandlerType] /\ handler[h] = Idle
        /\ handler'[h] = [message |-> message, at |-> "set_document", text |-> edits + 1, version |-> edits + 1]
        /\ \A g \in Handlers : g # h => handler'[g] = handler[g]
        /\ UNCHANGED <<documents, doc_versions, analysis, diagnostics>>
    BY <1>1, <2>1, <2>2, <2>3, <2>4, TakeMoves
  <2>6. PlaceOf(handler'[h])
    BY <2>3, <2>5 DEF PlaceOf, Edits, Kept, Writing
  <2>7. StateType'
    BY <1>1, <1>2, <2>1, <2>2, <2>5 DEF StateType
  <2> QED  BY <2>5, <2>6, <2>7
<1>4. CASE Save(h)
  <2>1. /\ Take(h, "did_save", "read_disk", 0, 0) /\ Overtakes("did_save") /\ saves < MaxSaves
        /\ disk' = edits /\ saves' = saves + 1 /\ UNCHANGED <<open, edits, requests>>
    BY <1>4 DEF Save
  <2>2. "read_disk" \in Places
    BY DEF Places, Saving
  <2>3. /\ handler' \in [Handlers -> HandlerType] /\ handler[h] = Idle
        /\ handler'[h] = [message |-> "did_save", at |-> "read_disk", text |-> 0, version |-> 0]
        /\ \A g \in Handlers : g # h => handler'[g] = handler[g]
        /\ UNCHANGED <<documents, doc_versions, analysis, diagnostics>>
    BY <1>1, <2>1, <2>2, TakeMoves
  <2>4. PlaceOf(handler'[h])
    BY <2>3 DEF PlaceOf, Edits, Kept, Saving
  <2>5. StateType'
    BY <1>1, <1>2, <2>1, <2>3 DEF StateType
  <2> QED  BY <2>3, <2>4, <2>5
<1>5. CASE Close(h)
  <2>1. /\ Take(h, "did_close", "close", 0, 0) /\ Overtakes("did_close")
        /\ open' = FALSE /\ UNCHANGED <<edits, disk, saves, requests>>
    BY <1>5 DEF Close
  <2>2. "close" \in Places
    BY DEF Places, Closing
  <2>3. /\ handler' \in [Handlers -> HandlerType] /\ handler[h] = Idle
        /\ handler'[h] = [message |-> "did_close", at |-> "close", text |-> 0, version |-> 0]
        /\ \A g \in Handlers : g # h => handler'[g] = handler[g]
        /\ UNCHANGED <<documents, doc_versions, analysis, diagnostics>>
    BY <1>1, <2>1, <2>2, TakeMoves
  <2>4. PlaceOf(handler'[h])
    BY <2>3 DEF PlaceOf, Edits, Kept, Closing
  <2>5. StateType'
    BY <1>1, <1>2, <2>1, <2>3 DEF StateType
  <2> QED  BY <2>3, <2>4, <2>5
<1>6. CASE Ask(h)
  <2>1. PICK message \in Requests : Take(h, message, "snapshot", 0, 0)
    BY <1>6 DEF Ask
  <2>2. "snapshot" \in Places
    BY DEF Places, Asking
  <2>3. /\ handler' \in [Handlers -> HandlerType] /\ handler[h] = Idle
        /\ handler'[h] = [message |-> message, at |-> "snapshot", text |-> 0, version |-> 0]
        /\ \A g \in Handlers : g # h => handler'[g] = handler[g]
        /\ UNCHANGED <<documents, doc_versions, analysis, diagnostics>>
    BY <1>1, <2>1, <2>2, TakeMoves
  <2>4. PlaceOf(handler'[h])
    BY <2>3 DEF PlaceOf, Edits, Kept, Requests, Asking
  <2>5. requests < MaxRequests /\ requests' = requests + 1 /\ UNCHANGED <<open, edits, disk, saves, overtaken>>
    BY <1>6 DEF Ask
  <2>6. StateType'
    BY <1>1, <2>3, <2>5 DEF StateType
  <2> QED  BY <2>3, <2>4, <2>6
<1> QED  BY <1>3, <1>4, <1>5, <1>6 DEF Receive

\* The document is one text; an editor that has it open has edited it; a closing and a
\* save are what their handlers say.
Ordered ==
    /\ \A h \in Handlers : PlaceOf(handler[h])
    /\ \A x, y \in documents : x = y
    /\ open => edits > 0
    /\ \A h \in Handlers :
          /\ handler[h].message = "did_close" => ~open /\ edits > 0
          /\ handler[h].message = "did_save" => saves # 0

LEMMA NextTypeOK ==
    ASSUME ServerAssumption, TypeOK, Ordered, [Next]_vars
    PROVE  TypeOK'
<1>1. Exclusive /\ handler \in [Handlers -> HandlerType] /\ Idle.at = "idle"
  BY TypeIs DEF Idle
<1>2. ASSUME NEW h \in Handlers, Proceed(h) PROVE TypeOK'
  <2>1. Moved(h) /\ StateType'
    BY <1>2, ProceedState, ProceedMoves DEF Ordered
  <2>2. Exclusive'
    BY <1>1, <2>1 DEF Exclusive, Moved, Holding
  <2> QED  BY <2>1, <2>2 DEF Moved, TypeOK, HandlerType, Places, StateType, Exclusive
<1>3. ASSUME NEW h \in Handlers, Receive(h) PROVE TypeOK'
  <2>1. Exclusive'
    BY <1>1, <1>3, ReceiveMoves DEF Exclusive
  <2>2. handler' \in [Handlers -> HandlerType] /\ StateType'
    BY <1>3, ReceiveMoves
  <2> QED  BY <2>1, <2>2 DEF TypeOK, HandlerType, Places, StateType, Exclusive
<1>4. CASE UNCHANGED vars
  BY <1>4 DEF vars, editor, analysis, TypeOK
<1> QED  BY <1>2, <1>3, <1>4 DEF Next

LEMMA NextOrdered ==
    ASSUME ServerAssumption, TypeOK, Ordered, [Next]_vars
    PROVE  Ordered'
<1> USE DEF editor, analysis
<1>1. /\ handler \in [Handlers -> HandlerType] /\ edits \in Nat /\ saves \in Nat
      /\ Idle.message = "none"
  BY TypeIs, Constants DEF StateType, Idle, ServerAssumption
<1>2. ASSUME NEW h \in Handlers, Proceed(h) PROVE Ordered'
  <2>1. Moved(h) /\ UNCHANGED <<editor, overtaken>>
    BY <1>2, ProceedMoves DEF Ordered
  <2>2. documents' = documents \/ documents' = {} \/ documents' = {handler[h].text}
    BY <1>2 DEF Proceed, LockDocument, SetDocument, LockSnapshot, Snapshot, ReadDisk, CurrentVersion, Invalidate,
                KeepParse, Publish, Forget, LookUpKept, Keep, LookUpParse
  <2>3. \A x, y \in documents' : x = y
    BY <2>2 DEF Ordered
  <2> QED  BY <1>1, <2>1, <2>3 DEF Ordered, Moved
<1>3. ASSUME NEW h \in Handlers, Receive(h) PROVE Ordered'
  <2>1. /\ \A g \in Handlers : g # h => handler'[g] = handler[g]
        /\ PlaceOf(handler'[h]) /\ UNCHANGED documents
    BY <1>3, ReceiveMoves
  <2>2. /\ handler'[h].message \in Edits \cup Requests \cup {"did_save", "did_close"}
        /\ handler'[h].message = "did_close" => ~open' /\ open
        /\ handler'[h].message = "did_save" => saves' > 0
        /\ edits' \in {edits, edits + 1} /\ saves' \in {saves, saves + 1}
        /\ (open' /\ ~open => edits' > 0)
        /\ (handler'[h].message \in Edits => open' /\ edits' = edits + 1 /\ (open \/ edits = 0))
        /\ (handler'[h].message \notin Edits /\ open' => open)
    <3>1. CASE Edit(h)
      BY <1>1, <3>1 DEF Edit, Take, Edits
    <3>2. CASE Save(h)
      BY <1>1, <3>2 DEF Save, Take, Edits
    <3>3. CASE Close(h)
      BY <1>1, <3>3 DEF Close, Take, Edits
    <3>4. CASE Ask(h)
      BY <1>1, <3>4 DEF Ask, Take, Edits, Requests, Kept
    <3> QED  BY <1>3, <3>1, <3>2, <3>3, <3>4 DEF Receive
  <2>3. \A g \in Handlers \ {h} : handler[g].message = "did_close" => ~open' /\ edits' > 0
    <3>1. SUFFICES ASSUME NEW g \in Handlers \ {h}, handler[g].message = "did_close"
                   PROVE  ~open' /\ edits' > 0
      OBVIOUS
    <3>2. ~open /\ edits > 0
      BY <3>1 DEF Ordered
    <3>3. handler'[h].message \notin Edits
      BY <1>1, <2>2, <3>2
    <3> QED  BY <1>1, <2>2, <3>2, <3>3
  <2>4. handler'[h].message = "did_close" => edits' > 0
    BY <1>1, <2>2 DEF Ordered
  <2> QED  BY <1>1, <2>1, <2>2, <2>3, <2>4 DEF Ordered
<1>4. CASE UNCHANGED vars
  BY <1>4 DEF vars, Ordered
<1> QED  BY <1>2, <1>3, <1>4 DEF Next

-----------------------------------------------------------------------------
(* Nothing overtaken                                                       *)

Current == documents = {edits} /\ doc_versions = {edits}

\* How far the handler of an edit, of a save and of a closing has come with it.
QuietOf(r) ==
    /\ r.message \in Edits =>
         /\ open /\ r.text = edits
         /\ r.at \in Analysing => Current
    /\ r.message = "did_save" =>
         /\ open /\ disk = edits /\ Current /\ diagnostics = edits
         /\ r.at # "read_disk" => r.text = edits
         /\ r.at \in {"set_document", "set_versions"} => r.version = edits
    /\ r.message = "did_close" =>
         /\ r.at # "close" => documents = {}
         /\ r.at \notin {"close", "close_versions"} => doc_versions = {}

\* The server has what the editor has.
Resting ==
    IF open THEN Current /\ diagnostics = edits
            ELSE documents = {} /\ doc_versions = {} /\ diagnostics = 0

\* As long as nothing is overtaken, one message at a time changes the document, and
\* between them the server has what the editor has.
Quiet ==
    overtaken = {} =>
        /\ \A h, g \in Handlers :
              handler[h].message \in Writers /\ handler[g].message \in Writers => h = g
        /\ \A h \in Handlers : QuietOf(handler[h])
        /\ ~Busy(Writers) => Resting

LEMMA WriterQuiet ==
    ASSUME ServerAssumption, TypeOK, Ordered, Quiet, overtaken = {}, NEW h \in Handlers, Proceed(h),
           handler[h].message \in Writers
    PROVE  QuietOf(handler[h])' /\ (handler'[h].message \notin Writers => Resting')
<1> USE DEF editor, analysis, At
<1>1. /\ handler \in [Handlers -> HandlerType] /\ handler[h] \in HandlerType
      /\ Idle.at = "idle" /\ Idle.message = "none" /\ Idle.text = 0
  BY TypeIs DEF Idle
<1>2. QuietOf(handler[h]) /\ PlaceOf(handler[h]) /\ (handler[h].message = "did_close" => ~open)
  BY DEF Quiet, Ordered
<1>3. /\ handler[h].message \in Edits \cup {"did_save", "did_close"} /\ UNCHANGED editor
  BY ProceedMoves DEF Writers, Ordered
<1>4. ASSUME NEW place \in Places, Goto(h, place), UNCHANGED <<documents, doc_versions, diagnostics>>,
             handler[h].message \in Edits => (place \in Analysing => Current),
             handler[h].message = "did_save" =>
                /\ handler[h].at # "read_disk"
                /\ place = "set_document" => FALSE
                /\ place = "set_versions" => handler[h].at = "set_document",
             handler[h].message = "did_close" =>
                /\ place # "close" => documents = {}
                /\ place \notin {"close", "close_versions"} => doc_versions = {}
      PROVE  QuietOf(handler[h])' /\ (handler'[h].message \notin Writers => Resting')
  <2>1. /\ handler'[h].at = place /\ handler'[h].message = handler[h].message
        /\ handler'[h].text = handler[h].text /\ handler'[h].version = handler[h].version
    BY <1>1, <1>4, GotoMoves
  <2> QED  BY <1>2, <1>3, <1>4, <2>1 DEF QuietOf, Current
<1>5. ASSUME End(h), Resting' PROVE QuietOf(handler[h])' /\ (handler'[h].message \notin Writers => Resting')
  BY <1>1, <1>5, EndMoves DEF QuietOf, Edits
<1>6. CASE LockDocument(h)
  BY <1>2, <1>3, <1>4, <1>6 DEF LockDocument, Places, PlaceOf, Edits, Saving, Writing, Analysing, Closing
<1>7. CASE SetDocument(h)
  <2>1. handler[h].text = edits /\ handler[h].version = edits /\ handler[h].message \in Edits \cup {"did_save"}
    BY <1>2, <1>3, <1>7 DEF SetDocument, QuietOf, PlaceOf, Closing
  <2>2. documents' = {edits} /\ doc_versions' = {edits} /\ diagnostics' = diagnostics /\ Goto(h, "invalidate_docs")
    BY <1>7, <2>1 DEF SetDocument, stored_version
  <2>3. "invalidate_docs" \in Places
    BY DEF Places, Saving, Writing, Analysing
  <2>4. /\ handler'[h].at = "invalidate_docs" /\ handler'[h].message = handler[h].message
        /\ handler'[h].text = handler[h].text
    BY <1>1, <2>2, <2>3, GotoMoves
  <2> QED  BY <1>2, <1>3, <2>1, <2>2, <2>4 DEF QuietOf, Current, Writers, Edits
<1>8. CASE ReadDisk(h)
  <2>1. handler[h].message = "did_save"
    BY <1>2, <1>3, <1>8 DEF ReadDisk, PlaceOf, Writing, Analysing, Closing
  <2>2. open /\ disk = edits /\ Current /\ diagnostics = edits
    BY <1>2, <2>1 DEF QuietOf
  <2>3. CASE End(h)
    BY <1>3, <1>5, <1>8, <2>2, <2>3 DEF ReadDisk, Resting, Current
  <2>4. CASE ~End(h)
    <3> DEFINE r == [handler[h] EXCEPT !.at = "current_doc_version", !.text = disk]
    <3>1. handler' = [handler EXCEPT ![h] = r]
      BY <1>8, <2>4 DEF ReadDisk
    <3>2. r.message = handler[h].message /\ r.at = "current_doc_version" /\ r.text = disk
      BY <1>1 DEF HandlerType
    <3>3. handler'[h] = r
      BY <1>1, <3>1
    <3>4. /\ handler'[h].message = "did_save" /\ handler'[h].at = "current_doc_version"
          /\ handler'[h].text = edits
      BY <2>1, <2>2, <3>2, <3>3
    <3> HIDE DEF r
    <3> QED  BY <1>3, <1>8, <2>2, <3>4 DEF ReadDisk, QuietOf, Current, Edits, Writers
  <2> QED  BY <2>3, <2>4
<1>9. CASE CurrentVersion(h)
  <2>1. handler[h].message = "did_save"
    BY <1>2, <1>3, <1>9 DEF CurrentVersion, PlaceOf, Writing, Analysing, Closing
  <2>2. open /\ disk = edits /\ Current /\ diagnostics = edits /\ handler[h].text = edits
    BY <1>2, <1>9, <2>1 DEF QuietOf, CurrentVersion
  <2>3. version_of(doc_versions) = edits
    BY <2>2, VersionOf DEF Current
  <2> DEFINE r == [handler[h] EXCEPT !.at = "set_document", !.version = version_of(doc_versions)]
  <2>4. handler' = [handler EXCEPT ![h] = r]
    BY <1>9 DEF CurrentVersion
  <2>5. /\ r.message = handler[h].message /\ r.at = "set_document" /\ r.text = handler[h].text
        /\ r.version = version_of(doc_versions)
    BY <1>1 DEF HandlerType
  <2>6. handler'[h] = r
    BY <1>1, <2>4
  <2>7. /\ handler'[h].message = "did_save" /\ handler'[h].at = "set_document"
        /\ handler'[h].text = edits /\ handler'[h].version = edits
    BY <2>1, <2>2, <2>3, <2>5, <2>6
  <2> HIDE DEF r
  <2> QED  BY <1>3, <1>9, <2>2, <2>7 DEF CurrentVersion, QuietOf, Current, Edits, Writers
<1>10. CASE Invalidate(h)
  BY <1>2, <1>3, <1>4, <1>10 DEF Invalidate, Places, PlaceOf, QuietOf, Edits, Saving, Writing, Analysing, Closing
<1>11. CASE KeepParse(h)
  BY <1>2, <1>3, <1>4, <1>11 DEF KeepParse, Places, PlaceOf, QuietOf, Edits, Saving, Writing, Analysing, Closing
<1>12. CASE Publish(h)
  <2>1. handler[h].message \in Edits \cup {"did_save"}
    BY <1>2, <1>3, <1>12 DEF Publish, PlaceOf, Closing
  <2>2. open /\ Current /\ handler[h].text = edits
    BY <1>2, <1>12, <2>1 DEF Publish, QuietOf, Analysing
  <2>3. Resting'
    BY <1>3, <1>12, <2>2 DEF Publish, Resting, Current
  <2> QED  BY <1>5, <1>12, <2>3 DEF Publish
<1>13. CASE Forget(h)
  <2>1. handler[h].message = "did_close" /\ ~open
    BY <1>2, <1>3, <1>13 DEF Forget, PlaceOf, Edits, Saving, Writing, Analysing
  <2>2. CASE At(h, "close_publish")
    <3>1. documents = {} /\ doc_versions = {}
      BY <1>2, <2>1, <2>2 DEF QuietOf
    <3>2. Resting' /\ End(h)
      BY <1>3, <1>13, <2>1, <2>2, <3>1 DEF Forget, Resting
    <3> QED  BY <1>5, <3>2
  <2>3. CASE ~At(h, "close_publish")
    <3>1. PICK place \in Closing \ {"close"} :
             /\ Goto(h, place) /\ documents' = {}
             /\ place # "close_versions" => doc_versions' = {}
      BY <1>2, <1>13, <2>1, <2>3 DEF Forget, QuietOf, Closing
    <3>2. handler'[h].at = place /\ handler'[h].message = "did_close"
      BY <1>1, <2>1, <3>1, GotoMoves DEF Places
    <3> QED  BY <2>1, <3>1, <3>2 DEF QuietOf, Edits, Writers
  <2> QED  BY <2>2, <2>3
<1>14. CASE LockSnapshot(h) \/ Snapshot(h) \/ LookUpKept(h) \/ LookUpParse(h) \/ Keep(h)
  BY <1>2, <1>3, <1>14 DEF LockSnapshot, Snapshot, LookUpKept, LookUpParse, Keep, PlaceOf, Edits, Saving, Writing,
                           Analysing, Closing
<1> QED
  BY <1>6, <1>7, <1>8, <1>9, <1>10, <1>11, <1>12, <1>13, <1>14 DEF Proceed

\* The handler of a request changes nothing of the document.
LEMMA RequestKeeps ==
    ASSUME TypeOK, Ordered, NEW h \in Handlers, Proceed(h), handler[h].message \in Requests
    PROVE  UNCHANGED <<documents, doc_versions, diagnostics>>
<1>1. handler[h].at \in Asking
  BY DEF Ordered, PlaceOf, Requests
<1> QED
  BY <1>1 DEF Proceed, LockDocument, SetDocument, LockSnapshot, Snapshot, ReadDisk, CurrentVersion, Invalidate, KeepParse,
       Publish, Forget, LookUpKept, Keep, LookUpParse, At, Asking, analysis

LEMMA NextQuiet ==
    ASSUME ServerAssumption, TypeOK, Ordered, Quiet, [Next]_vars
    PROVE  Quiet'
<1> USE DEF editor, analysis
<1>1. /\ handler \in [Handlers -> HandlerType] /\ Idle.message = "none" /\ edits \in Nat
      /\ "none" \notin Writers
  BY TypeIs, Constants DEF Idle, StateType, Writers, Edits
<1>2. ASSUME NEW h \in Handlers, Proceed(h) PROVE Quiet'
  <2>1. Moved(h) /\ handler[h] # Idle /\ UNCHANGED <<editor, overtaken>>
    BY <1>2, ProceedMoves DEF Ordered
  <2>2. CASE handler[h].message \in Writers
    <3>1. SUFFICES ASSUME overtaken = {} PROVE Quiet'
      BY <2>1 DEF Quiet
    <3>2. QuietOf(handler[h])' /\ (handler'[h].message \notin Writers => Resting')
      BY <1>2, <2>2, <3>1, WriterQuiet
    <3>3. \A g \in Handlers : g # h => handler'[g].message \notin Writers
      BY <2>1, <2>2, <3>1 DEF Moved, Quiet
    <3>4. \A g \in Handlers : QuietOf(handler[g])'
      BY <3>2, <3>3 DEF QuietOf, Writers
    <3>5. ~Busy(Writers)' => Resting'
      BY <3>2 DEF Busy
    <3> QED  BY <3>3, <3>4, <3>5 DEF Quiet
  <2>3. CASE handler[h].message \notin Writers
    <3>1. handler[h].message \in Requests
      <4>1. handler[h] \in HandlerType /\ PlaceOf(handler[h])
        BY <1>1 DEF Ordered
      <4> QED  BY <2>1, <2>3, <4>1 DEF HandlerType, PlaceOf, Writers
    <3>2. UNCHANGED <<documents, doc_versions, diagnostics>>
      BY <1>2, <3>1, RequestKeeps
    <3>3. \A g \in Handlers : handler'[g].message \in Writers => handler'[g] = handler[g] /\ g # h
      BY <1>1, <2>1, <2>3 DEF Moved
    <3>4. \A g \in Handlers : handler[g].message \in Writers => handler'[g] = handler[g]
      BY <1>1, <2>1, <2>3 DEF Moved
    <3>5. ASSUME overtaken = {}, NEW g \in Handlers PROVE QuietOf(handler[g])'
      <4>1. QuietOf(handler[g])
        BY <3>5 DEF Quiet
      <4>2. CASE handler'[g].message \in Writers
        BY <2>1, <3>2, <3>3, <4>1, <4>2 DEF QuietOf, Current
      <4>3. CASE handler'[g].message \notin Writers
        BY <4>3 DEF QuietOf, Writers
      <4> QED  BY <4>2, <4>3
    <3>6. Busy(Writers) <=> Busy(Writers)'
      BY <3>3, <3>4 DEF Busy
    <3>7. Resting' <=> Resting
      BY <2>1, <3>2 DEF Resting, Current
    <3> QED  BY <2>1, <3>3, <3>5, <3>6, <3>7 DEF Quiet
  <2> QED  BY <2>2, <2>3
<1>3. ASSUME NEW h \in Handlers, Receive(h) PROVE Quiet'
  <2>1. /\ handler[h] = Idle /\ \A g \in Handlers : g # h => handler'[g] = handler[g]
        /\ UNCHANGED <<documents, doc_versions, diagnostics>>
    BY <1>3, ReceiveMoves
  <2>2. ASSUME ~Busy(Writers), Resting, QuietOf(handler[h])', handler'[h].message \in Writers
        PROVE  Quiet'
    <3>1. \A g \in Handlers : g # h => handler'[g].message \notin Writers
      BY <2>1, <2>2 DEF Busy
    <3>2. \A g \in Handlers : QuietOf(handler[g])'
      BY <2>2, <3>1 DEF QuietOf, Writers
    <3>3. Busy(Writers)'
      BY <2>2 DEF Busy
    <3> QED  BY <3>1, <3>2, <3>3 DEF Quiet
  <2>3. ASSUME overtaken' = {}, NEW message \in Writers, Overtakes(message), open \/ edits = 0
        PROVE  overtaken = {} /\ ~Busy(Writers) /\ Resting
    <3>1. overtaken = {} /\ ~Busy(Edits) /\ ~Busy({"did_save"})
      BY <2>3 DEF Overtakes, Writers, Edits, Requests, Kept
    <3>2. ~Busy({"did_close"})
      BY <1>1, <2>3 DEF Busy, Ordered
    <3>3. ~Busy(Writers)
      BY <3>1, <3>2 DEF Busy, Writers
    <3> QED  BY <3>1, <3>3 DEF Quiet
  <2>4. SUFFICES ASSUME overtaken' = {} PROVE Quiet'
    BY DEF Quiet
  <2>5. CASE Edit(h)
    <3> DEFINE message == IF edits = 0 THEN "did_open" ELSE "did_change"
    <3>1. /\ Take(h, message, "set_document", edits + 1, edits + 1) /\ Overtakes(message)
          /\ (edits = 0 \/ open) /\ edits' = edits + 1 /\ open' = TRUE
      BY <2>5 DEF Edit
    <3>2. message \in Edits /\ message \in Writers
      BY DEF Edits, Writers
    <3> HIDE DEF message
    <3>3. handler'[h] = [message |-> message, at |-> "set_document", text |-> edits + 1, version |-> edits + 1]
      BY <1>1, <3>1 DEF Take
    <3>4. ~Busy(Writers) /\ Resting
      BY <2>3, <2>4, <3>1, <3>2
    <3>5. QuietOf(handler[h])'
      BY <3>1, <3>2, <3>3 DEF QuietOf, Edits, Analysing
    <3> QED  BY <2>2, <3>2, <3>3, <3>4, <3>5
  <2>6. CASE Save(h)
    <3>1. /\ Take(h, "did_save", "read_disk", 0, 0) /\ Overtakes("did_save") /\ open
          /\ disk' = edits /\ UNCHANGED <<open, edits>>
      BY <2>6 DEF Save
    <3>2. handler'[h] = [message |-> "did_save", at |-> "read_disk", text |-> 0, version |-> 0]
      BY <1>1, <3>1 DEF Take
    <3>3. "did_save" \in Writers
      BY DEF Writers
    <3>4. ~Busy(Writers) /\ Resting
      BY <2>3, <2>4, <3>1, <3>3
    <3>5. QuietOf(handler[h])'
      BY <2>1, <3>1, <3>2, <3>4 DEF QuietOf, Edits, Resting, Current
    <3> QED  BY <2>2, <3>2, <3>3, <3>4, <3>5
  <2>7. CASE Close(h)
    <3>1. /\ Take(h, "did_close", "close", 0, 0) /\ Overtakes("did_close") /\ open
      BY <2>7 DEF Close
    <3>2. handler'[h] = [message |-> "did_close", at |-> "close", text |-> 0, version |-> 0]
      BY <1>1, <3>1 DEF Take
    <3>3. "did_close" \in Writers
      BY DEF Writers
    <3>4. ~Busy(Writers) /\ Resting
      BY <2>3, <2>4, <3>1, <3>3
    <3>5. QuietOf(handler[h])'
      BY <3>2 DEF QuietOf, Edits
    <3> QED  BY <2>2, <3>2, <3>3, <3>4, <3>5
  <2>8. CASE Ask(h)
    <3>1. PICK message \in Requests : Take(h, message, "snapshot", 0, 0)
      BY <2>8 DEF Ask
    <3>2. handler'[h] = [message |-> message, at |-> "snapshot", text |-> 0, version |-> 0]
      BY <1>1, <3>1 DEF Take
    <3>3. handler'[h].message \notin Writers /\ handler[h].message \notin Writers
      BY <1>1, <2>1, <3>2 DEF Requests, Kept, Writers, Edits
    <3>4. UNCHANGED <<open, edits, disk, overtaken>>
      BY <2>8 DEF Ask
    <3>5. ASSUME NEW g \in Handlers PROVE QuietOf(handler[g])'
      <4>1. QuietOf(handler[g])
        BY <2>4, <3>4 DEF Quiet
      <4>2. CASE handler'[g].message \in Writers
        BY <2>1, <3>3, <3>4, <4>1, <4>2 DEF QuietOf, Current
      <4>3. CASE handler'[g].message \notin Writers
        BY <4>3 DEF QuietOf, Writers
      <4> QED  BY <4>2, <4>3
    <3>6. Busy(Writers) <=> Busy(Writers)'
      BY <2>1, <3>3 DEF Busy
    <3>7. Resting' <=> Resting
      BY <2>1, <3>4 DEF Resting, Current
    <3>8. \A f, g \in Handlers : handler'[f].message \in Writers /\ handler'[g].message \in Writers => f = g
      BY <2>1, <2>4, <3>3, <3>4 DEF Quiet
    <3> QED  BY <2>4, <3>4, <3>5, <3>6, <3>7, <3>8 DEF Quiet
  <2> QED  BY <1>3, <2>5, <2>6, <2>7, <2>8 DEF Receive
<1>4. CASE UNCHANGED vars
  <2>1. \A r : QuietOf(r)' <=> QuietOf(r)
    BY <1>4 DEF vars, QuietOf, Current
  <2> QED  BY <1>4, <2>1 DEF vars, Quiet, Resting, Current, Busy, QuietOf
<1> QED  BY <1>2, <1>3, <1>4 DEF Next

-----------------------------------------------------------------------------
(* Nothing under the version of another text                               *)

InOrder == "save" \notin overtaken /\ (saves = 0 \/ "edit" \notin overtaken)

\* The document, the tokens and the hints, and what a request has in hand.
Versioned ==
    InOrder =>
        /\ documents # {} /\ doc_versions # {} => doc_versions = documents
        /\ \A k \in Kept : \A entry \in caches[k] : entry.version \in {-1, entry.text}
        /\ \A h \in Handlers : handler[h].at \in {"look_up", "keep"} => handler[h].version \in {-1, handler[h].text}

LEMMA NextVersioned ==
    ASSUME ServerAssumption, TypeOK, Ordered, Quiet, Versioned, [Next]_vars
    PROVE  Versioned'
<1> USE DEF editor, analysis, At
<1>1. /\ handler \in [Handlers -> HandlerType] /\ StateType /\ Idle.at = "idle" /\ saves \in Nat
  BY TypeIs DEF Idle, StateType, ServerAssumption
<1>2. CASE UNCHANGED vars
  BY <1>2 DEF vars, Versioned, InOrder
<1>3. ASSUME NEW h \in Handlers, Receive(h) PROVE Versioned'
  <2>1. /\ \A g \in Handlers : g # h => handler'[g] = handler[g]
        /\ handler'[h].at \notin {"look_up", "keep"}
        /\ UNCHANGED <<documents, doc_versions, analysis>>
    BY <1>3, ReceiveMoves
  <2>2. InOrder' => InOrder
    BY <1>1, <1>3 DEF Receive, Edit, Save, Close, Ask, Overtakes, InOrder
  <2> QED  BY <2>1, <2>2 DEF Versioned
<1>4. ASSUME NEW h \in Handlers, Proceed(h) PROVE Versioned'
  <2>1. Moved(h) /\ UNCHANGED <<editor, overtaken>> /\ InOrder' = InOrder
    BY <1>4, ProceedMoves DEF Ordered, InOrder
  <2>2. SUFFICES ASSUME InOrder PROVE Versioned'
    BY <2>1 DEF Versioned
  <2>3. PlaceOf(handler[h]) /\ handler[h] \in HandlerType
    BY <1>1 DEF Ordered
  \* A step that leaves the handler with nothing in hand.
  <2>4. ASSUME documents' # {} /\ doc_versions' # {} => doc_versions' = documents',
               \A k \in Kept : \A entry \in caches'[k] : entry.version \in {-1, entry.text},
               handler'[h].at \in {"look_up", "keep"} => handler'[h].version \in {-1, handler'[h].text}
        PROVE  Versioned'
    BY <2>1, <2>2, <2>4 DEF Versioned, Moved
  <2>5. CASE SetDocument(h)
    <3>1. handler[h].version = handler[h].text
      <4>1. handler[h].message \in Edits \cup {"did_save"}
        BY <1>4, <2>3, <2>5, ProceedMoves
           DEF SetDocument, PlaceOf, HandlerType, Closing, Asking, Ordered, Idle, Requests
      <4>2. CASE handler[h].message \in Edits
        BY <2>3, <4>2 DEF PlaceOf
      <4>3. CASE handler[h].message = "did_save"
        <5>1. overtaken = {}
          BY <1>1, <2>2, <4>3 DEF InOrder, Ordered, StateType
        <5> QED  BY <2>5, <4>3, <5>1 DEF Quiet, QuietOf, SetDocument
      <4> QED  BY <4>1, <4>2, <4>3
    <3>2. doc_versions' = documents' /\ caches' = caches /\ Goto(h, "invalidate_docs")
      BY <2>5, <3>1 DEF SetDocument, stored_version
    <3>3. handler'[h].at = "invalidate_docs"
      BY <1>1, <3>2, GotoMoves DEF Places, Saving, Writing, Analysing
    <3> QED  BY <2>2, <2>4, <3>2, <3>3 DEF Versioned
  <2>6. CASE Snapshot(h)
    <3>1. UNCHANGED <<documents, doc_versions, caches>>
      BY <2>6 DEF Snapshot
    <3>2. CASE End(h)
      <4>1. handler'[h].at = "idle"
        BY <1>1, <3>2, EndMoves
      <4> QED  BY <2>2, <2>4, <3>1, <4>1 DEF Versioned
    <3>3. CASE ~End(h)
      <4> DEFINE r(text) == [handler[h] EXCEPT !.at = "look_up", !.text = text,
                                               !.version = version_of(doc_versions)]
      <4>1. PICK text \in documents : handler' = [handler EXCEPT ![h] = r(text)]
        BY <2>6, <3>3 DEF Snapshot
      <4>2. r(text).text = text /\ r(text).version = version_of(doc_versions)
        BY <2>3 DEF HandlerType
      <4>3. handler'[h] = r(text)
        BY <1>1, <4>1
      <4>4. documents = {text}
        BY <4>1 DEF Ordered
      <4>5. version_of(doc_versions) \in {-1, text}
        BY <2>2, <4>4, VersionOf DEF Versioned
      <4>6. handler'[h].version \in {-1, handler'[h].text}
        <5> HIDE DEF r
        <5> QED  BY <4>2, <4>3, <4>5
      <4> QED  BY <2>2, <2>4, <3>1, <4>6 DEF Versioned
    <3> QED  BY <3>2, <3>3
  <2>7. CASE ReadDisk(h) \/ CurrentVersion(h)
    <3>1. UNCHANGED <<documents, doc_versions, caches>>
      BY <2>7 DEF ReadDisk, CurrentVersion
    <3>2. handler[h].message = "did_save"
      BY <1>4, <2>3, <2>7, ProceedMoves
         DEF ReadDisk, CurrentVersion, PlaceOf, HandlerType, Writing, Analysing, Closing, Asking, Ordered, Requests
    <3>3. handler'[h].at \notin {"look_up", "keep"}
      BY <1>1, <2>1, <3>2 DEF Moved, PlaceOf, Saving, Writing, Analysing
    <3> QED  BY <2>2, <2>4, <3>1, <3>3 DEF Versioned
  <2>8. CASE Forget(h)
    <3>1. documents' \in {documents, {}} /\ doc_versions' \in {doc_versions, {}}
      BY <2>8 DEF Forget
    <3>2. documents' # {} /\ doc_versions' # {} => doc_versions' = documents'
      BY <2>2, <3>1 DEF Versioned
    <3>3. \A k \in Kept : caches'[k] \in {caches[k], {}}
      BY <1>1, <2>8 DEF Forget, StateType
    <3>4. \A k \in Kept : \A entry \in caches'[k] : entry.version \in {-1, entry.text}
      BY <2>2, <3>3 DEF Versioned
    <3>5. handler[h].message = "did_close"
      BY <1>4, <2>3, <2>8, ProceedMoves
         DEF Forget, PlaceOf, HandlerType, Saving, Writing, Analysing, Asking, Ordered, Requests
    <3>6. handler'[h].at \notin {"look_up", "keep"}
      BY <1>1, <2>1, <3>5 DEF Moved, PlaceOf, Closing
    <3> QED  BY <2>4, <3>2, <3>4, <3>6
  <2>9. CASE Keep(h)
    <3>1. handler[h].version \in {-1, handler[h].text} /\ handler'[h].at = "idle"
      BY <1>1, <2>2, <2>9, EndMoves DEF Keep, Versioned
    <3>2. caches' = [caches EXCEPT ![handler[h].message] =
                       {[version |-> handler[h].version, text |-> handler[h].text]}]
          /\ UNCHANGED <<documents, doc_versions>>
      BY <2>9 DEF Keep, kept_version
    <3>3. \A k \in Kept : \/ caches'[k] = caches[k]
                          \/ caches'[k] = {[version |-> handler[h].version, text |-> handler[h].text]}
      BY <1>1, <3>2 DEF StateType
    <3>4. \A k \in Kept : \A entry \in caches'[k] : entry.version \in {-1, entry.text}
      BY <2>2, <3>1, <3>3 DEF Versioned
    <3> QED  BY <2>2, <2>4, <3>1, <3>2, <3>4 DEF Versioned
  <2>10. CASE Invalidate(h)
    <3>1. UNCHANGED <<documents, doc_versions>> /\ \A k \in Kept : caches'[k] \in {caches[k], {}}
      BY <1>1, <2>10 DEF Invalidate, StateType
    <3>2. \A k \in Kept : \A entry \in caches'[k] : entry.version \in {-1, entry.text}
      BY <2>2, <3>1 DEF Versioned
    <3>3. PICK place \in Places \ {"look_up", "keep"} : Goto(h, place)
      BY <2>10 DEF Invalidate, Places, Saving, Writing, Analysing
    <3>4. handler'[h].at \notin {"look_up", "keep"}
      BY <1>1, <3>3, GotoMoves
    <3> QED  BY <2>2, <2>4, <3>1, <3>2, <3>4 DEF Versioned
  <2>11. CASE LookUpKept(h)
    <3>1. UNCHANGED <<documents, doc_versions, caches>> /\ handler[h].version \in {-1, handler[h].text}
      BY <2>2, <2>11 DEF LookUpKept, Versioned
    <3>2. CASE End(h)
      BY <1>1, <2>2, <2>4, <3>1, <3>2, EndMoves DEF Versioned
    <3>3. CASE Goto(h, "keep")
      <4>1. handler'[h].text = handler[h].text /\ handler'[h].version = handler[h].version
        BY <1>1, <3>3, GotoMoves DEF Places, Asking
      <4> QED  BY <2>2, <2>4, <3>1, <4>1 DEF Versioned
    <3> QED  BY <2>11, <3>2, <3>3 DEF LookUpKept
  <2>12. CASE LockDocument(h) \/ LockSnapshot(h) \/ KeepParse(h) \/ Publish(h) \/ LookUpParse(h)
    <3>1. UNCHANGED <<documents, doc_versions, caches>>
      BY <2>12 DEF LockDocument, LockSnapshot, KeepParse, Publish, LookUpParse
    <3>2. CASE End(h)
      BY <1>1, <2>2, <2>4, <3>1, <3>2, EndMoves DEF Versioned
    <3>3. CASE ~End(h)
      <4>1. PICK place \in Places \ {"look_up", "keep"} : Goto(h, place)
        BY <2>12, <3>3 DEF LockDocument, LockSnapshot, KeepParse, Publish, LookUpParse, Places, Saving, Writing,
                           Analysing, Asking
      <4>2. handler'[h].at \notin {"look_up", "keep"}
        BY <1>1, <4>1, GotoMoves
      <4> QED  BY <2>2, <2>4, <3>1, <4>2 DEF Versioned
    <3> QED  BY <3>2, <3>3
  <2> QED
    BY <1>4, <2>5, <2>6, <2>7, <2>8, <2>9, <2>10, <2>11, <2>12 DEF Proceed
<1> QED  BY <1>2, <1>3, <1>4 DEF Next

LEMMA InitServer == ASSUME ServerAssumption, Init PROVE Ordered /\ Quiet /\ Versioned
<1>1. \A h \in Handlers : handler[h] = Idle
  BY DEF Init
<1>2. /\ documents = {} /\ doc_versions = {} /\ diagnostics = 0 /\ open = FALSE /\ caches = [k \in Kept |-> {}]
  BY DEF Init
<1>3. Idle.message = "none" /\ Idle.at = "idle"
  BY DEF Idle
<1>4. Ordered
  BY <1>1, <1>2, <1>3 DEF Ordered, PlaceOf, Edits, Kept
<1>5. Quiet
  BY <1>1, <1>2, <1>3 DEF Quiet, QuietOf, Resting, Writers, Edits
<1>6. Versioned
  BY <1>1, <1>2, <1>3 DEF Versioned
<1> QED  BY <1>4, <1>5, <1>6

-----------------------------------------------------------------------------
(* The theorems                                                            *)

ServerInv == TypeOK /\ Ordered /\ Quiet /\ Versioned

\* The invariant holds in every state of every run.
THEOREM ServerInvariant == Spec => []ServerInv
<1>1. Init => ServerInv
  BY ServerAssumption, InitTypeOK, InitServer DEF ServerInv
<1>2. ServerInv /\ [Next]_vars => ServerInv'
  BY ServerAssumption, NextTypeOK, NextOrdered, NextQuiet, NextVersioned DEF ServerInv
<1> QED  BY <1>1, <1>2, PTL DEF Spec

\* Every variable of the server keeps to its type, and no handler holds the document's
\* lock for writing while another holds it.
THEOREM ServerTypeOK == Spec => []TypeOK
<1>1. ServerInv => TypeOK
  BY DEF ServerInv
<1> QED  BY ServerInvariant, <1>1, PTL

\* However many messages are under way, neither the document nor its tokens and hints
\* are kept under the version of another text, as long as no edit meets a save or, when
\* one follows, another edit.
THEOREM ServerKeepsVersions == Spec => []KeptOfItsVersion
<1>1. ServerInv => KeptOfItsVersion
  BY DEF ServerInv, Versioned, InOrder, KeptOfItsVersion
<1> QED  BY ServerInvariant, <1>1, PTL

\* When every message has been handled and none overtook an edit or a save, the server
\* has the editor's text under its version and shows its diagnostics.
THEOREM ServerSettles == Spec => []SettlesOnTheLastEdit
<1>1. ServerInv => SettlesOnTheLastEdit
  <2>1. SUFFICES ASSUME ServerInv, handler = [h \in Handlers |-> Idle], overtaken = {}
                 PROVE  Resting
    BY DEF SettlesOnTheLastEdit, Resting, Current
  <2>2. ~Busy(Writers)
    BY <2>1 DEF Busy, Idle, Writers, Edits
  <2> QED  BY <2>1, <2>2 DEF ServerInv, Quiet
<1> QED  BY ServerInvariant, <1>1, PTL

=============================================================================
