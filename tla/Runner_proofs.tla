---------------------------- MODULE Runner_proofs ----------------------------
(***************************************************************************)
(* Proofs about Runner, for every set of documents and settings and every  *)
(* size of the request channel.                                            *)
(*                                                                         *)
(*   TypeCorrect            every variable keeps to its type, and the      *)
(*                          request channel to its buffer                  *)
(*   EveryCheckHeldCorrect  a clean pass has settled every expectation it  *)
(*                          came to, and each held                         *)
(*   RequestsOpenCorrect    a REQUEST never finds the request stream closed*)
(*   FailFastCorrect        after a read timed out no section reads again  *)
(*   SnapshotCompleteCorrect  the captured answer is what the server sent  *)
(*   NoSilentPassCorrect    a clean pass has checked all the sections state*)
(*   VerdictFollowsStreamCorrect  with RESPONSE sections alone the verdict  *)
(*                          is that of comparing them with the stream      *)
(*                                                                         *)
(* TypeOK is not inductive alone: that a step which looks at the section i *)
(* finds one, that a RESPONSE is read as one, that the first send finds    *)
(* the channel empty and that a failed gRPC call has a status is InSection. *)
(* EveryCheckHeld speaks of the end of a run; Ledger says what it rests on *)
(* at every step, SnapshotInv what SnapshotComplete rests on and ReachedInv *)
(* what NoSilentPass does.  OrderInv places a run of RESPONSE sections in  *)
(* the concatenation of what they expect, CauseInv says why it fails.      *)
(* Reached(k) and ExpectationsUpTo(doc) are recursive functions on the     *)
(* sections: that they are the sum and the concatenation they are meant to *)
(* be is SumExists and ConcatenationExists, by SetInduction.               *)
(***************************************************************************)
EXTENDS RunnerProperties, SequenceTheorems, WellFoundedInduction, TLAPS

\* What a position of run_one says of the section and the call it is at.
InSection ==
    /\ pc \in {"exec", "await", "ready", "read", "drain", "attach"} => i \in DOMAIN doc
    /\ pc \in {"read", "drain", "attach"} => Section.type = "RESPONSE"
    /\ pc = "start" => chan = <<>>
    /\ call = "err" /\ ~settings.http => status \in Codes

TypeInv == TypeOK /\ InSection

\* Initially: run_one starts with an empty channel and no stream.
LEMMA TypeInit == Init => TypeInv
<1> SUFFICES ASSUME Init PROVE TypeInv
  OBVIOUS
<1>1. RunnerTypeOK
  BY DEF Init, RunnerTypeOK, Labels
<1>2. ChannelTypeOK
  BY BufferAssumption DEF Init, ChannelTypeOK
<1>3. CallTypeOK
  BY DEF Init, CallTypeOK
<1>4. ServerTypeOK
  BY EmptySeq DEF Init, ServerTypeOK
<1>5. VerdictTypeOK
  <2>1. <<>> \in Seq(Payloads)
    BY EmptySeq
  <2>2. last_error \in [kind : {"none", "json", "text"}, val : Codes \cup {NoStatus, Nothing}]
    BY DEF Init, NoError
  <2>3. captured \in [messages : Seq(Payloads), error : BOOLEAN]
    BY <2>1 DEF Init
  <2> QED
    BY <2>1, <2>2, <2>3 DEF Init, VerdictTypeOK
<1>6. due \in Nat /\ met \in Nat /\ InSection
  BY DEF Init, InSection
<1> QED
  BY <1>1, <1>2, <1>3, <1>4, <1>5, <1>6 DEF TypeInv, TypeOK

\* A message wrapped as the one captured element of a step.
LEMMA SingletonSeq ==
    ASSUME NEW S, NEW e \in S
    PROVE  <<e>> \in Seq(S) /\ Len(<<e>>) = 1
  OBVIOUS

\* A conditional count is a count.
LEMMA HeldType ==
    ASSUME NEW p, NEW n \in Nat
    PROVE  Held(p, n) \in Nat
  BY DEF Held

\* A section of a document the runner was given is well formed.
LEMMA SectionType ==
    ASSUME TypeOK, i \in DOMAIN doc
    PROVE  /\ Section \in Sections(Payloads, Payloads \cup Codes, Names)
           /\ Section.type \in {"REQUEST", "RESPONSE"} => Section.want \in Seq(Payloads)
           /\ Section.want \in Seq(Payloads \cup Codes)
           /\ Section.defs \subseteq Names
<1>1. doc \in Seq(Sections(Payloads, Payloads \cup Codes, Names))
  BY DocsAssumption DEF TypeOK, RunnerTypeOK
<1>2. Section \in Sections(Payloads, Payloads \cup Codes, Names)
  BY <1>1, LenProperties, ElementOfSeq DEF Section
<1> QED
  BY <1>2 DEF Sections

\* Breaking out of the repeat loop leaves the position of the runner well formed.
LEMMA NextSectionType ==
    ASSUME TypeInv, NextSection
    PROVE  /\ pc' = "section" /\ i' \in Nat \ {0} /\ iter' \in Nat \ {0}
           /\ attempt' \in Nat /\ todo' \in Seq(Payloads) /\ got' \in Seq(Payloads)
  BY DEF TypeInv, TypeOK, RunnerTypeOK, NextSection

\* So does the end of an iteration, which stays at the section or leaves it.
LEMMA NextIterationType ==
    ASSUME TypeInv, NextIteration, i \in DOMAIN doc
    PROVE  /\ pc' \in {"section", "exec"} /\ i' \in Nat \ {0} /\ iter' \in Nat \ {0}
           /\ attempt' \in Nat /\ todo' \in Seq(Payloads) /\ got' \in Seq(Payloads)
           /\ pc' = "exec" => i' = i
<1>1. CASE iter < get_repeat(doc, i)
  <2>1. todo' \in Seq(Payloads) /\ got' \in Seq(Payloads)
    BY <1>1, SectionType, EmptySeq DEF TypeInv, NextIteration
  <2>2. pc' = "exec" /\ i' = i /\ iter' = iter + 1 /\ attempt' = 0
    BY <1>1 DEF NextIteration
  <2> QED
    BY <2>1, <2>2 DEF TypeInv, TypeOK, RunnerTypeOK
<1>2. CASE ~(iter < get_repeat(doc, i))
  BY <1>2, NextSectionType DEF NextIteration
<1> QED
  BY <1>1, <1>2

\* Reading an item leaves the response stream well formed.
LEMMA ConsumeType ==
    ASSUME TypeInv, Consume, wire # <<>>
    PROVE  ServerTypeOK'
  BY HeadTailProperties DEF TypeInv, TypeOK, ServerTypeOK, Consume

\* The item a reader takes off the stream is a message, trailers or a status.
LEMMA ItemType ==
    ASSUME TypeInv, wire # <<>>
    PROVE  /\ Head(wire) \in Item
           /\ Head(wire).kind = "msg" => Head(wire).val \in Payloads
           /\ Head(wire).kind = "err" => Head(wire).val \in Codes
<1>1. Head(wire) \in Item
  BY HeadTailProperties DEF TypeInv, TypeOK, ServerTypeOK
<1> QED
  BY <1>1 DEF Item

\* captured_response stays a list of messages and an error flag.
LEMMA CaptureType ==
    ASSUME TypeInv, NEW msg \in Seq(Payloads), NEW err \in BOOLEAN, Capture(msg, err)
    PROVE  captured' \in [messages : Seq(Payloads), error : BOOLEAN]
<1>1. captured \in [messages : Seq(Payloads), error : BOOLEAN]
  BY DEF TypeInv, TypeOK, VerdictTypeOK
<1>2. captured.messages \o msg \in Seq(Payloads)
  BY <1>1, ConcatProperties
<1> QED
  BY <1>1, <1>2 DEF Capture

\* Whether a section has an attached ASSERTS is a yes or a no.
LEMMA AttachesType ==
    ASSUME TypeInv, i \in DOMAIN doc
    PROVE  Attaches(doc, i) \in BOOLEAN
  BY DocsAssumption, LenProperties, ElementOfSeq DEF TypeInv, TypeOK, RunnerTypeOK, Attaches, Sections

\* Reaching and settling expectations keeps the ledger made of counts.
LEMMA LedgerType ==
    ASSUME TypeInv, NEW n \in Nat
    PROVE  (Owe(n) => due' \in Nat) /\ (Settle(n) => met' \in Nat)
<1>1. due \in Nat /\ met \in Nat /\ Held(Judging, n) \in Nat
  BY HeldType DEF TypeInv, TypeOK
<1> QED
  BY <1>1 DEF Owe, Settle

\* Judging expectations at once does too: run_assertions.
LEMMA JudgeType ==
    ASSUME TypeInv, NEW n \in Nat, NEW holds, NEW reason, Judge(n, holds, reason)
    PROVE  due' \in Nat /\ met' \in Nat
<1>1. Owe(n) /\ Settle(Held(holds, n))
  BY DEF Judge
<1> QED
  BY <1>1, HeldType, LedgerType

\* And judging an error: the ERROR section with its attached ASSERTS.
LEMMA JudgeErrorType ==
    ASSUME TypeInv, i \in DOMAIN doc, NEW matches \in BOOLEAN, NEW accepted \in BOOLEAN,
           NEW target \in BOOLEAN, JudgeError(matches, accepted, target)
    PROVE  due' \in Nat /\ met' \in Nat /\ skip_next_section' \in BOOLEAN
<1> DEFINE n == Len(Section.want) + Held(Attaches(doc, i), 1)
           m == Held(matches, Len(Section.want)) + Held(Attaches(doc, i) /\ target /\ accepted, 1)
<1>1. Len(Section.want) \in Nat /\ Attaches(doc, i) \in BOOLEAN
  BY SectionType, LenProperties, AttachesType DEF TypeInv, TypeOK
<1>2. n \in Nat /\ m \in Nat
  BY <1>1, HeldType
<1>3. Owe(n) /\ Settle(m) /\ skip_next_section' = Attaches(doc, i)
  BY DEF JudgeError
<1> HIDE DEF n, m
<1> QED
  BY <1>1, <1>2, <1>3, LedgerType

\* Every step of the runner, the call and the server keeps the type invariant.
LEMMA TypeNext == TypeInv /\ [Next]_vars => TypeInv'
<1> SUFFICES ASSUME TypeInv, [Next]_vars PROVE TypeInv'
  OBVIOUS
<1> USE DEF TypeInv, TypeOK
<1>1. ASSUME Start PROVE TypeInv'
  <2>1. RunnerTypeOK' /\ InSection'
    BY <1>1, NextSectionType, NextIterationType, SectionType DEF RunnerTypeOK, InSection,
       Labels, Section, Start, channel, Failed, callVars, server, ledger
  <2>2. ChannelTypeOK' /\ CallTypeOK' /\ ServerTypeOK'
    <3>1. REQUEST_CHANNEL_BUFFER \in Nat /\ 1 <= REQUEST_CHANNEL_BUFFER
      BY BufferAssumption
    <3>2. pc = "start"
      BY <1>1 DEF Start
    <3>3. chan = <<>>
      BY <3>2 DEF InSection
    <3>4. chan' = <<>> \/ chan' = <<Nothing>>
      <4>1. CASE HasType(doc, "REQUEST")
        BY <1>1, <4>1, <3>3 DEF Start, channel
      <4>2. CASE ~HasType(doc, "REQUEST") /\ rx_open
        BY <1>1, <4>2, <3>3 DEF Start
      <4>3. CASE ~HasType(doc, "REQUEST") /\ ~rx_open
        BY <1>1, <4>3, <3>3 DEF Start
      <4> QED
        BY <4>1, <4>2, <4>3
    <3>5. chan' \in Seq(Payloads \cup {Nothing}) /\ Len(chan') <= REQUEST_CHANNEL_BUFFER
      <4>1. CASE chan' = <<>>
        BY <4>1, <3>1, EmptySeq
      <4>2. CASE chan' = <<Nothing>>
        BY <4>2, <3>1, SingletonSeq
      <4> QED
        BY <3>4, <4>1, <4>2
    <3>6. tx_open' \in BOOLEAN /\ rx_open' \in BOOLEAN /\ taken' \in Nat
      BY <1>1 DEF ChannelTypeOK, Start, channel
    <3> QED
      BY <1>1, <3>5, <3>6 DEF ChannelTypeOK, CallTypeOK, ServerTypeOK, Start, callVars, server
  <2>3. VerdictTypeOK' /\ (due \in Nat /\ met \in Nat)'
    BY <1>1 DEF RunnerTypeOK, VerdictTypeOK, Start, channel, Failed, callVars, server, ledger
  <2> QED
    BY <2>1, <2>2, <2>3
<1>2. ASSUME SkipSection PROVE TypeInv'
  <2>1. RunnerTypeOK' /\ InSection'
    BY <1>2, NextSectionType, NextIterationType, SectionType DEF RunnerTypeOK, InSection,
       Labels, Section, SkipSection, NextSection, channel, callVars, server, ledger
  <2>2. ChannelTypeOK' /\ CallTypeOK' /\ ServerTypeOK'
    BY <1>2, BufferAssumption DEF RunnerTypeOK, ChannelTypeOK, CallTypeOK, ServerTypeOK,
       SkipSection, NextSection, channel, callVars, server, ledger
  <2>3. VerdictTypeOK' /\ (due \in Nat /\ met \in Nat)'
    BY <1>2 DEF RunnerTypeOK, VerdictTypeOK, SkipSection, NextSection, channel, callVars,
       server, ledger
  <2> QED
    BY <2>1, <2>2, <2>3
<1>3. ASSUME EnterSection PROVE TypeInv'
  <2>1. RunnerTypeOK' /\ InSection'
    BY <1>3, NextSectionType, NextIterationType, SectionType DEF RunnerTypeOK, InSection,
       Labels, Section, EnterSection, channel, callVars, server, verdict, ledger
  <2>2. ChannelTypeOK' /\ CallTypeOK' /\ ServerTypeOK'
    BY <1>3, BufferAssumption DEF RunnerTypeOK, ChannelTypeOK, CallTypeOK, ServerTypeOK,
       EnterSection, channel, callVars, server, verdict, ledger
  <2>3. VerdictTypeOK' /\ (due \in Nat /\ met \in Nat)'
    BY <1>3 DEF RunnerTypeOK, VerdictTypeOK, EnterSection, channel, callVars, server,
       verdict, ledger
  <2> QED
    BY <2>1, <2>2, <2>3
<1>4. ASSUME UnresolvedRequest PROVE TypeInv'
  <2>1. RunnerTypeOK' /\ InSection'
    BY <1>4, NextSectionType, NextIterationType, SectionType DEF RunnerTypeOK, InSection,
       Labels, Section, UnresolvedRequest, Sending, Goto, callVars, server, ledger
  <2>2. ChannelTypeOK' /\ CallTypeOK' /\ ServerTypeOK'
    BY <1>4, BufferAssumption DEF RunnerTypeOK, ChannelTypeOK, CallTypeOK, ServerTypeOK,
       UnresolvedRequest, Sending, Goto, callVars, server, ledger
  <2>3. VerdictTypeOK' /\ (due \in Nat /\ met \in Nat)'
    BY <1>4 DEF RunnerTypeOK, VerdictTypeOK, UnresolvedRequest, Sending, Goto, callVars,
       server, ledger
  <2> QED
    BY <2>1, <2>2, <2>3
<1>5. ASSUME SendRequest PROVE TypeInv'
  <2>1. RunnerTypeOK' /\ InSection'
    BY <1>5, NextSectionType, NextIterationType, SectionType DEF RunnerTypeOK, InSection,
       Labels, Section, SendRequest, Sending, callVars, server, ledger
  <2>2. ChannelTypeOK' /\ CallTypeOK' /\ ServerTypeOK'
    BY <1>5, BufferAssumption DEF RunnerTypeOK, ChannelTypeOK, CallTypeOK, ServerTypeOK,
       SendRequest, Sending, callVars, server, ledger
  <2>3. VerdictTypeOK' /\ (due \in Nat /\ met \in Nat)'
    BY <1>5 DEF RunnerTypeOK, VerdictTypeOK, SendRequest, Sending, callVars, server, ledger
  <2> QED
    BY <2>1, <2>2, <2>3
<1>6. ASSUME SendFails PROVE TypeInv'
  <2>1. RunnerTypeOK' /\ InSection'
    <3>1. todo' \in Seq(Payloads)
      BY <1>6, HeadTailProperties DEF RunnerTypeOK, SendFails, Sending
    <3>2. attempt \in Nat
      BY DEF RunnerTypeOK
    <3>3. attempt' = attempt + 1 \/ attempt' = 0
      BY <1>6 DEF SendFails
    <3>4. attempt' \in Nat
      BY <3>2, <3>3
    <3> QED
      BY <1>6, <3>1, <3>4 DEF RunnerTypeOK, InSection, Section, SendFails, Sending, channel, callVars
  <2>2. ChannelTypeOK' /\ CallTypeOK' /\ ServerTypeOK'
    BY <1>6, BufferAssumption DEF RunnerTypeOK, ChannelTypeOK, CallTypeOK, ServerTypeOK,
       SendFails, Sending, Failed, channel, callVars, server, ledger
  <2>3. VerdictTypeOK' /\ (due \in Nat /\ met \in Nat)'
    BY <1>6 DEF RunnerTypeOK, VerdictTypeOK, SendFails, Sending, Failed, channel, callVars,
       server, ledger
  <2> QED
    BY <2>1, <2>2, <2>3
<1>7. ASSUME RequestSent PROVE TypeInv'
  <2>1. RunnerTypeOK' /\ InSection'
    BY <1>7, NextSectionType, NextIterationType, SectionType DEF RunnerTypeOK, InSection,
       Labels, Section, RequestSent, Sending, NextIteration, NextSection, channel, callVars,
       server, verdict, ledger
  <2>2. ChannelTypeOK' /\ CallTypeOK' /\ ServerTypeOK'
    BY <1>7, BufferAssumption DEF RunnerTypeOK, ChannelTypeOK, CallTypeOK, ServerTypeOK,
       RequestSent, Sending, NextIteration, NextSection, channel, callVars, server, verdict,
       ledger
  <2>3. VerdictTypeOK' /\ (due \in Nat /\ met \in Nat)'
    BY <1>7 DEF RunnerTypeOK, VerdictTypeOK, RequestSent, Sending, NextIteration,
       NextSection, channel, callVars, server, verdict, ledger
  <2> QED
    BY <2>1, <2>2, <2>3
<1>8. ASSUME DeferResponse PROVE TypeInv'
  <2>1. RunnerTypeOK' /\ InSection'
    BY <1>8, NextSectionType, NextIterationType, SectionType DEF RunnerTypeOK, InSection,
       Labels, Section, DeferResponse, Reading, Owe, Held, Judging, NextIteration, NextSection,
       channel, callVars, server
  <2>2. ChannelTypeOK' /\ CallTypeOK' /\ ServerTypeOK'
    BY <1>8, BufferAssumption DEF RunnerTypeOK, ChannelTypeOK, CallTypeOK, ServerTypeOK,
       DeferResponse, Reading, Owe, Held, Judging, NextIteration, NextSection, channel,
       callVars, server
  <2>3. VerdictTypeOK' /\ (due \in Nat /\ met \in Nat)'
    BY <1>8, ConcatProperties, LenProperties, SectionType DEF RunnerTypeOK, VerdictTypeOK,
       InSection, DeferResponse, Reading, Owe, Held, Judging, NextIteration, NextSection,
       channel, callVars, server
  <2> QED
    BY <2>1, <2>2, <2>3
<1>9. ASSUME EnterReader PROVE TypeInv'
  <2>1. RunnerTypeOK' /\ InSection'
    BY <1>9, NextSectionType, NextIterationType, SectionType DEF RunnerTypeOK, InSection,
       Labels, Section, EnterReader, Reading, CloseRequests, Goto, callVars, server, verdict,
       ledger
  <2>2. ChannelTypeOK' /\ CallTypeOK' /\ ServerTypeOK'
    BY <1>9, BufferAssumption DEF RunnerTypeOK, ChannelTypeOK, CallTypeOK, ServerTypeOK,
       EnterReader, Reading, CloseRequests, Goto, callVars, server, verdict, ledger
  <2>3. VerdictTypeOK' /\ (due \in Nat /\ met \in Nat)'
    BY <1>9 DEF RunnerTypeOK, VerdictTypeOK, EnterReader, Reading, CloseRequests, Goto,
       callVars, server, verdict, ledger
  <2> QED
    BY <2>1, <2>2, <2>3
<1>10. ASSUME StreamReady PROVE TypeInv'
  <2>1. RunnerTypeOK' /\ InSection'
    BY <1>10, NextSectionType, NextIterationType, SectionType DEF RunnerTypeOK, InSection,
       Labels, Section, StreamReady, Goto, channel, server, verdict, ledger
  <2>2. ChannelTypeOK' /\ CallTypeOK' /\ ServerTypeOK'
    BY <1>10, BufferAssumption DEF RunnerTypeOK, ChannelTypeOK, CallTypeOK, ServerTypeOK,
       StreamReady, Goto, channel, server, verdict, ledger
  <2>3. VerdictTypeOK' /\ (due \in Nat /\ met \in Nat)'
    BY <1>10 DEF RunnerTypeOK, VerdictTypeOK, StreamReady, Goto, channel, server, verdict,
       ledger
  <2> QED
    BY <2>1, <2>2, <2>3
<1>11. ASSUME StreamStartFails PROVE TypeInv'
  <2>1. RunnerTypeOK' /\ InSection'
    BY <1>11, NextSectionType, NextIterationType, SectionType DEF RunnerTypeOK, InSection,
       Labels, Section, StreamStartFails, Failed, NextSection, channel, server, ledger
  <2>2. ChannelTypeOK' /\ CallTypeOK' /\ ServerTypeOK'
    BY <1>11, BufferAssumption DEF RunnerTypeOK, ChannelTypeOK, CallTypeOK, ServerTypeOK,
       StreamStartFails, Failed, NextSection, channel, server, ledger
  <2>3. VerdictTypeOK' /\ (due \in Nat /\ met \in Nat)'
    BY <1>11 DEF RunnerTypeOK, VerdictTypeOK, StreamStartFails, Failed, NextSection, channel,
       server, ledger
  <2> QED
    BY <2>1, <2>2, <2>3
<1>12. ASSUME NoStream PROVE TypeInv'
  <2>1. RunnerTypeOK' /\ InSection'
    BY <1>12, NextSectionType, NextIterationType, SectionType DEF RunnerTypeOK, InSection,
       Labels, Section, NoStream, Failed, NextSection, channel, callVars, server, ledger
  <2>2. ChannelTypeOK' /\ CallTypeOK' /\ ServerTypeOK'
    BY <1>12, BufferAssumption DEF RunnerTypeOK, ChannelTypeOK, CallTypeOK, ServerTypeOK,
       NoStream, Failed, NextSection, channel, callVars, server, ledger
  <2>3. VerdictTypeOK' /\ (due \in Nat /\ met \in Nat)'
    BY <1>12, EmptySeq DEF RunnerTypeOK, VerdictTypeOK, NoStream, Failed, NextSection,
       channel, callVars, server, ledger
  <2> QED
    BY <2>1, <2>2, <2>3
<1>13. ASSUME StartResponse PROVE TypeInv'
  <2>1. RunnerTypeOK' /\ InSection'
    BY <1>13, NextSectionType, NextIterationType, SectionType, ConcatProperties DEF
       RunnerTypeOK, InSection, Labels, Section, VerdictTypeOK, StartResponse, Merge, Owe, Held,
       Judging, channel, callVars, server
  <2>2. ChannelTypeOK' /\ CallTypeOK' /\ ServerTypeOK'
    BY <1>13, BufferAssumption DEF RunnerTypeOK, ChannelTypeOK, CallTypeOK, ServerTypeOK,
       StartResponse, Merge, Owe, Held, Judging, channel, callVars, server
  <2>3. VerdictTypeOK' /\ (due \in Nat /\ met \in Nat)'
    BY <1>13 DEF RunnerTypeOK, VerdictTypeOK, StartResponse, Merge, Owe, Held, Judging,
       channel, callVars, server
  <2> QED
    BY <2>1, <2>2, <2>3
<1>14. ASSUME ResponseMessage PROVE TypeInv'
  <2>1. RunnerTypeOK' /\ InSection'
    BY <1>14, NextSectionType, NextIterationType, SectionType, HeadTailProperties, ItemType
       DEF RunnerTypeOK, InSection, Labels, Section, ResponseMessage, Expecting, Arrived,
       Capture, Settle, Held, Judging, Failed, Consume, channel, callVars
  <2>2. ChannelTypeOK' /\ CallTypeOK' /\ ServerTypeOK'
    BY <1>14, BufferAssumption DEF RunnerTypeOK, ChannelTypeOK, CallTypeOK, ServerTypeOK,
       ResponseMessage, Expecting, Arrived, Capture, Settle, Held, Judging, Failed, Consume,
       channel, callVars
  <2>3. VerdictTypeOK' /\ (due \in Nat /\ met \in Nat)'
    <3>1. Head(wire).val \in Payloads
      BY <1>14, ItemType DEF ResponseMessage, Arrived
    <3>2. last_message' = Head(wire).val /\ Capture(<<Head(wire).val>>, FALSE)
      BY <1>14 DEF ResponseMessage
    <3>3. captured' \in [messages : Seq(Payloads), error : BOOLEAN]
      BY <3>1, <3>2, SingletonSeq, CaptureType
    <3>4. (due \in Nat /\ met \in Nat)'
      <4>1. PICK n \in Nat : Settle(n) /\ due' = due
        BY <1>14, HeldType DEF ResponseMessage
      <4> QED
        BY <4>1, LedgerType
    <3> QED
      BY <1>14, <3>1, <3>2, <3>3, <3>4 DEF VerdictTypeOK, ResponseMessage
  <2> QED
    BY <2>1, <2>2, <2>3
<1>15. ASSUME ResponseEnds PROVE TypeInv'
  <2>1. RunnerTypeOK' /\ InSection'
    BY <1>15, NextSectionType, NextIterationType, SectionType, EmptySeq DEF RunnerTypeOK,
       InSection, Labels, Section, ResponseEnds, Expecting, Arrived, Exhausted, Capture, server,
       Consume, FailedIfJudging, Failed, Judging, channel, callVars, ledger
  <2>2. ChannelTypeOK' /\ CallTypeOK' /\ ServerTypeOK'
    BY <1>15, BufferAssumption, ConsumeType DEF RunnerTypeOK, ChannelTypeOK, CallTypeOK,
       ServerTypeOK, ResponseEnds, Expecting, Arrived, Exhausted, Capture, server, Consume,
       FailedIfJudging, Failed, Judging, channel, callVars, ledger
  <2>3. VerdictTypeOK' /\ (due \in Nat /\ met \in Nat)'
    <3>1. captured' \in [messages : Seq(Payloads), error : BOOLEAN]
      <4>1. captured' = captured \/ Capture(<<>>, TRUE)
        BY <1>15 DEF ResponseEnds
      <4> QED
        BY <4>1, CaptureType, EmptySeq DEF VerdictTypeOK
    <3>2. last_error' \in [kind : {"none", "json", "text"}, val : Codes \cup {NoStatus, Nothing}]
      <4>1. CASE Arrived("err")
        <5>1. Head(wire).val \in Codes
          BY <4>1, ItemType DEF Arrived
        <5>2. last_error' = [kind |-> "text", val |-> Head(wire).val]
          BY <1>15, <4>1 DEF ResponseEnds
        <5> QED
          BY <5>1, <5>2
      <4>2. CASE ~Arrived("err")
        BY <1>15, <4>2 DEF VerdictTypeOK, ResponseEnds
      <4> QED
        BY <4>1, <4>2
    <3> QED
      BY <1>15, <3>1, <3>2 DEF VerdictTypeOK, ResponseEnds, ledger
  <2> QED
    BY <2>1, <2>2, <2>3
<1>16. ASSUME ResponseTimeout PROVE TypeInv'
  <2>1. RunnerTypeOK' /\ InSection'
    BY <1>16, NextSectionType, NextIterationType, SectionType DEF RunnerTypeOK, InSection,
       Labels, Section, ResponseTimeout, Expecting, Stalled, Failed, channel, server, ledger
  <2>2. ChannelTypeOK' /\ CallTypeOK' /\ ServerTypeOK'
    BY <1>16, BufferAssumption DEF RunnerTypeOK, ChannelTypeOK, CallTypeOK, ServerTypeOK,
       ResponseTimeout, Expecting, Stalled, Failed, channel, server, ledger
  <2>3. VerdictTypeOK' /\ (due \in Nat /\ met \in Nat)'
    BY <1>16 DEF RunnerTypeOK, VerdictTypeOK, ResponseTimeout, Expecting, Stalled, Failed,
       channel, server, ledger
  <2> QED
    BY <2>1, <2>2, <2>3
<1>17. ASSUME ResponseComplete PROVE TypeInv'
  <2>1. RunnerTypeOK' /\ InSection'
    BY <1>17, NextSectionType, NextIterationType, SectionType DEF RunnerTypeOK, InSection,
       Labels, Section, ResponseComplete, Goto, channel, callVars, server, verdict, ledger
  <2>2. ChannelTypeOK' /\ CallTypeOK' /\ ServerTypeOK'
    BY <1>17, BufferAssumption DEF RunnerTypeOK, ChannelTypeOK, CallTypeOK, ServerTypeOK,
       ResponseComplete, Goto, channel, callVars, server, verdict, ledger
  <2>3. VerdictTypeOK' /\ (due \in Nat /\ met \in Nat)'
    BY <1>17 DEF RunnerTypeOK, VerdictTypeOK, ResponseComplete, Goto, channel, callVars,
       server, verdict, ledger
  <2> QED
    BY <2>1, <2>2, <2>3
<1>18. ASSUME DrainMessage PROVE TypeInv'
  <2>1. RunnerTypeOK' /\ InSection'
    BY <1>18, NextSectionType, NextIterationType, SectionType DEF RunnerTypeOK, InSection,
       Labels, Section, DrainMessage, Arrived, Capture, Consume, runner, channel, callVars,
       ledger
  <2>2. ChannelTypeOK' /\ CallTypeOK' /\ ServerTypeOK'
    BY <1>18, BufferAssumption DEF RunnerTypeOK, ChannelTypeOK, CallTypeOK, ServerTypeOK,
       DrainMessage, Arrived, Capture, Consume, runner, channel, callVars, ledger
  <2>3. VerdictTypeOK' /\ (due \in Nat /\ met \in Nat)'
    <3>1. Capture(<<Head(wire).val>>, FALSE) /\ Arrived("msg")
      BY <1>18 DEF DrainMessage
    <3>2. <<Head(wire).val>> \in Seq(Payloads)
      BY <3>1, ItemType, SingletonSeq DEF Arrived
    <3> QED
      BY <1>18, <3>1, <3>2, CaptureType DEF VerdictTypeOK, DrainMessage, ledger
  <2> QED
    BY <2>1, <2>2, <2>3
<1>19. ASSUME DrainEnds PROVE TypeInv'
  <2>1. RunnerTypeOK' /\ InSection'
    BY <1>19, NextSectionType, NextIterationType, SectionType DEF RunnerTypeOK, InSection,
       Labels, Section, DrainEnds, server, Arrived, Consume, Exhausted, Stalled, Goto, channel,
       callVars, verdict, ledger
  <2>2. ChannelTypeOK' /\ CallTypeOK' /\ ServerTypeOK'
    BY <1>19, BufferAssumption, ConsumeType DEF RunnerTypeOK, ChannelTypeOK, CallTypeOK,
       ServerTypeOK, DrainEnds, server, Arrived, Consume, Exhausted, Stalled, Goto, channel,
       callVars, verdict, ledger
  <2>3. VerdictTypeOK' /\ (due \in Nat /\ met \in Nat)'
    BY <1>19 DEF RunnerTypeOK, VerdictTypeOK, DrainEnds, server, Arrived, Consume, Exhausted,
       Stalled, Goto, channel, callVars, verdict, ledger
  <2> QED
    BY <2>1, <2>2, <2>3
<1>20. ASSUME AttachResponse PROVE TypeInv'
  <2>1. RunnerTypeOK' /\ InSection'
    BY <1>20, NextSectionType, NextIterationType, SectionType DEF RunnerTypeOK, InSection,
       Labels, Section, AttachResponse, Judge, Owe, Held, Judging, Settle, Failed, ledger,
       NextIteration, NextSection, channel, callVars, server
  <2>2. ChannelTypeOK' /\ CallTypeOK' /\ ServerTypeOK'
    BY <1>20, BufferAssumption DEF RunnerTypeOK, ChannelTypeOK, CallTypeOK, ServerTypeOK,
       AttachResponse, Judge, Owe, Held, Judging, Settle, Failed, ledger, NextIteration,
       NextSection, channel, callVars, server
  <2>3. VerdictTypeOK' /\ (due \in Nat /\ met \in Nat)'
    <3>1. Len(got) \in Nat
      BY LenProperties DEF RunnerTypeOK
    <3>2. CASE Attaches(doc, i)
      <4>1. PICK holds \in BOOLEAN : Judge(Len(got), holds, "assertion")
        BY <1>20, <3>2 DEF AttachResponse
      <4>2. (due \in Nat /\ met \in Nat)'
        BY <3>1, <4>1, JudgeType
      <4> QED
        BY <1>20, <3>2, <4>2 DEF VerdictTypeOK, AttachResponse
    <3>3. CASE ~Attaches(doc, i)
      BY <1>20, <3>3 DEF VerdictTypeOK, AttachResponse, ledger
    <3> QED
      BY <3>2, <3>3
  <2> QED
    BY <2>1, <2>2, <2>3
<1>21. ASSUME AssertOnError PROVE TypeInv'
  <2>1. RunnerTypeOK' /\ InSection'
    BY <1>21, NextSectionType, NextIterationType, SectionType DEF RunnerTypeOK, InSection,
       Labels, Section, AssertOnError, Asserting, NoError, Judge, Owe, Held, Judging, Settle,
       Failed, NextIteration, NextSection, channel, callVars, server
  <2>2. ChannelTypeOK' /\ CallTypeOK' /\ ServerTypeOK'
    BY <1>21, BufferAssumption DEF RunnerTypeOK, ChannelTypeOK, CallTypeOK, ServerTypeOK,
       AssertOnError, Asserting, NoError, Judge, Owe, Held, Judging, Settle, Failed,
       NextIteration, NextSection, channel, callVars, server
  <2>3. VerdictTypeOK' /\ (due \in Nat /\ met \in Nat)'
    BY <1>21 DEF RunnerTypeOK, VerdictTypeOK, AssertOnError, Asserting, NoError, Judge, Owe,
       Held, Judging, Settle, Failed, NextIteration, NextSection, channel, callVars, server
  <2> QED
    BY <2>1, <2>2, <2>3
<1>22. ASSUME AssertWithoutStream PROVE TypeInv'
  <2>1. RunnerTypeOK' /\ InSection'
    BY <1>22, NextSectionType, NextIterationType, SectionType DEF RunnerTypeOK, InSection,
       Labels, Section, AssertWithoutStream, Asserting, NoError, FailedIfJudging, Failed,
       Judging, NextIteration, NextSection, channel, callVars, server, ledger
  <2>2. ChannelTypeOK' /\ CallTypeOK' /\ ServerTypeOK'
    BY <1>22, BufferAssumption DEF RunnerTypeOK, ChannelTypeOK, CallTypeOK, ServerTypeOK,
       AssertWithoutStream, Asserting, NoError, FailedIfJudging, Failed, Judging, NextIteration,
       NextSection, channel, callVars, server, ledger
  <2>3. VerdictTypeOK' /\ (due \in Nat /\ met \in Nat)'
    BY <1>22 DEF RunnerTypeOK, VerdictTypeOK, AssertWithoutStream, Asserting, NoError,
       FailedIfJudging, Failed, Judging, NextIteration, NextSection, channel, callVars, server,
       ledger
  <2> QED
    BY <2>1, <2>2, <2>3
<1>23. ASSUME AssertOnItem PROVE TypeInv'
  <2>1. RunnerTypeOK' /\ InSection'
    BY <1>23, NextSectionType, NextIterationType, SectionType DEF RunnerTypeOK, InSection,
       Labels, Section, AssertOnItem, Asserting, NoError, Capture, Judge, Owe, Held, Judging,
       Settle, Failed, Consume, NextIteration, NextSection, channel, callVars
  <2>2. ChannelTypeOK' /\ CallTypeOK' /\ ServerTypeOK'
    BY <1>23, BufferAssumption DEF RunnerTypeOK, ChannelTypeOK, CallTypeOK, ServerTypeOK,
       AssertOnItem, Asserting, NoError, Capture, Judge, Owe, Held, Judging, Settle, Failed,
       Consume, NextIteration, NextSection, channel, callVars
  <2>3. VerdictTypeOK' /\ (due \in Nat /\ met \in Nat)'
    <3>1. Head(wire) \in Item /\ (Head(wire).kind = "msg" => Head(wire).val \in Payloads)
          /\ (Head(wire).kind = "err" => Head(wire).val \in Codes)
      BY <1>23, ItemType DEF AssertOnItem
    <3>2. captured' \in [messages : Seq(Payloads), error : BOOLEAN]
      <4>1. CASE Head(wire).kind = "msg"
        <5>1. Capture(<<Head(wire).val>>, FALSE)
          BY <1>23, <4>1 DEF AssertOnItem
        <5> QED
          BY <3>1, <4>1, <5>1, SingletonSeq, CaptureType
      <4>2. CASE Head(wire).kind # "msg"
        <5>1. Capture(<<>>, Head(wire).kind = "err")
          BY <1>23, <4>2 DEF AssertOnItem
        <5> QED
          BY <5>1, EmptySeq, CaptureType
      <4> QED
        BY <4>1, <4>2
    <3>3. /\ last_message' \in Payloads \cup {Nothing}
          /\ last_error' \in [kind : {"none", "json", "text"}, val : Codes \cup {NoStatus, Nothing}]
      BY <1>23, <3>1 DEF VerdictTypeOK, AssertOnItem
    <3>4. (due \in Nat /\ met \in Nat)'
      BY <1>23, JudgeType DEF AssertOnItem
    <3> QED
      BY <1>23, <3>2, <3>3, <3>4 DEF VerdictTypeOK, AssertOnItem
  <2> QED
    BY <2>1, <2>2, <2>3
<1>24. ASSUME AssertAtEnd PROVE TypeInv'
  <2>1. RunnerTypeOK' /\ InSection'
    BY <1>24, NextSectionType, NextIterationType, SectionType DEF RunnerTypeOK, InSection,
       Labels, Section, AssertAtEnd, Asserting, NoError, Exhausted, FailedIfJudging, Failed,
       Judging, NextIteration, NextSection, channel, callVars, server, ledger
  <2>2. ChannelTypeOK' /\ CallTypeOK' /\ ServerTypeOK'
    BY <1>24, BufferAssumption DEF RunnerTypeOK, ChannelTypeOK, CallTypeOK, ServerTypeOK,
       AssertAtEnd, Asserting, NoError, Exhausted, FailedIfJudging, Failed, Judging,
       NextIteration, NextSection, channel, callVars, server, ledger
  <2>3. VerdictTypeOK' /\ (due \in Nat /\ met \in Nat)'
    BY <1>24 DEF RunnerTypeOK, VerdictTypeOK, AssertAtEnd, Asserting, NoError, Exhausted,
       FailedIfJudging, Failed, Judging, NextIteration, NextSection, channel, callVars, server,
       ledger
  <2> QED
    BY <2>1, <2>2, <2>3
<1>25. ASSUME AssertTimeout PROVE TypeInv'
  <2>1. RunnerTypeOK' /\ InSection'
    BY <1>25, NextSectionType, NextIterationType, SectionType DEF RunnerTypeOK, InSection,
       Labels, Section, AssertTimeout, Asserting, NoError, Stalled, Failed, NextIteration,
       NextSection, channel, server, ledger
  <2>2. ChannelTypeOK' /\ CallTypeOK' /\ ServerTypeOK'
    BY <1>25, BufferAssumption DEF RunnerTypeOK, ChannelTypeOK, CallTypeOK, ServerTypeOK,
       AssertTimeout, Asserting, NoError, Stalled, Failed, NextIteration, NextSection, channel,
       server, ledger
  <2>3. VerdictTypeOK' /\ (due \in Nat /\ met \in Nat)'
    BY <1>25 DEF RunnerTypeOK, VerdictTypeOK, AssertTimeout, Asserting, NoError, Stalled,
       Failed, NextIteration, NextSection, channel, server, ledger
  <2> QED
    BY <2>1, <2>2, <2>3
<1>26. ASSUME Extract PROVE TypeInv'
  <2>1. RunnerTypeOK' /\ InSection'
    BY <1>26, NextSectionType, NextIterationType, SectionType DEF RunnerTypeOK, InSection,
       Labels, Section, Extract, Failed, NextIteration, NextSection, channel, callVars, server,
       ledger
  <2>2. ChannelTypeOK' /\ CallTypeOK' /\ ServerTypeOK'
    BY <1>26, BufferAssumption DEF RunnerTypeOK, ChannelTypeOK, CallTypeOK, ServerTypeOK,
       Extract, Failed, NextIteration, NextSection, channel, callVars, server, ledger
  <2>3. VerdictTypeOK' /\ (due \in Nat /\ met \in Nat)'
    <3>1. Section.defs \subseteq Names
      BY <1>26, SectionType DEF Extract, InSection
    <3>2. variables' \subseteq Names
      BY <1>26, <3>1 DEF VerdictTypeOK, Extract
    <3> QED
      BY <1>26, <3>2 DEF VerdictTypeOK, Extract, ledger
  <2> QED
    BY <2>1, <2>2, <2>3
<1>27. ASSUME ErrorAtStart PROVE TypeInv'
  <2>1. RunnerTypeOK' /\ InSection'
    BY <1>27, NextSectionType, NextIterationType, SectionType DEF RunnerTypeOK, InSection,
       Labels, Section, ErrorAtStart, JudgeError, Owe, Held, Judging, Settle, Failed, Capture,
       NextIteration, NextSection, channel, server
  <2>2. ChannelTypeOK' /\ CallTypeOK' /\ ServerTypeOK'
    BY <1>27, BufferAssumption DEF RunnerTypeOK, ChannelTypeOK, CallTypeOK, ServerTypeOK,
       ErrorAtStart, JudgeError, Owe, Held, Judging, Settle, Failed, Capture, NextIteration,
       NextSection, channel, server
  <2>3. VerdictTypeOK' /\ (due \in Nat /\ met \in Nat)'
    <3>1. i \in DOMAIN doc
      BY <1>27 DEF ErrorAtStart, InSection
    <3>2. PICK matches, accepted \in BOOLEAN :
             JudgeError(matches, accepted, status # NoStatus \/ Section.want # <<>>)
      BY <1>27 DEF ErrorAtStart
    <3>3. (due \in Nat /\ met \in Nat)' /\ skip_next_section' \in BOOLEAN
      BY <3>1, <3>2, JudgeErrorType
    <3>4. captured' \in [messages : Seq(Payloads), error : BOOLEAN]
      BY <1>27, CaptureType, EmptySeq DEF VerdictTypeOK, ErrorAtStart
    <3>5. last_error' \in [kind : {"none", "json", "text"}, val : Codes \cup {NoStatus, Nothing}]
      BY <1>27 DEF CallTypeOK, VerdictTypeOK, ErrorAtStart
    <3>6. transport_failure' \in BOOLEAN
      BY <1>27 DEF VerdictTypeOK, ErrorAtStart
    <3> QED
      BY <1>27, <3>3, <3>4, <3>5, <3>6 DEF VerdictTypeOK, ErrorAtStart
  <2> QED
    BY <2>1, <2>2, <2>3
<1>28. ASSUME ErrorReceived PROVE TypeInv'
  <2>1. RunnerTypeOK' /\ InSection'
    BY <1>28, NextSectionType, NextIterationType, SectionType DEF RunnerTypeOK, InSection,
       Labels, Section, ErrorReceived, ExpectingError, Arrived, JudgeError, Owe, Held, Judging,
       Settle, Failed, Capture, Consume, NextIteration, NextSection, channel, callVars
  <2>2. ChannelTypeOK' /\ CallTypeOK' /\ ServerTypeOK'
    BY <1>28, BufferAssumption, ConsumeType DEF RunnerTypeOK, ChannelTypeOK, CallTypeOK,
       ServerTypeOK, ErrorReceived, ExpectingError, Arrived, JudgeError, Owe, Held, Judging,
       Settle, Failed, Capture, Consume, NextIteration, NextSection, channel, callVars
  <2>3. VerdictTypeOK' /\ (due \in Nat /\ met \in Nat)'
    <3>1. i \in DOMAIN doc
      BY <1>28 DEF ErrorReceived, ExpectingError, InSection
    <3>2. PICK matches, accepted \in BOOLEAN : JudgeError(matches, accepted, TRUE)
      BY <1>28 DEF ErrorReceived, Accepts, AcceptsAttached
    <3>3. (due \in Nat /\ met \in Nat)' /\ skip_next_section' \in BOOLEAN
      BY <3>1, <3>2, JudgeErrorType
    <3>4. captured' \in [messages : Seq(Payloads), error : BOOLEAN]
      BY <1>28, CaptureType, EmptySeq DEF ErrorReceived
    <3>5. last_error' \in [kind : {"none", "json", "text"}, val : Codes \cup {NoStatus, Nothing}]
      BY <1>28, ItemType DEF ErrorReceived, Arrived
    <3> QED
      BY <1>28, <3>3, <3>4, <3>5 DEF VerdictTypeOK, ErrorReceived
  <2> QED
    BY <2>1, <2>2, <2>3
<1>29. ASSUME ErrorNotReceived PROVE TypeInv'
  <2>1. RunnerTypeOK' /\ InSection'
    BY <1>29, NextSectionType, NextIterationType, SectionType DEF RunnerTypeOK, InSection,
       Labels, Section, ErrorNotReceived, ExpectingError, Arrived, Consume, Exhausted, server,
       FailedIfJudging, Failed, Judging, NextIteration, NextSection, channel, callVars, ledger
  <2>2. ChannelTypeOK' /\ CallTypeOK' /\ ServerTypeOK'
    BY <1>29, BufferAssumption, ConsumeType DEF RunnerTypeOK, ChannelTypeOK, CallTypeOK,
       ServerTypeOK, ErrorNotReceived, ExpectingError, Arrived, Consume, Exhausted, server,
       FailedIfJudging, Failed, Judging, NextIteration, NextSection, channel, callVars, ledger
  <2>3. VerdictTypeOK' /\ (due \in Nat /\ met \in Nat)'
    BY <1>29 DEF RunnerTypeOK, VerdictTypeOK, ErrorNotReceived, ExpectingError, Arrived,
       Consume, Exhausted, server, FailedIfJudging, Failed, Judging, NextIteration, NextSection,
       channel, callVars, ledger
  <2> QED
    BY <2>1, <2>2, <2>3
<1>30. ASSUME ErrorTimeout PROVE TypeInv'
  <2>1. RunnerTypeOK' /\ InSection'
    BY <1>30, NextSectionType, NextIterationType, SectionType DEF RunnerTypeOK, InSection,
       Labels, Section, ErrorTimeout, ExpectingError, Stalled, Failed, NextSection, channel,
       server, ledger
  <2>2. ChannelTypeOK' /\ CallTypeOK' /\ ServerTypeOK'
    BY <1>30, BufferAssumption DEF RunnerTypeOK, ChannelTypeOK, CallTypeOK, ServerTypeOK,
       ErrorTimeout, ExpectingError, Stalled, Failed, NextSection, channel, server, ledger
  <2>3. VerdictTypeOK' /\ (due \in Nat /\ met \in Nat)'
    BY <1>30 DEF RunnerTypeOK, VerdictTypeOK, ErrorTimeout, ExpectingError, Stalled, Failed,
       NextSection, channel, server, ledger
  <2> QED
    BY <2>1, <2>2, <2>3
<1>31. ASSUME FinishSections PROVE TypeInv'
  <2>1. RunnerTypeOK' /\ InSection'
    BY <1>31, NextSectionType, NextIterationType, SectionType DEF RunnerTypeOK, InSection,
       Labels, Section, FinishSections, Goto, verdict, callVars, server, ledger
  <2>2. ChannelTypeOK' /\ CallTypeOK' /\ ServerTypeOK'
    BY <1>31, BufferAssumption DEF RunnerTypeOK, ChannelTypeOK, CallTypeOK, ServerTypeOK,
       FinishSections, Goto, verdict, callVars, server, ledger
  <2>3. VerdictTypeOK' /\ (due \in Nat /\ met \in Nat)'
    BY <1>31 DEF RunnerTypeOK, VerdictTypeOK, FinishSections, Goto, verdict, callVars,
       server, ledger
  <2> QED
    BY <2>1, <2>2, <2>3
<1>32. ASSUME FinalAwait PROVE TypeInv'
  <2>1. RunnerTypeOK' /\ InSection'
    BY <1>32, NextSectionType, NextIterationType, SectionType DEF RunnerTypeOK, InSection,
       Labels, Section, FinalAwait, Failed, Goto, channel, server, ledger
  <2>2. ChannelTypeOK' /\ CallTypeOK' /\ ServerTypeOK'
    BY <1>32, BufferAssumption DEF RunnerTypeOK, ChannelTypeOK, CallTypeOK, ServerTypeOK,
       FinalAwait, Failed, Goto, channel, server, ledger
  <2>3. VerdictTypeOK' /\ (due \in Nat /\ met \in Nat)'
    BY <1>32 DEF RunnerTypeOK, VerdictTypeOK, FinalAwait, Failed, Goto, channel, server,
       ledger
  <2> QED
    BY <2>1, <2>2, <2>3
<1>33. ASSUME FinalDrain PROVE TypeInv'
  <2>1. RunnerTypeOK' /\ InSection'
    BY <1>33, NextSectionType, NextIterationType, SectionType DEF RunnerTypeOK, InSection,
       Labels, Section, FinalDrain, Capture, Arrived, Consume, runner, channel, callVars, ledger
  <2>2. ChannelTypeOK' /\ CallTypeOK' /\ ServerTypeOK'
    BY <1>33, BufferAssumption, ConsumeType DEF RunnerTypeOK, ChannelTypeOK, CallTypeOK,
       ServerTypeOK, FinalDrain, Capture, Arrived, Consume, runner, channel, callVars, ledger
  <2>3. VerdictTypeOK' /\ (due \in Nat /\ met \in Nat)'
    <3>1. CASE Arrived("msg")
      <4>1. Capture(<<Head(wire).val>>, Arrived("err")) /\ Arrived("err") \in BOOLEAN
        BY <1>33, <3>1 DEF FinalDrain, Arrived
      <4>2. <<Head(wire).val>> \in Seq(Payloads)
        BY <3>1, ItemType, SingletonSeq DEF Arrived
      <4> QED
        BY <1>33, <4>1, <4>2, CaptureType DEF VerdictTypeOK, FinalDrain, ledger
    <3>2. CASE ~Arrived("msg")
      <4>1. Capture(<<>>, Arrived("err")) /\ Arrived("err") \in BOOLEAN
        BY <1>33, <3>2 DEF FinalDrain, Arrived
      <4> QED
        BY <1>33, <4>1, EmptySeq, CaptureType DEF VerdictTypeOK, FinalDrain, ledger
    <3> QED
      BY <3>1, <3>2
  <2> QED
    BY <2>1, <2>2, <2>3
<1>34. ASSUME FinalDrainEnds PROVE TypeInv'
  <2>1. RunnerTypeOK' /\ InSection'
    BY <1>34, NextSectionType, NextIterationType, SectionType DEF RunnerTypeOK, InSection,
       Labels, Section, FinalDrainEnds, Exhausted, Stalled, Failed, Goto, verdict, channel,
       callVars, server, ledger
  <2>2. ChannelTypeOK' /\ CallTypeOK' /\ ServerTypeOK'
    BY <1>34, BufferAssumption DEF RunnerTypeOK, ChannelTypeOK, CallTypeOK, ServerTypeOK,
       FinalDrainEnds, Exhausted, Stalled, Failed, Goto, verdict, channel, callVars, server,
       ledger
  <2>3. VerdictTypeOK' /\ (due \in Nat /\ met \in Nat)'
    BY <1>34 DEF RunnerTypeOK, VerdictTypeOK, FinalDrainEnds, Exhausted, Stalled, Failed,
       Goto, verdict, channel, callVars, server, ledger
  <2> QED
    BY <2>1, <2>2, <2>3
<1>35. ASSUME GiveVerdict PROVE TypeInv'
  <2>1. RunnerTypeOK' /\ InSection'
    BY <1>35, NextSectionType, NextIterationType, SectionType DEF RunnerTypeOK, InSection,
       Labels, Section, GiveVerdict, verdict, Goto, channel, callVars, server, ledger
  <2>2. ChannelTypeOK' /\ CallTypeOK' /\ ServerTypeOK'
    BY <1>35, BufferAssumption DEF RunnerTypeOK, ChannelTypeOK, CallTypeOK, ServerTypeOK,
       GiveVerdict, verdict, Goto, channel, callVars, server, ledger
  <2>3. VerdictTypeOK' /\ (due \in Nat /\ met \in Nat)'
    BY <1>35 DEF RunnerTypeOK, VerdictTypeOK, GiveVerdict, verdict, Goto, channel, callVars,
       server, ledger
  <2> QED
    BY <2>1, <2>2, <2>3
<1>36. ASSUME PullRequest PROVE TypeInv'
  <2>1. RunnerTypeOK' /\ InSection'
    BY <1>36, NextSectionType, NextIterationType, SectionType DEF RunnerTypeOK, InSection,
       Labels, Section, PullRequest, runnerSide, runner, verdict, ledger, callVars, server
  <2>2. ChannelTypeOK' /\ CallTypeOK' /\ ServerTypeOK'
    BY <1>36, BufferAssumption DEF RunnerTypeOK, ChannelTypeOK, CallTypeOK, ServerTypeOK,
       PullRequest, runnerSide, runner, verdict, ledger, callVars, server
  <2>3. VerdictTypeOK' /\ (due \in Nat /\ met \in Nat)'
    BY <1>36 DEF RunnerTypeOK, VerdictTypeOK, PullRequest, runnerSide, runner, verdict,
       ledger, callVars, server
  <2> QED
    BY <2>1, <2>2, <2>3
<1>37. ASSUME NEW code \in Codes \cup {NoStatus}, CallFails(code) PROVE TypeInv'
  <2>1. RunnerTypeOK' /\ InSection'
    BY <1>37, NextSectionType, NextIterationType, SectionType DEF RunnerTypeOK, InSection,
       Labels, Section, CallFails, runnerSide, runner, verdict, ledger
  <2>2. ChannelTypeOK' /\ CallTypeOK' /\ ServerTypeOK'
    BY <1>37, BufferAssumption, EmptySeq DEF RunnerTypeOK, ChannelTypeOK, CallTypeOK,
       ServerTypeOK, CallFails, runnerSide, runner, verdict, ledger
  <2>3. VerdictTypeOK' /\ (due \in Nat /\ met \in Nat)'
    BY <1>37 DEF RunnerTypeOK, VerdictTypeOK, CallFails, runnerSide, runner, verdict, ledger
  <2> QED
    BY <2>1, <2>2, <2>3
<1>38. ASSUME HeadersArrive PROVE TypeInv'
  <2>1. RunnerTypeOK' /\ InSection'
    BY <1>38, NextSectionType, NextIterationType, SectionType DEF RunnerTypeOK, InSection,
       Labels, Section, HeadersArrive, WholeResponse, runnerSide, runner, verdict, ledger,
       channel, server
  <2>2. ChannelTypeOK' /\ CallTypeOK' /\ ServerTypeOK'
    BY <1>38, BufferAssumption DEF RunnerTypeOK, ChannelTypeOK, CallTypeOK, ServerTypeOK,
       HeadersArrive, WholeResponse, runnerSide, runner, verdict, ledger, channel, server
  <2>3. VerdictTypeOK' /\ (due \in Nat /\ met \in Nat)'
    BY <1>38 DEF RunnerTypeOK, VerdictTypeOK, HeadersArrive, WholeResponse, runnerSide,
       runner, verdict, ledger, channel, server
  <2> QED
    BY <2>1, <2>2, <2>3
<1>39. ASSUME CallSucceeds PROVE TypeInv'
  <2>1. RunnerTypeOK' /\ InSection'
    BY <1>39, NextSectionType, NextIterationType, SectionType DEF RunnerTypeOK, InSection,
       Labels, Section, CallSucceeds, WholeResponse, runnerSide, runner, verdict, ledger
  <2>2. ChannelTypeOK' /\ CallTypeOK' /\ ServerTypeOK'
    BY <1>39, BufferAssumption DEF RunnerTypeOK, ChannelTypeOK, CallTypeOK, ServerTypeOK,
       CallSucceeds, WholeResponse, runnerSide, runner, verdict, ledger
  <2>3. VerdictTypeOK' /\ (due \in Nat /\ met \in Nat)'
    BY <1>39 DEF RunnerTypeOK, VerdictTypeOK, CallSucceeds, WholeResponse, runnerSide,
       runner, verdict, ledger
  <2> QED
    BY <2>1, <2>2, <2>3
<1>40. ASSUME DropRequests PROVE TypeInv'
  <2>1. RunnerTypeOK' /\ InSection'
    BY <1>40, NextSectionType, NextIterationType, SectionType DEF RunnerTypeOK, InSection,
       Labels, Section, DropRequests, runnerSide, runner, verdict, ledger, callVars, server
  <2>2. ChannelTypeOK' /\ CallTypeOK' /\ ServerTypeOK'
    BY <1>40, BufferAssumption DEF RunnerTypeOK, ChannelTypeOK, CallTypeOK, ServerTypeOK,
       DropRequests, runnerSide, runner, verdict, ledger, callVars, server
  <2>3. VerdictTypeOK' /\ (due \in Nat /\ met \in Nat)'
    BY <1>40 DEF RunnerTypeOK, VerdictTypeOK, DropRequests, runnerSide, runner, verdict,
       ledger, callVars, server
  <2> QED
    BY <2>1, <2>2, <2>3
<1>41. ASSUME NEW v \in Payloads, ServeMessage(v) PROVE TypeInv'
  <2>1. RunnerTypeOK' /\ InSection'
    BY <1>41, NextSectionType, NextIterationType, SectionType DEF RunnerTypeOK, InSection,
       Labels, Section, ServeMessage, Serving, WholeResponse, SingleResponse, Serve, runnerSide,
       runner, verdict, ledger, channel, callVars
  <2>2. ChannelTypeOK' /\ CallTypeOK' /\ ServerTypeOK'
    <3>1. [kind |-> "msg", val |-> v] \in Item
      BY <1>41 DEF Item
    <3>2. /\ wire' = Append(wire, [kind |-> "msg", val |-> v]) /\ wire \in Seq(Item)
          /\ ended' = FALSE
      BY <1>41 DEF ServerTypeOK, ServeMessage, Serve
    <3>3. wire' \in Seq(Item)
      BY <3>1, <3>2
    <3>4. served' = Append(served, v) /\ served \in Seq(Payloads) /\ v \in Payloads
      BY <1>41 DEF ServerTypeOK, ServeMessage
    <3>5. served' \in Seq(Payloads)
      BY <3>4
    <3> QED
      BY <1>41, <3>2, <3>3, <3>5 DEF ChannelTypeOK, CallTypeOK, ServerTypeOK, ServeMessage, Serve,
                                  channel, callVars
  <2>3. VerdictTypeOK' /\ (due \in Nat /\ met \in Nat)'
    BY <1>41 DEF RunnerTypeOK, VerdictTypeOK, ServeMessage, Serving, WholeResponse,
       SingleResponse, Serve, runnerSide, runner, verdict, ledger, channel, callVars
  <2> QED
    BY <2>1, <2>2, <2>3
<1>42. ASSUME ServeTrailers PROVE TypeInv'
  <2>1. RunnerTypeOK' /\ InSection'
    BY <1>42, NextSectionType, NextIterationType, SectionType DEF RunnerTypeOK, InSection,
       Labels, Section, ServeTrailers, Serving, WholeResponse, SingleResponse, Serve,
       runnerSide, runner, verdict, ledger, channel, callVars
  <2>2. ChannelTypeOK' /\ CallTypeOK' /\ ServerTypeOK'
    BY <1>42, BufferAssumption DEF RunnerTypeOK, ChannelTypeOK, CallTypeOK, ServerTypeOK,
       Item, ServeTrailers, Serving, WholeResponse, SingleResponse, Serve, runnerSide, runner,
       verdict, ledger, channel, callVars
  <2>3. VerdictTypeOK' /\ (due \in Nat /\ met \in Nat)'
    BY <1>42 DEF RunnerTypeOK, VerdictTypeOK, ServeTrailers, Serving, WholeResponse,
       SingleResponse, Serve, runnerSide, runner, verdict, ledger, channel, callVars
  <2> QED
    BY <2>1, <2>2, <2>3
<1>43. ASSUME ServeEnd PROVE TypeInv'
  <2>1. RunnerTypeOK' /\ InSection'
    BY <1>43, NextSectionType, NextIterationType, SectionType DEF RunnerTypeOK, InSection,
       Labels, Section, ServeEnd, Serving, WholeResponse, SingleResponse, Serve, runnerSide,
       runner, verdict, ledger, channel, callVars
  <2>2. ChannelTypeOK' /\ CallTypeOK' /\ ServerTypeOK'
    BY <1>43, BufferAssumption DEF RunnerTypeOK, ChannelTypeOK, CallTypeOK, ServerTypeOK,
       ServeEnd, Serving, WholeResponse, SingleResponse, Serve, runnerSide, runner, verdict,
       ledger, channel, callVars
  <2>3. VerdictTypeOK' /\ (due \in Nat /\ met \in Nat)'
    BY <1>43 DEF RunnerTypeOK, VerdictTypeOK, ServeEnd, Serving, WholeResponse,
       SingleResponse, Serve, runnerSide, runner, verdict, ledger, channel, callVars
  <2> QED
    BY <2>1, <2>2, <2>3
<1>44. ASSUME NEW code \in Codes, ServeError(code) PROVE TypeInv'
  <2>1. RunnerTypeOK' /\ InSection'
    BY <1>44, NextSectionType, NextIterationType, SectionType DEF RunnerTypeOK, InSection,
       Labels, Section, ServeError, Serving, WholeResponse, SingleResponse, Serve, runnerSide,
       runner, verdict, ledger, channel, callVars
  <2>2. ChannelTypeOK' /\ CallTypeOK' /\ ServerTypeOK'
    BY <1>44, BufferAssumption DEF RunnerTypeOK, ChannelTypeOK, CallTypeOK, ServerTypeOK,
       Item, ServeError, Serving, WholeResponse, SingleResponse, Serve, runnerSide, runner,
       verdict, ledger, channel, callVars
  <2>3. VerdictTypeOK' /\ (due \in Nat /\ met \in Nat)'
    BY <1>44 DEF RunnerTypeOK, VerdictTypeOK, ServeError, Serving, WholeResponse,
       SingleResponse, Serve, runnerSide, runner, verdict, ledger, channel, callVars
  <2> QED
    BY <2>1, <2>2, <2>3
<1>45. CASE UNCHANGED vars
  <2>1. RunnerTypeOK' /\ InSection'
    BY <1>45 DEF RunnerTypeOK, InSection, Labels, Section, vars, runner, channel, callVars,
       server, verdict, ledger
  <2>2. ChannelTypeOK' /\ CallTypeOK' /\ ServerTypeOK'
    BY <1>45 DEF RunnerTypeOK, ChannelTypeOK, CallTypeOK, ServerTypeOK, vars, runner,
       channel, callVars, server, verdict, ledger
  <2>3. VerdictTypeOK' /\ (due \in Nat /\ met \in Nat)'
    BY <1>45 DEF RunnerTypeOK, VerdictTypeOK, vars, runner, channel, callVars, server,
       verdict, ledger
  <2> QED
    BY <2>1, <2>2, <2>3
<1> QED
  BY <1>1, <1>2, <1>3, <1>4, <1>5, <1>6, <1>7, <1>8, <1>9, <1>10, <1>11, <1>12, <1>13, <1>14,
     <1>15, <1>16, <1>17, <1>18, <1>19, <1>20, <1>21, <1>22, <1>23, <1>24, <1>25, <1>26, <1>27,
     <1>28, <1>29, <1>30, <1>31, <1>32, <1>33, <1>34, <1>35, <1>36, <1>37, <1>38, <1>39, <1>40,
     <1>41, <1>42, <1>43, <1>44, <1>45 DEF Next, RunnerStep, RequestSteps, ReaderSteps,
     ResponseSteps, AssertsSteps, ErrorSteps, FinishSteps, CallStep, ServerStep, Done

\* In every run of run_one the variables keep to their types; in particular no
\* more than REQUEST_CHANNEL_BUFFER requests wait in the channel.
THEOREM TypeCorrect == Spec => []TypeOK
<1>1. Spec => []TypeInv
  BY TypeInit, TypeNext, PTL DEF Spec
<1>2. TypeInv => TypeOK
  BY DEF TypeInv
<1> QED
  BY <1>1, <1>2, PTL

\* Ledger, and that only HTTP bidi defers expectations.
LedgerInv == Ledger /\ (~settings.http => deferred_bidi_expectations = <<>>)

\* Initially nothing is owed.
LEMMA LedgerInit == Init => LedgerInv
  BY HeldType DEF Init, LedgerInv, Ledger, Held

\* A step that reaches and settles nothing keeps the ledger, whatever it fails.
LEMMA LedgerKept ==
    ASSUME LedgerInv, UNCHANGED <<doc, settings, due, met, deferred_bidi_expectations>>,
           failure_reasons \subseteq failure_reasons', pc # "read", pc' # "read"
    PROVE  LedgerInv'
  BY DEF LedgerInv, Ledger, Held, Judging

\* A failure closes the ledger.
LEMMA LedgerFailed ==
    ASSUME LedgerInv, UNCHANGED settings, Judging => failure_reasons' # {},
           deferred_bidi_expectations' \in {deferred_bidi_expectations, <<>>}
    PROVE  LedgerInv'
  BY DEF LedgerInv, Ledger, Judging

\* Expectations reached and checked at once leave the ledger even, or fail.
LEMMA LedgerJudged ==
    ASSUME TypeInv, LedgerInv, NEW n \in Nat, NEW holds \in BOOLEAN, NEW reason,
           Judge(n, holds, reason), pc # "read", pc' # "read",
           UNCHANGED <<doc, settings, deferred_bidi_expectations>>
    PROVE  LedgerInv'
<1>1. /\ due' = due + Held(Judging, n) /\ met' = met + Held(Judging, Held(holds, n))
      /\ Judging /\ ~holds => failure_reasons' # {}
      /\ failure_reasons \subseteq failure_reasons'
  BY DEF Judge, Owe, Settle, Failed
<1>2. due \in Nat /\ met \in Nat /\ Len(deferred_bidi_expectations) \in Nat
  BY LenProperties DEF TypeInv, TypeOK, VerdictTypeOK
<1>3. CASE Judging /\ ~holds
  BY <1>1, <1>3, LedgerFailed
<1>4. CASE Judging /\ holds
  <2>1. due' = due + n /\ met' = met + n
    BY <1>1, <1>4 DEF Held
  <2> QED
    BY <1>1, <1>2, <2>1 DEF LedgerInv, Ledger, Held, Judging
<1>5. CASE ~Judging
  BY <1>5 DEF LedgerInv, Ledger, Judging
<1> QED
  BY <1>3, <1>4, <1>5

\* So does an error met by an ERROR section, when it gives its ASSERTS a target.
LEMMA LedgerJudgedError ==
    ASSUME TypeInv, LedgerInv, i \in DOMAIN doc, NEW matches \in BOOLEAN, NEW accepted \in BOOLEAN,
           NEW known \in BOOLEAN, Attaches(doc, i) => known,
           JudgeError(matches, accepted, known), pc # "read", pc' # "read",
           UNCHANGED <<doc, settings, deferred_bidi_expectations>>
    PROVE  LedgerInv'
<1> DEFINE attached == Attaches(doc, i)
           wanted == Len(Section.want)
<1>1. /\ due' = due + Held(Judging, wanted + Held(attached, 1))
      /\ met' = met + Held(Judging, Held(matches, wanted) + Held(attached /\ known /\ accepted, 1))
      /\ Judging /\ Section.want # <<>> /\ ~matches => failure_reasons' # {}
      /\ Judging /\ attached /\ ~accepted => failure_reasons' # {}
      /\ failure_reasons \subseteq failure_reasons'
  BY DEF JudgeError, Owe, Settle, Failed
<1>2. /\ due \in Nat /\ met \in Nat /\ Len(deferred_bidi_expectations) \in Nat
      /\ wanted \in Nat /\ attached \in BOOLEAN
      /\ Section.want = <<>> => wanted = 0
  BY SectionType, AttachesType, LenProperties, EmptySeq DEF TypeInv, TypeOK, VerdictTypeOK
<1>3. CASE Judging /\ ((Section.want # <<>> /\ ~matches) \/ (attached /\ ~accepted))
  BY <1>1, <1>3, LedgerFailed
<1>4. CASE Judging /\ (Section.want = <<>> \/ matches) /\ (attached => accepted)
  <2>1. Held(matches, wanted) = wanted
    BY <1>2, <1>4 DEF Held
  <2>2. Held(attached /\ known /\ accepted, 1) = Held(attached, 1)
    BY <1>4 DEF Held
  <2>3. wanted + Held(attached, 1) \in Nat
    BY <1>2, HeldType
  <2> HIDE DEF wanted
  <2>4. PICK n \in Nat : due' = due + n /\ met' = met + n
    BY <1>1, <1>4, <2>1, <2>2, <2>3 DEF Held
  <2> QED
    BY <1>1, <1>2, <2>4 DEF LedgerInv, Ledger, Held, Judging
<1>5. CASE ~Judging
  BY <1>5 DEF LedgerInv, Ledger, Judging
<1> QED
  BY <1>3, <1>4, <1>5

\* Every step of the runner, the call and the server keeps the ledger even.
LEMMA LedgerNext == TypeInv /\ LedgerInv /\ [Next]_vars => LedgerInv'
<1> SUFFICES ASSUME TypeInv, LedgerInv, [Next]_vars PROVE LedgerInv'
  OBVIOUS
<1>1. ASSUME Start PROVE LedgerInv'
  BY <1>1, LedgerKept DEF Start, Failed, ledger
<1>2. ASSUME SkipSection PROVE LedgerInv'
  BY <1>2, LedgerKept DEF SkipSection, NextSection, ledger
<1>3. ASSUME EnterSection PROVE LedgerInv'
  BY <1>3, LedgerKept DEF EnterSection, verdict, ledger
<1>4. ASSUME UnresolvedRequest PROVE LedgerInv'
  BY <1>4, LedgerKept DEF UnresolvedRequest, Sending, Goto, ledger
<1>5. ASSUME SendRequest PROVE LedgerInv'
  BY <1>5, LedgerKept DEF SendRequest, Sending, ledger
<1>6. ASSUME SendFails PROVE LedgerInv'
  BY <1>6, LedgerKept DEF SendFails, Sending, Failed, ledger
<1>7. ASSUME RequestSent PROVE LedgerInv'
  BY <1>7, LedgerKept DEF RequestSent, Sending, NextIteration, NextSection, verdict, ledger
<1>8. ASSUME DeferResponse PROVE LedgerInv'
  <2>1. /\ settings.http /\ pc # "read" /\ pc' # "read"
        /\ UNCHANGED <<doc, settings, met>> /\ failure_reasons' = failure_reasons
        /\ deferred_bidi_expectations' = deferred_bidi_expectations \o Section.want
        /\ due' = due + Held(Judging, Len(Section.want))
    BY <1>8 DEF DeferResponse, Reading, is_http_bidi, Owe, NextIteration, NextSection
  <2>2. Section.want \in Seq(Payloads) /\ deferred_bidi_expectations \in Seq(Payloads)
    BY <1>8, SectionType DEF DeferResponse, Reading, TypeInv, TypeOK, InSection, VerdictTypeOK
  <2>3. /\ Len(deferred_bidi_expectations') = Len(deferred_bidi_expectations) + Len(Section.want)
        /\ Len(deferred_bidi_expectations) \in Nat /\ Len(Section.want) \in Nat
    BY <2>1, <2>2, ConcatProperties, LenProperties
  <2>4. due \in Nat /\ met \in Nat
    BY DEF TypeInv, TypeOK
  <2>5. CASE Judging
    <3>1. due' = due + Len(Section.want)
      BY <2>1, <2>5 DEF Held
    <3>2. /\ pc # "read" /\ pc' # "read" /\ UNCHANGED <<doc, settings, met>>
          /\ failure_reasons' = failure_reasons /\ settings.http
      BY <2>1
    <3> QED
      BY <2>3, <2>4, <2>5, <3>1, <3>2 DEF LedgerInv, Ledger, Held, Judging
  <2>6. CASE ~Judging
    BY <2>1, <2>6 DEF LedgerInv, Ledger, Judging
  <2> QED
    BY <2>5, <2>6
<1>9. ASSUME EnterReader PROVE LedgerInv'
  BY <1>9, LedgerKept DEF EnterReader, Reading, CloseRequests, Goto, verdict, ledger
<1>10. ASSUME StreamReady PROVE LedgerInv'
  BY <1>10, LedgerKept DEF StreamReady, Goto, verdict, ledger
<1>11. ASSUME StreamStartFails PROVE LedgerInv'
  BY <1>11, LedgerKept DEF StreamStartFails, Failed, NextSection, ledger
<1>12. ASSUME NoStream PROVE LedgerInv'
  BY <1>12, LedgerFailed DEF NoStream, Failed
<1>13. ASSUME StartResponse PROVE LedgerInv'
  <2>1. /\ pc = "ready" /\ pc' = "read"
        /\ UNCHANGED <<doc, settings, met>> /\ failure_reasons' = failure_reasons
        /\ deferred_bidi_expectations' = <<>>
        /\ todo' = deferred_bidi_expectations \o Section.want
        /\ due' = due + Held(Judging, Len(Section.want))
    BY <1>13 DEF StartResponse, Merge, Owe
  <2>2. Section.want \in Seq(Payloads) /\ deferred_bidi_expectations \in Seq(Payloads)
    BY <1>13, SectionType DEF StartResponse, TypeInv, TypeOK, InSection, VerdictTypeOK
  <2>3. /\ Len(todo') = Len(deferred_bidi_expectations) + Len(Section.want)
        /\ Len(deferred_bidi_expectations) \in Nat /\ Len(Section.want) \in Nat
        /\ Len(deferred_bidi_expectations') = 0
    BY <2>1, <2>2, ConcatProperties, LenProperties, EmptySeq
  <2>4. due \in Nat /\ met \in Nat
    BY DEF TypeInv, TypeOK
  <2>5. CASE Judging
    <3>1. due' = due + Len(Section.want)
      BY <2>1, <2>5 DEF Held
    <3>2. /\ pc = "ready" /\ pc' = "read" /\ UNCHANGED <<doc, settings, met>>
          /\ failure_reasons' = failure_reasons
      BY <2>1
    <3> QED
      BY <2>3, <2>4, <2>5, <3>1, <3>2 DEF LedgerInv, Ledger, Held, Judging
  <2>6. CASE ~Judging
    BY <2>1, <2>6 DEF LedgerInv, Ledger, Judging
  <2> QED
    BY <2>5, <2>6
<1>14. ASSUME ResponseMessage PROVE LedgerInv'
  <2> DEFINE matches == Head(wire).val = Head(todo)
  <2>1. /\ pc = "read" /\ pc' = "read" /\ todo # <<>> /\ todo' = Tail(todo)
        /\ UNCHANGED <<doc, settings, due, deferred_bidi_expectations>>
        /\ met' = met + Held(Judging, Held(matches, 1))
        /\ Judging /\ ~matches => failure_reasons' # {}
        /\ failure_reasons \subseteq failure_reasons'
    BY <1>14 DEF ResponseMessage, Expecting, Settle, Failed
  <2>2. Len(todo') = Len(todo) - 1 /\ Len(todo) \in Nat
    BY <2>1, HeadTailProperties, LenProperties DEF TypeInv, TypeOK, RunnerTypeOK
  <2>3. due \in Nat /\ met \in Nat /\ Len(deferred_bidi_expectations) \in Nat
    BY LenProperties DEF TypeInv, TypeOK, VerdictTypeOK
  <2>4. CASE Judging /\ ~matches
    BY <2>1, <2>4, LedgerFailed DEF Judging
  <2>5. CASE Judging /\ matches
    <3>1. met' = met + 1
      BY <2>1, <2>3, <2>5 DEF Held
    <3> HIDE DEF matches
    <3> QED
      BY <2>1, <2>2, <2>3, <3>1 DEF LedgerInv, Ledger, Held, Judging
  <2>6. CASE ~Judging
    BY <2>1, <2>6 DEF LedgerInv, Ledger, Judging
  <2> QED
    BY <2>4, <2>5, <2>6
<1>15. ASSUME ResponseEnds PROVE LedgerInv'
  BY <1>15, LedgerFailed DEF ResponseEnds, FailedIfJudging, Failed
<1>16. ASSUME ResponseTimeout PROVE LedgerInv'
  BY <1>16, LedgerFailed DEF ResponseTimeout, Failed
<1>17. ASSUME ResponseComplete PROVE LedgerInv'
  <2>1. Len(todo) = 0 /\ pc = "read" /\ pc' = "drain"
    BY <1>17, EmptySeq DEF ResponseComplete, Goto
  <2>2. UNCHANGED <<doc, settings, due, met, deferred_bidi_expectations, failure_reasons>>
    BY <1>17 DEF ResponseComplete, verdict, ledger
  <2> QED
    BY <2>1, <2>2 DEF LedgerInv, Ledger, Held, Judging
<1>18. ASSUME DrainMessage PROVE LedgerInv'
  BY <1>18, LedgerKept DEF DrainMessage, Arrived, Capture, Consume, runner, ledger
<1>19. ASSUME DrainEnds PROVE LedgerInv'
  BY <1>19, LedgerKept DEF DrainEnds, Arrived, Consume, Exhausted, Stalled, Goto, verdict,
     ledger
<1>20. ASSUME AttachResponse PROVE LedgerInv'
  <2>1. /\ pc = "attach" /\ pc' \in {"section", "exec"}
        /\ UNCHANGED <<doc, settings, deferred_bidi_expectations>> /\ Len(got) \in Nat
    BY <1>20, NextIterationType, LenProperties
       DEF AttachResponse, TypeInv, TypeOK, RunnerTypeOK, InSection
  <2>2. CASE Attaches(doc, i)
    <3>1. PICK holds \in BOOLEAN : Judge(Len(got), holds, "assertion")
      BY <1>20, <2>2 DEF AttachResponse
    <3> QED
      BY <2>1, <3>1, LedgerJudged
  <2>3. CASE ~Attaches(doc, i)
    BY <1>20, <2>1, <2>3, LedgerKept DEF AttachResponse, Failed, ledger
  <2> QED
    BY <2>2, <2>3
<1>21. ASSUME AssertOnError PROVE LedgerInv'
  <2>1. /\ pc = "ready" /\ pc' \in {"section", "exec"}
        /\ UNCHANGED <<doc, settings, deferred_bidi_expectations>>
    BY <1>21, NextIterationType DEF AssertOnError, Asserting, TypeInv, InSection
  <2>2. PICK holds \in BOOLEAN : Judge(1, holds, "assertion")
    BY <1>21 DEF AssertOnError, Accepts
  <2> QED
    BY <2>1, <2>2, LedgerJudged
<1>22. ASSUME AssertWithoutStream PROVE LedgerInv'
  BY <1>22, LedgerKept DEF AssertWithoutStream, Asserting, NoError, FailedIfJudging, Failed,
     Judging, NextIteration, NextSection, ledger
<1>23. ASSUME AssertOnItem PROVE LedgerInv'
  <2>1. /\ pc = "ready" /\ pc' \in {"section", "exec"}
        /\ UNCHANGED <<doc, settings, deferred_bidi_expectations>>
    BY <1>23, NextIterationType DEF AssertOnItem, Asserting, TypeInv, InSection
  <2>2. PICK holds \in BOOLEAN : Judge(1, holds, "assertion")
    BY <1>23 DEF AssertOnItem, Accepts
  <2> QED
    BY <2>1, <2>2, LedgerJudged
<1>24. ASSUME AssertAtEnd PROVE LedgerInv'
  BY <1>24, LedgerKept DEF AssertAtEnd, Asserting, NoError, Exhausted, FailedIfJudging,
     Failed, Judging, NextIteration, NextSection, ledger
<1>25. ASSUME AssertTimeout PROVE LedgerInv'
  BY <1>25, LedgerKept DEF AssertTimeout, Asserting, NoError, Stalled, Failed, NextIteration,
     NextSection, ledger
<1>26. ASSUME Extract PROVE LedgerInv'
  BY <1>26, LedgerKept DEF Extract, Failed, NextIteration, NextSection, ledger
<1>27. ASSUME ErrorAtStart PROVE LedgerInv'
  <2>1. /\ pc = "await" /\ pc' \in {"section", "exec"} /\ i \in DOMAIN doc
        /\ UNCHANGED <<doc, settings, deferred_bidi_expectations>> /\ Section.type = "ERROR"
    BY <1>27, NextIterationType DEF ErrorAtStart, TypeInv, InSection
  <2> DEFINE known == status # NoStatus \/ Section.want # <<>>
  <2>2. CASE settings.http /\ ~ErrorsHaveTargets(doc)
    BY <2>1, <2>2 DEF LedgerInv, Ledger
  <2>3. CASE ~settings.http \/ ErrorsHaveTargets(doc)
    <3>1. Attaches(doc, i) => known
      <4>1. ~settings.http => status # NoStatus
        BY <1>27, StatusAssumption DEF ErrorAtStart, TypeInv, InSection
      <4>2. ErrorsHaveTargets(doc) /\ Attaches(doc, i) => Section.want # <<>>
        BY <2>1 DEF ErrorsHaveTargets, Section
      <4> QED
        BY <2>3, <4>1, <4>2
    <3>2. PICK matches, accepted \in BOOLEAN : JudgeError(matches, accepted, known)
      BY <1>27 DEF ErrorAtStart
    <3>3. known \in BOOLEAN
      OBVIOUS
    <3> HIDE DEF known
    <3> QED
      BY <2>1, <3>1, <3>2, <3>3, LedgerJudgedError
  <2> QED
    BY <2>2, <2>3
<1>28. ASSUME ErrorReceived PROVE LedgerInv'
  <2>1. /\ pc = "ready" /\ pc' \in {"section", "exec"} /\ i \in DOMAIN doc
        /\ UNCHANGED <<doc, settings, deferred_bidi_expectations>>
    BY <1>28, NextIterationType DEF ErrorReceived, ExpectingError, TypeInv, InSection
  <2>2. PICK matches, accepted \in BOOLEAN : JudgeError(matches, accepted, TRUE)
    BY <1>28 DEF ErrorReceived, Accepts, AcceptsAttached
  <2> QED
    BY <2>1, <2>2, LedgerJudgedError
<1>29. ASSUME ErrorNotReceived PROVE LedgerInv'
  BY <1>29, LedgerKept DEF ErrorNotReceived, ExpectingError, Arrived, Consume, Exhausted,
     FailedIfJudging, Failed, Judging, NextIteration, NextSection, ledger
<1>30. ASSUME ErrorTimeout PROVE LedgerInv'
  BY <1>30, LedgerKept DEF ErrorTimeout, ExpectingError, Stalled, Failed, NextSection, ledger
<1>31. ASSUME FinishSections PROVE LedgerInv'
  BY <1>31, LedgerKept DEF FinishSections, Goto, verdict, ledger
<1>32. ASSUME FinalAwait PROVE LedgerInv'
  BY <1>32, LedgerKept DEF FinalAwait, Failed, Goto, ledger
<1>33. ASSUME FinalDrain PROVE LedgerInv'
  BY <1>33, LedgerKept DEF FinalDrain, Capture, Arrived, Consume, runner, ledger
<1>34. ASSUME FinalDrainEnds PROVE LedgerInv'
  BY <1>34, LedgerKept DEF FinalDrainEnds, Exhausted, Stalled, Failed, Goto, verdict, ledger
<1>35. ASSUME GiveVerdict PROVE LedgerInv'
  BY <1>35, LedgerKept DEF GiveVerdict, verdict, Goto, ledger
<1>36. ASSUME PullRequest PROVE LedgerInv'
  BY <1>36 DEF PullRequest, runnerSide, runner, verdict, ledger, LedgerInv, Ledger, Judging
<1>37. ASSUME NEW code \in Codes \cup {NoStatus}, CallFails(code) PROVE LedgerInv'
  BY <1>37 DEF CallFails, runnerSide, runner, verdict, ledger, LedgerInv, Ledger, Judging
<1>38. ASSUME HeadersArrive PROVE LedgerInv'
  BY <1>38 DEF HeadersArrive, runnerSide, runner, verdict, ledger, LedgerInv, Ledger, Judging
<1>39. ASSUME CallSucceeds PROVE LedgerInv'
  BY <1>39 DEF CallSucceeds, runnerSide, runner, verdict, ledger, LedgerInv, Ledger, Judging
<1>40. ASSUME DropRequests PROVE LedgerInv'
  BY <1>40 DEF DropRequests, runnerSide, runner, verdict, ledger, LedgerInv, Ledger, Judging
<1>41. ASSUME NEW v \in Payloads, ServeMessage(v) PROVE LedgerInv'
  BY <1>41 DEF ServeMessage, Serve, runnerSide, runner, verdict, ledger, LedgerInv, Ledger,
     Judging
<1>42. ASSUME ServeTrailers PROVE LedgerInv'
  BY <1>42 DEF ServeTrailers, Serve, runnerSide, runner, verdict, ledger, LedgerInv, Ledger,
     Judging
<1>43. ASSUME ServeEnd PROVE LedgerInv'
  BY <1>43 DEF ServeEnd, Serve, runnerSide, runner, verdict, ledger, LedgerInv, Ledger,
     Judging
<1>44. ASSUME NEW code \in Codes, ServeError(code) PROVE LedgerInv'
  BY <1>44 DEF ServeError, Serve, runnerSide, runner, verdict, ledger, LedgerInv, Ledger,
     Judging
<1>45. CASE UNCHANGED vars
  BY <1>45 DEF vars, runner, verdict, ledger, LedgerInv, Ledger, Judging
<1> QED
  BY <1>1, <1>2, <1>3, <1>4, <1>5, <1>6, <1>7, <1>8, <1>9, <1>10, <1>11, <1>12, <1>13, <1>14,
     <1>15, <1>16, <1>17, <1>18, <1>19, <1>20, <1>21, <1>22, <1>23, <1>24, <1>25, <1>26, <1>27,
     <1>28, <1>29, <1>30, <1>31, <1>32, <1>33, <1>34, <1>35, <1>36, <1>37, <1>38, <1>39, <1>40,
     <1>41, <1>42, <1>43, <1>44, <1>45 DEF Next, RunnerStep, RequestSteps, ReaderSteps,
     ResponseSteps, AssertsSteps, ErrorSteps, FinishSteps, CallStep, ServerStep, Done

\* In every run of run_one that ends in a clean pass, each expectation the runner
\* came to was compared and held: none is lost between deferring, reading,
\* repeating, retrying and attaching.
THEOREM EveryCheckHeldCorrect == Spec => []EveryCheckHeld
<1>1. TypeInv /\ LedgerInv => EveryCheckHeld
  BY DEF EveryCheckHeld, CleanPass, Finished, TypeInv, TypeOK, LedgerInv, Ledger, Held
<1>2. TypeInv /\ LedgerInv /\ [Next]_vars => (TypeInv /\ LedgerInv)'
  BY TypeNext, LedgerNext
<1> QED
  BY TypeInit, LedgerInit, <1>1, <1>2, PTL DEF Spec

\* The positions at which sections are still being run.
Walking == {"start", "section", "exec", "await", "ready", "read", "drain", "attach"}

\* Once closed, the request stream has no REQUEST left to serve.
RequestsInv ==
    ~tx_open /\ pc \in Walking => \A k \in DOMAIN doc : k >= i => doc[k].type # "REQUEST"

\* A step that leaves tx alone and walks on through the sections keeps it.
LEMMA RequestsKept ==
    ASSUME TypeInv, RequestsInv, UNCHANGED <<doc, tx_open>>, i' = i \/ i' = i + 1,
           pc \in Walking \/ pc' \notin Walking
    PROVE  RequestsInv'
<1>1. i \in Nat /\ DOMAIN doc \subseteq Nat
  BY DocsAssumption, LenProperties DEF TypeInv, TypeOK, RunnerTypeOK
<1> QED
  BY <1>1 DEF RequestsInv

\* Every step of the runner, the call and the server keeps it.
LEMMA RequestsNext == TypeInv /\ RequestsInv /\ [Next]_vars => RequestsInv'
<1> SUFFICES ASSUME TypeInv, RequestsInv, [Next]_vars PROVE RequestsInv'
  OBVIOUS
<1> USE DEF Walking, NextIteration, NextSection, Goto, runner, channel
<1>1. CASE Start
  <2>1. CASE HasType(doc, "REQUEST")
    BY <1>1, <2>1, RequestsKept DEF Start
  <2>2. CASE ~HasType(doc, "REQUEST")
    BY <1>1, <2>2 DEF Start, RequestsInv, HasType
  <2> QED
    BY <2>1, <2>2
<1>2. CASE SkipSection \/ EnterSection \/ Extract
  BY <1>2, RequestsKept DEF SkipSection, EnterSection, Extract
<1>3. CASE UnresolvedRequest \/ FinishSections
  BY <1>3 DEF UnresolvedRequest, FinishSections, RequestsInv
<1>4. CASE SendRequest \/ SendFails \/ RequestSent
  BY <1>4, RequestsKept DEF SendRequest, SendFails, RequestSent, Sending
<1>5. CASE EnterReader
  <2>1. /\ pc' \in Walking /\ i' = i /\ doc' = doc /\ pc = "exec" /\ Section.type # "REQUEST"
        /\ tx_open' = (tx_open /\ MoreRequests(doc, i))
    BY <1>5 DEF EnterReader, Reading, CloseRequests
  <2>2. i \in Nat /\ DOMAIN doc \subseteq Nat
    BY DocsAssumption, LenProperties DEF TypeInv, TypeOK, RunnerTypeOK
  <2>3. CASE tx_open /\ ~MoreRequests(doc, i)
    <3>1. ASSUME NEW k \in DOMAIN doc, k >= i PROVE doc[k].type # "REQUEST"
      BY <2>1, <2>2, <2>3, <3>1 DEF MoreRequests, Section
    <3> QED
      BY <2>1, <3>1 DEF RequestsInv
  <2>4. CASE ~tx_open \/ MoreRequests(doc, i)
    BY <2>1, <2>4 DEF RequestsInv
  <2> QED
    BY <2>3, <2>4
<1>6. CASE DeferResponse \/ StreamReady \/ StreamStartFails \/ NoStream
  BY <1>6, RequestsKept DEF DeferResponse, Reading, StreamReady, StreamStartFails, NoStream
<1>7. CASE ResponseSteps
  BY <1>7, RequestsKept DEF ResponseSteps, StartResponse, Expecting, ResponseMessage, ResponseEnds,
     ResponseTimeout, ResponseComplete, DrainMessage, DrainEnds, AttachResponse
<1>8. CASE AssertsSteps
  BY <1>8, RequestsKept DEF AssertsSteps, Asserting, AssertOnError, AssertWithoutStream,
     AssertOnItem, AssertAtEnd, AssertTimeout
<1>9. CASE ErrorSteps
  BY <1>9, RequestsKept DEF ErrorSteps, ExpectingError, ErrorAtStart, ErrorReceived,
     ErrorNotReceived, ErrorTimeout
<1>10. CASE FinalAwait \/ FinalDrain \/ FinalDrainEnds \/ GiveVerdict
  BY <1>10 DEF FinalAwait, FinalDrain, FinalDrainEnds, GiveVerdict, RequestsInv
<1>11. CASE CallStep
  BY <1>11 DEF CallStep, PullRequest, CallSucceeds, HeadersArrive, DropRequests, CallFails,
     runnerSide, RequestsInv
<1>12. CASE ServerStep
  BY <1>12 DEF ServerStep, ServeMessage, ServeTrailers, ServeEnd, ServeError, Serve,
     runnerSide, RequestsInv
<1>13. CASE UNCHANGED vars
  BY <1>13 DEF vars, RequestsInv
<1> QED
  BY <1>1, <1>2, <1>3, <1>4, <1>5, <1>6, <1>7, <1>8, <1>9, <1>10, <1>11, <1>12, <1>13
  DEF Next, RunnerStep, RequestSteps, ReaderSteps, FinishSteps, Done

\* In every run of run_one no REQUEST finds the request stream closed, however
\* sections are skipped, repeated or deferred: the branch that reports it
\* (runner.rs:1362) is never taken.
THEOREM RequestsOpenCorrect == Spec => []RequestsOpenWhileSending
<1>1. Init => RequestsInv
  BY DEF Init, RequestsInv
<1>2. TypeInv /\ RequestsInv => RequestsOpenWhileSending
  <2> SUFFICES ASSUME TypeInv, RequestsInv, Sending PROVE tx_open
    BY DEF RequestsOpenWhileSending
  <2>1. i \in DOMAIN doc /\ i \in Nat /\ pc \in Walking
    BY DEF TypeInv, TypeOK, RunnerTypeOK, InSection, Sending, Walking
  <2> QED
    BY <2>1 DEF RequestsInv, Sending, Section
<1>3. TypeInv /\ RequestsInv /\ [Next]_vars => (TypeInv /\ RequestsInv)'
  BY TypeNext, RequestsNext
<1> QED
  BY TypeInit, <1>1, <1>2, <1>3, PTL DEF Spec

-----------------------------------------------------------------------------
(* After a read has timed out.                                             *)

\* Once a read has timed out and while sections are still run, there is no
\* stream and no call left to await one from.
StreamInv ==
    /\ stream => ~handle /\ call = "ok"
    /\ pc = "await" => handle
    /\ "timeout" \in failure_reasons /\ pc \in Walking => ~stream /\ ~handle

\* Every step of the runner, the call and the server keeps it.
LEMMA StreamNext == TypeInv /\ StreamInv /\ [Next]_vars => StreamInv'
<1> SUFFICES ASSUME TypeInv, StreamInv, [Next]_vars PROVE StreamInv'
  OBVIOUS
<1> USE DEF StreamInv, Walking
<1>1. ASSUME Start PROVE StreamInv'
  <2>1. failure_reasons' \subseteq failure_reasons \cup {"implicit request"}
    BY <1>1 DEF Start, Failed
  <2> QED
    BY <1>1, <2>1 DEF Start, callVars
<1>2. ASSUME SkipSection PROVE StreamInv'
  BY <1>2 DEF SkipSection, NextSection, channel, callVars, server, ledger
<1>3. ASSUME EnterSection PROVE StreamInv'
  BY <1>3 DEF EnterSection, channel, callVars, server, verdict, ledger
<1>4. ASSUME UnresolvedRequest PROVE StreamInv'
  BY <1>4 DEF UnresolvedRequest, Sending, Goto, callVars, server, ledger
<1>5. ASSUME SendRequest PROVE StreamInv'
  BY <1>5 DEF SendRequest, Sending, callVars, server, ledger
<1>6. ASSUME SendFails PROVE StreamInv'
  <2>1. failure_reasons' \subseteq failure_reasons \cup {"request not sent"}
    BY <1>6 DEF SendFails, Failed
  <2> QED
    BY <1>6, <2>1 DEF SendFails, Sending, callVars
<1>7. ASSUME RequestSent PROVE StreamInv'
  BY <1>7 DEF RequestSent, Sending, NextIteration, NextSection, channel, callVars, server,
     verdict, ledger
<1>8. ASSUME DeferResponse PROVE StreamInv'
  BY <1>8 DEF DeferResponse, Reading, NextIteration, NextSection, channel, callVars, server
<1>9. ASSUME EnterReader PROVE StreamInv'
  BY <1>9 DEF EnterReader, Reading, Goto, callVars, server, verdict, ledger
<1>10. ASSUME StreamReady PROVE StreamInv'
  BY <1>10 DEF StreamReady, Goto, channel, server, verdict, ledger
<1>11. ASSUME StreamStartFails PROVE StreamInv'
  BY <1>11 DEF StreamStartFails, Failed, NextSection, channel, server, ledger
<1>12. ASSUME NoStream PROVE StreamInv'
  BY <1>12 DEF NoStream, Failed, NextSection, channel, callVars, server, ledger
<1>13. ASSUME StartResponse PROVE StreamInv'
  BY <1>13 DEF StartResponse, channel, callVars, server
<1>14. ASSUME ResponseMessage PROVE StreamInv'
  BY <1>14 DEF ResponseMessage, Expecting, Failed, channel, callVars
<1>15. ASSUME ResponseEnds PROVE StreamInv'
  BY <1>15 DEF ResponseEnds, Expecting, server, FailedIfJudging, Failed, channel, callVars,
     ledger
<1>16. ASSUME ResponseTimeout PROVE StreamInv'
  BY <1>16 DEF ResponseTimeout, Expecting, Stalled, Failed, channel, server, ledger
<1>17. ASSUME ResponseComplete PROVE StreamInv'
  BY <1>17 DEF ResponseComplete, Goto, channel, callVars, server, verdict, ledger
<1>18. ASSUME DrainMessage PROVE StreamInv'
  BY <1>18 DEF DrainMessage, runner, channel, callVars, ledger
<1>19. ASSUME DrainEnds PROVE StreamInv'
  BY <1>19 DEF DrainEnds, server, Stalled, Goto, channel, callVars, verdict, ledger
<1>20. ASSUME AttachResponse PROVE StreamInv'
  <2>1. failure_reasons' \subseteq failure_reasons \cup {"assertion", "no attached ASSERTS"}
    BY <1>20 DEF AttachResponse, Judge, Failed
  <2> QED
    BY <1>20, <2>1 DEF AttachResponse, NextIteration, NextSection, callVars
<1>21. ASSUME AssertOnError PROVE StreamInv'
  BY <1>21 DEF AssertOnError, Asserting, Judge, Failed, NextIteration, NextSection, channel,
     callVars, server
<1>22. ASSUME AssertWithoutStream PROVE StreamInv'
  BY <1>22 DEF AssertWithoutStream, Asserting, FailedIfJudging, Failed, NextIteration,
     NextSection, channel, callVars, server, ledger
<1>23. ASSUME AssertOnItem PROVE StreamInv'
  BY <1>23 DEF AssertOnItem, Asserting, Judge, Failed, NextIteration, NextSection, channel,
     callVars
<1>24. ASSUME AssertAtEnd PROVE StreamInv'
  BY <1>24 DEF AssertAtEnd, Asserting, FailedIfJudging, Failed, NextIteration, NextSection,
     channel, callVars, server, ledger
<1>25. ASSUME AssertTimeout PROVE StreamInv'
  BY <1>25 DEF AssertTimeout, Asserting, Stalled, Failed, NextIteration, NextSection,
     channel, server, ledger
<1>26. ASSUME Extract PROVE StreamInv'
  BY <1>26 DEF Extract, Failed, NextIteration, NextSection, channel, callVars, server,
     ledger
<1>27. ASSUME ErrorAtStart PROVE StreamInv'
  BY <1>27 DEF ErrorAtStart, JudgeError, Failed, NextIteration, NextSection, channel, server
<1>28. ASSUME ErrorReceived PROVE StreamInv'
  BY <1>28 DEF ErrorReceived, ExpectingError, JudgeError, Failed, NextIteration,
     NextSection, channel, callVars
<1>29. ASSUME ErrorNotReceived PROVE StreamInv'
  BY <1>29 DEF ErrorNotReceived, ExpectingError, server, FailedIfJudging, Failed,
     NextIteration, NextSection, channel, callVars, ledger
<1>30. ASSUME ErrorTimeout PROVE StreamInv'
  BY <1>30 DEF ErrorTimeout, ExpectingError, Stalled, Failed, NextSection, channel, server,
     ledger
<1>31. ASSUME FinishSections PROVE StreamInv'
  BY <1>31 DEF FinishSections, Goto, callVars, server, verdict, ledger
<1>32. ASSUME FinalAwait PROVE StreamInv'
  BY <1>32 DEF FinalAwait, Failed, Goto, channel, server, ledger
<1>33. ASSUME FinalDrain PROVE StreamInv'
  BY <1>33 DEF FinalDrain, runner, channel, callVars, ledger
<1>34. ASSUME FinalDrainEnds PROVE StreamInv'
  BY <1>34 DEF FinalDrainEnds, Stalled, Failed, Goto, channel, callVars, server, ledger
<1>35. ASSUME GiveVerdict PROVE StreamInv'
  BY <1>35 DEF GiveVerdict, Goto, channel, callVars, server, ledger
<1>36. ASSUME PullRequest PROVE StreamInv'
  BY <1>36 DEF PullRequest, runnerSide, runner, verdict, ledger, callVars, server
<1>37. ASSUME NEW code \in Codes \cup {NoStatus}, CallFails(code) PROVE StreamInv'
  BY <1>37 DEF CallFails, runnerSide, runner, verdict, ledger
<1>38. ASSUME HeadersArrive PROVE StreamInv'
  BY <1>38 DEF HeadersArrive, runnerSide, runner, verdict, ledger, channel, server
<1>39. ASSUME CallSucceeds PROVE StreamInv'
  BY <1>39 DEF CallSucceeds, runnerSide, runner, verdict, ledger
<1>40. ASSUME DropRequests PROVE StreamInv'
  BY <1>40 DEF DropRequests, runnerSide, runner, verdict, ledger, callVars, server
<1>41. ASSUME NEW v \in Payloads, ServeMessage(v) PROVE StreamInv'
  BY <1>41 DEF ServeMessage, Serve, runnerSide, runner, verdict, ledger, channel, callVars
<1>42. ASSUME ServeTrailers PROVE StreamInv'
  BY <1>42 DEF ServeTrailers, Serve, runnerSide, runner, verdict, ledger, channel, callVars
<1>43. ASSUME ServeEnd PROVE StreamInv'
  BY <1>43 DEF ServeEnd, Serve, runnerSide, runner, verdict, ledger, channel, callVars
<1>44. ASSUME NEW code \in Codes, ServeError(code) PROVE StreamInv'
  BY <1>44 DEF ServeError, Serve, runnerSide, runner, verdict, ledger, channel, callVars
<1>45. CASE UNCHANGED vars
  BY <1>45 DEF vars, runner, channel, callVars, server, verdict, ledger
<1> QED
  BY <1>1, <1>2, <1>3, <1>4, <1>5, <1>6, <1>7, <1>8, <1>9, <1>10, <1>11, <1>12, <1>13,
     <1>14, <1>15, <1>16, <1>17, <1>18, <1>19, <1>20, <1>21, <1>22, <1>23, <1>24, <1>25,
     <1>26, <1>27, <1>28, <1>29, <1>30, <1>31, <1>32, <1>33, <1>34, <1>35, <1>36, <1>37,
     <1>38, <1>39, <1>40, <1>41, <1>42, <1>43, <1>44, <1>45 DEF Next, RunnerStep,
     RequestSteps, ReaderSteps, ResponseSteps, AssertsSteps, ErrorSteps, FinishSteps,
     CallStep, ServerStep, Done

\* Only awaiting the call gives the runner a stream.
LEMMA StreamComesOfAwaiting ==
    ASSUME Next, ~stream, pc \notin {"await", "final await"}
    PROVE  ~stream'
<1> USE DEF callVars
<1>1. CASE Start \/ SkipSection \/ EnterSection \/ Extract
  BY <1>1 DEF Start, SkipSection, EnterSection, Extract
<1>2. CASE RequestSteps
  BY <1>2 DEF RequestSteps, UnresolvedRequest, SendRequest, SendFails, RequestSent
<1>3. CASE ReaderSteps
  BY <1>3 DEF ReaderSteps, DeferResponse, EnterReader, NoStream, StreamReady, StreamStartFails
<1>4. CASE ResponseSteps
  BY <1>4 DEF ResponseSteps, StartResponse, ResponseMessage, ResponseEnds, ResponseTimeout,
     ResponseComplete, DrainMessage, DrainEnds, AttachResponse
<1>5. CASE AssertsSteps
  BY <1>5 DEF AssertsSteps, AssertOnError, AssertWithoutStream, AssertOnItem, AssertAtEnd,
     AssertTimeout
<1>6. CASE ErrorSteps
  BY <1>6 DEF ErrorSteps, ErrorAtStart, ErrorReceived, ErrorNotReceived, ErrorTimeout
<1>7. CASE FinishSteps
  BY <1>7 DEF FinishSteps, FinishSections, FinalAwait, FinalDrain, FinalDrainEnds, GiveVerdict
<1>8. CASE CallStep
  BY <1>8 DEF CallStep, PullRequest, CallSucceeds, HeadersArrive, DropRequests, CallFails
<1>9. CASE ServerStep
  BY <1>9 DEF ServerStep, ServeMessage, ServeTrailers, ServeEnd, ServeError, Serve
<1>10. CASE Done
  BY <1>10 DEF Done, vars
<1> QED
  BY <1>1, <1>2, <1>3, <1>4, <1>5, <1>6, <1>7, <1>8, <1>9, <1>10 DEF Next, RunnerStep

\* In every run of run_one, once a read has timed out no later section reads a
\* stream again: each fails at once instead of waiting out its own timeout.
THEOREM FailFastCorrect == Spec => FailFastAfterTimeout
<1>1. Init => StreamInv
  BY DEF Init, StreamInv
<1>2. TypeInv /\ StreamInv /\ [Next]_vars => (TypeInv /\ StreamInv)'
  BY TypeNext, StreamNext
<1>3. TypeInv /\ StreamInv /\ [Next]_vars
        => [pc \notin {"final await", "final drain", "verdict", "done"}
              /\ "timeout" \in failure_reasons => ~stream']_vars
  <2> SUFFICES ASSUME TypeInv, StreamInv, Next,
                      pc \notin {"final await", "final drain", "verdict", "done"},
                      "timeout" \in failure_reasons
               PROVE  ~stream'
    BY DEF vars, callVars, runner, verdict
  <2>1. pc \in Walking
    BY DEF TypeInv, TypeOK, RunnerTypeOK, Labels, Walking
  <2>2. ~stream /\ ~handle /\ pc # "await" /\ pc # "final await"
    BY <2>1 DEF StreamInv
  <2> QED
    BY <2>2, StreamComesOfAwaiting
<1> QED
  BY TypeInit, <1>1, <1>2, <1>3, PTL DEF Spec, FailFastAfterTimeout

-----------------------------------------------------------------------------
(* What the capture, the wire and the server's messages have in common.    *)

\* What the wire has still to deliver are the messages the server sent after the first
\* m, and no others.
Outstanding(m) ==
    LET left == Len(served) - m
    IN  /\ left \in 0..Len(wire)
        /\ ~ended => Len(wire) = left
        /\ \A k \in DOMAIN wire :
              IF k <= left THEN wire[k].kind = "msg" /\ wire[k].val = served[m + k]
                           ELSE wire[k].kind # "msg"

\* The capture has the messages the wire has not to deliver any more.
Unread ==
    LET got_messages == captured.messages
    IN  /\ Outstanding(Len(got_messages))
        /\ \A k \in DOMAIN got_messages : got_messages[k] = served[k]

\* The counts and sequences Unread speaks of.
LEMMA UnreadTypes ==
    ASSUME TypeInv
    PROVE  /\ captured.messages \in Seq(Payloads) /\ served \in Seq(Payloads) /\ wire \in Seq(Item)
           /\ Len(captured.messages) \in Nat /\ Len(served) \in Nat /\ Len(wire) \in Nat
           /\ DOMAIN captured.messages = 1..Len(captured.messages)
           /\ DOMAIN served = 1..Len(served) /\ DOMAIN wire = 1..Len(wire)
  BY LenProperties DEF TypeInv, TypeOK, ServerTypeOK, VerdictTypeOK

\* What a sequence is once an element is appended to it.
LEMMA AppendFacts ==
    ASSUME NEW S, NEW s \in Seq(S), NEW e \in S
    PROVE  /\ Len(Append(s, e)) = Len(s) + 1 /\ DOMAIN Append(s, e) = 1..(Len(s) + 1)
           /\ Append(s, e)[Len(s) + 1] = e
           /\ \A k \in 1..Len(s) : Append(s, e)[k] = s[k]
           /\ s \o <<e>> = Append(s, e)
  BY AppendProperties, LenProperties

\* Whoever takes a message off the wire takes the next one the server sent.
LEMMA OutstandingTake ==
    ASSUME TypeInv, NEW n \in Nat, Outstanding(n), wire # <<>>, Head(wire).kind = "msg", Consume
    PROVE  /\ n + 1 <= Len(served) /\ Head(wire).val = served[n + 1]
           /\ Outstanding(n + 1)'
<1> DEFINE m == Len(served)
           w == Len(wire)
<1>1. m \in Nat /\ w \in Nat /\ DOMAIN wire = 1..w /\ wire \in Seq(Item)
  BY UnreadTypes
<1> HIDE DEF m, w
<1>2. /\ wire' = Tail(wire) /\ served' = served /\ ended' = ended
      /\ w >= 1 /\ Len(wire') = w - 1 /\ DOMAIN wire' = 1..(w - 1)
      /\ \A k \in 1..(w - 1) : wire'[k] = wire[k + 1]
      /\ Head(wire) = wire[1]
  BY <1>1, HeadTailProperties, EmptySeq, LenProperties DEF Consume, m, w
<1>3. m - n \in 1..w /\ wire[1].val = served[n + 1]
  <2>1. 1 \in DOMAIN wire
    BY <1>1, <1>2
  <2>2. 1 <= m - n
    BY <1>1, <1>2, <2>1 DEF Outstanding, m, w
  <2> QED
    BY <1>1, <2>1, <2>2 DEF Outstanding, m, w
<1>4. (m - (n + 1)) \in 0..(w - 1) /\ (~ended => w - 1 = m - (n + 1))
  BY <1>1, <1>2, <1>3 DEF Outstanding, m, w
<1>5. ASSUME NEW k \in 1..(w - 1)
      PROVE  IF k <= m - (n + 1)
             THEN wire'[k].kind = "msg" /\ wire'[k].val = served[(n + 1) + k]
             ELSE wire'[k].kind # "msg"
  <2>1. k + 1 \in DOMAIN wire /\ (k <= m - (n + 1) <=> k + 1 <= m - n) /\ (n + 1) + k = n + (k + 1)
    BY <1>1, <1>2
  <2>2. IF k + 1 <= m - n
        THEN wire[k + 1].kind = "msg" /\ wire[k + 1].val = served[n + (k + 1)]
        ELSE wire[k + 1].kind # "msg"
    BY <2>1 DEF Outstanding, m, w
  <2> QED
    BY <1>2, <2>1, <2>2
<1>6. Outstanding(n + 1)'
  BY <1>2, <1>4, <1>5 DEF Outstanding, m, w
<1>7. n + 1 <= m
  BY <1>1, <1>3
<1> QED
  BY <1>2, <1>3, <1>6, <1>7 DEF m

\* Behind the trailers or an error there is no message.
LEMMA OutstandingSkip ==
    ASSUME TypeInv, NEW n \in Nat, Outstanding(n), wire # <<>>, Head(wire).kind # "msg"
    PROVE  ended /\ n = Len(served) /\ (Consume => Outstanding(n)')
<1> DEFINE m == Len(served)
           w == Len(wire)
<1>1. m \in Nat /\ w \in Nat /\ DOMAIN wire = 1..w /\ wire \in Seq(Item)
  BY UnreadTypes
<1> HIDE DEF m, w
<1>2. w >= 1 /\ Head(wire) = wire[1]
  BY <1>1, HeadTailProperties, EmptySeq, LenProperties DEF m, w
<1>3. m - n = 0
  <2>1. 1 \in DOMAIN wire
    BY <1>1, <1>2
  <2>2. ~(1 <= m - n)
    BY <1>2, <2>1 DEF Outstanding, m, w
  <2> QED
    BY <1>1, <2>2 DEF Outstanding, m, w
<1>4. ended
  BY <1>1, <1>2, <1>3 DEF Outstanding, m, w
<1>5. ASSUME Consume PROVE Outstanding(n)'
  <2>1. /\ wire' = Tail(wire) /\ served' = served /\ ended' = ended
        /\ Len(wire') = w - 1 /\ DOMAIN wire' = 1..(w - 1)
        /\ \A k \in 1..(w - 1) : wire'[k] = wire[k + 1]
    BY <1>1, <1>5, HeadTailProperties, EmptySeq, LenProperties DEF Consume, m, w
  <2>2. ASSUME NEW k \in 1..(w - 1) PROVE wire'[k].kind # "msg" /\ ~(k <= m - n)
    <3>1. k + 1 \in DOMAIN wire /\ ~(k + 1 <= m - n) /\ ~(k <= m - n)
      BY <1>1, <1>2, <1>3
    <3> QED
      BY <2>1, <3>1 DEF Outstanding, m, w
  <2> QED
    BY <1>1, <1>2, <1>3, <1>4, <2>1, <2>2 DEF Outstanding, m, w
<1> QED
  BY <1>1, <1>3, <1>4, <1>5 DEF m

\* A message of the server is one more to deliver.
LEMMA OutstandingServed ==
    ASSUME TypeInv, NEW n \in Nat, Outstanding(n), ~ended, NEW v \in Payloads,
           served' = Append(served, v), wire' = Append(wire, [kind |-> "msg", val |-> v]), ended' = FALSE
    PROVE  Outstanding(n)'
<1> DEFINE m == Len(served)
           w == Len(wire)
           item == [kind |-> "msg", val |-> v]
<1>1. /\ m \in Nat /\ w \in Nat /\ DOMAIN wire = 1..w /\ DOMAIN served = 1..m
      /\ wire \in Seq(Item) /\ served \in Seq(Payloads)
  BY UnreadTypes
<1> HIDE DEF m, w, item
<1>2. item \in Item /\ item.kind = "msg" /\ item.val = v
  BY DEF Item, item
<1>3. /\ Len(wire') = w + 1 /\ DOMAIN wire' = 1..(w + 1) /\ wire'[w + 1] = item
      /\ \A k \in 1..w : wire'[k] = wire[k]
  BY <1>1, <1>2, AppendFacts DEF w, item
<1>4. /\ Len(served') = m + 1 /\ served'[m + 1] = v /\ \A k \in 1..m : served'[k] = served[k]
  BY <1>1, AppendProperties, LenProperties DEF m
<1>5. w = m - n /\ n <= m
  <2>1. w = m - n /\ m - n \in 0..w
    BY DEF Outstanding, m, w
  <2> QED
    BY <1>1, <2>1
<1>6. ASSUME NEW k \in 1..(w + 1)
      PROVE  k <= (m + 1) - n /\ wire'[k].kind = "msg" /\ wire'[k].val = served'[n + k]
  <2>1. CASE k \in 1..w
    <3>1. k \in DOMAIN wire /\ k <= m - n /\ n + k \in 1..m
      BY <1>1, <1>5, <2>1
    <3>2. wire[k].kind = "msg" /\ wire[k].val = served[n + k]
      BY <3>1 DEF Outstanding, m, w
    <3> QED
      BY <1>1, <1>3, <1>4, <1>5, <2>1, <3>1, <3>2
  <2>2. CASE k = w + 1
    BY <1>1, <1>2, <1>3, <1>4, <1>5, <2>2
  <2>3. k \in 1..w \/ k = w + 1
    BY <1>1
  <2> QED
    BY <2>1, <2>2, <2>3
<1>7. (m + 1) - n \in 0..(w + 1) /\ w + 1 = (m + 1) - n
  BY <1>1, <1>5
<1> QED
  BY <1>1, <1>3, <1>4, <1>6, <1>7 DEF Outstanding, m, w, item

\* The trailers or the status of the server end the stream behind its messages.
LEMMA OutstandingEnded ==
    ASSUME TypeInv, NEW n \in Nat, Outstanding(n), ~ended, served' = served, ended' = TRUE,
           NEW item \in Item, item.kind # "msg", wire' = Append(wire, item) \/ wire' = wire
    PROVE  Outstanding(n)'
<1> DEFINE m == Len(served)
           w == Len(wire)
<1>1. m \in Nat /\ w \in Nat /\ DOMAIN wire = 1..w /\ wire \in Seq(Item)
  BY UnreadTypes
<1> HIDE DEF m, w
<1>2. CASE wire' = wire
  BY <1>2 DEF Outstanding, m, w
<1>3. CASE wire' = Append(wire, item)
  <2>1. /\ Len(wire') = w + 1 /\ DOMAIN wire' = 1..(w + 1) /\ wire'[w + 1] = item
        /\ \A k \in 1..w : wire'[k] = wire[k]
    BY <1>1, <1>3, AppendProperties, LenProperties DEF w
  <2>2. w = m - n /\ n <= m
    BY <1>1 DEF Outstanding, m, w
  <2>3. ASSUME NEW k \in 1..(w + 1)
        PROVE  IF k <= m - n THEN wire'[k].kind = "msg" /\ wire'[k].val = served[n + k]
                             ELSE wire'[k].kind # "msg"
    <3>1. CASE k \in 1..w
      <4>1. k \in DOMAIN wire /\ k <= m - n
        BY <1>1, <2>2, <3>1
      <4>2. wire[k].kind = "msg" /\ wire[k].val = served[n + k]
        BY <4>1 DEF Outstanding, m, w
      <4> QED
        BY <2>1, <3>1, <4>1, <4>2
    <3>2. CASE k = w + 1
      BY <1>1, <2>1, <2>2, <3>2
    <3> QED
      BY <1>1, <3>1, <3>2
  <2>4. m - n \in 0..(w + 1)
    BY <1>1, <2>2
  <2> QED
    BY <2>1, <2>3, <2>4 DEF Outstanding, m, w
<1> QED
  BY <1>2, <1>3

\* Taking a message off the wire and into the capture leaves the rest unread.
LEMMA UnreadTake ==
    ASSUME TypeInv, Unread, wire # <<>>, Head(wire).kind = "msg", Consume,
           captured'.messages = captured.messages \o <<Head(wire).val>>
    PROVE  Unread'
<1>0. SUFFICES ASSUME NEW n \in Nat, n = Len(captured.messages), NEW c, c = captured.messages
               PROVE  Unread'
  BY UnreadTypes
<1>1. DOMAIN c = 1..n /\ c \in Seq(Payloads) /\ Head(wire).val \in Payloads
  BY <1>0, UnreadTypes, ItemType DEF TypeInv
<1>2. Outstanding(n) /\ \A k \in 1..n : c[k] = served[k]
  BY <1>0, <1>1 DEF Unread
<1>3. Head(wire).val = served[n + 1] /\ Outstanding(n + 1)' /\ served' = served
  BY <1>2, OutstandingTake DEF Consume
<1>4. captured'.messages = Append(c, Head(wire).val)
  BY <1>0, <1>1, AppendFacts
<1>5. /\ Len(Append(c, Head(wire).val)) = n + 1 /\ DOMAIN Append(c, Head(wire).val) = 1..(n + 1)
      /\ \A k \in 1..n : Append(c, Head(wire).val)[k] = c[k]
      /\ Append(c, Head(wire).val)[n + 1] = Head(wire).val
  BY <1>0, <1>1, AppendFacts
<1>6. \A k \in 1..(n + 1) : captured'.messages[k] = served[k]
  <2>1. \A k \in 1..(n + 1) : k \in 1..n \/ k = n + 1
    OBVIOUS
  <2> QED
    BY <1>2, <1>3, <1>4, <1>5, <2>1
<1> QED
  BY <1>3, <1>4, <1>5, <1>6 DEF Unread, Outstanding

\* So does taking the trailers or an error off it.
LEMMA UnreadSkip ==
    ASSUME TypeInv, Unread, wire # <<>>, Head(wire).kind # "msg", Consume,
           captured'.messages = captured.messages
    PROVE  Unread'
<1>1. SUFFICES ASSUME NEW n \in Nat, n = Len(captured.messages) PROVE Unread'
  BY UnreadTypes
<1>2. Outstanding(n) /\ \A k \in DOMAIN captured.messages : captured.messages[k] = served[k]
  BY <1>1 DEF Unread
<1>3. Outstanding(n)'
  BY <1>2, OutstandingSkip
<1> QED
  BY <1>1, <1>2, <1>3 DEF Unread, Consume, Outstanding

\* So does a message of the server,
LEMMA UnreadServed ==
    ASSUME TypeInv, Unread, ~ended, NEW v \in Payloads, UNCHANGED captured,
           served' = Append(served, v), wire' = Append(wire, [kind |-> "msg", val |-> v]), ended' = FALSE
    PROVE  Unread'
<1>0. SUFFICES ASSUME NEW n \in Nat, n = Len(captured.messages) PROVE Unread'
  BY UnreadTypes
<1>1. /\ DOMAIN captured.messages = 1..n /\ served \in Seq(Payloads)
      /\ Len(served) \in Nat /\ Len(wire) \in Nat
  BY <1>0, UnreadTypes
<1>2. Outstanding(n) /\ \A k \in 1..n : captured.messages[k] = served[k]
  BY <1>0, <1>1 DEF Unread
<1>3. n <= Len(served)
  BY <1>1, <1>2 DEF Outstanding
<1>4. \A k \in 1..Len(served) : served'[k] = served[k]
  BY <1>1, AppendProperties
<1>5. Outstanding(n)'
  BY <1>2, OutstandingServed
<1>6. \A k \in 1..n : captured.messages[k] = served'[k]
  BY <1>1, <1>2, <1>3, <1>4
<1> QED
  BY <1>0, <1>1, <1>5, <1>6 DEF Unread, Outstanding

\* and the end of its stream.
LEMMA UnreadEnded ==
    ASSUME TypeInv, Unread, ~ended, UNCHANGED <<captured, served>>, ended' = TRUE, NEW item \in Item,
           item.kind # "msg", wire' = Append(wire, item) \/ wire' = wire
    PROVE  Unread'
<1>1. SUFFICES ASSUME NEW n \in Nat, n = Len(captured.messages) PROVE Unread'
  BY UnreadTypes
<1>2. Outstanding(n) /\ \A k \in DOMAIN captured.messages : captured.messages[k] = served[k]
  BY <1>1 DEF Unread
<1>3. Outstanding(n)'
  BY <1>2, OutstandingEnded
<1> QED
  BY <1>1, <1>2, <1>3 DEF Unread, Consume, Outstanding

\* When the wire has been read to its end, the capture is what was sent.
LEMMA UnreadNothing ==
    ASSUME TypeInv, Unread, ended, wire = <<>>
    PROVE  captured.messages = served
<1> DEFINE c == captured.messages
<1>1. /\ Len(c) \in Nat /\ Len(served) \in Nat /\ c \in Seq(Payloads) /\ served \in Seq(Payloads)
      /\ DOMAIN c = 1..Len(c) /\ DOMAIN served = 1..Len(served)
  BY UnreadTypes
<1>2. Len(wire) = 0
  BY EmptySeq
<1>3. Len(c) = Len(served)
  BY <1>1, <1>2 DEF Unread, Outstanding
<1>4. \A k \in 1..Len(c) : c[k] = served[k]
  BY <1>1 DEF Unread
<1> QED
  BY <1>1, <1>3, <1>4, SeqEqual

\* The HTTP exchange ended in an error and its messages are gone (convert_result).
Lost == settings.http /\ ended /\ \E code \in Codes : wire = <<[kind |-> "err", val |-> code]>>

\* The runs whose capture is to be the whole answer.
Capturing ==
    /\ settings.capture /\ ~transport_failure /\ ~HasType(doc, "ERROR")
    /\ settings.http => ~captured.error /\ Contentful(doc)

Delivered == pc = "verdict" \/ (pc = "done" /\ result.response)

\* How far such a run has come: until the drains have emptied the wire, what is not
\* captured is still on it.
CaptureInv ==
    Capturing =>
        /\ stream \/ handle
        /\ pc = "final drain" \/ Delivered => stream
        /\ call = "err" \/ Unread \/ Lost
        /\ pc = "drain" \/ (pc = "read" /\ todo = <<>>) => Unread
        /\ Delivered => wire = <<>> /\ ended

\* What that rests on: an HTTP answer is whole once there is a stream, sections read
\* only from a stream, and only a capturing run has a response to give.
AnswerInv ==
    /\ call = "ok" /\ settings.http => ended
    /\ pc \in {"read", "drain"} => stream
    /\ pc = "start" => ~transport_failure
    /\ pc = "done" /\ result.response => settings.capture

SnapshotInv == TypeInv /\ StreamInv /\ AnswerInv /\ CaptureInv

\* Every step of the runner, the call and the server keeps it.
LEMMA AnswerNext == TypeInv /\ StreamInv /\ AnswerInv /\ [Next]_vars => AnswerInv'
<1> SUFFICES ASSUME TypeInv, StreamInv, AnswerInv, [Next]_vars PROVE AnswerInv'
  OBVIOUS
<1> USE DEF AnswerInv, StreamInv
<1>1. ASSUME Start PROVE AnswerInv'
  BY <1>1 DEF Start, callVars, server
<1>2. ASSUME SkipSection PROVE AnswerInv'
  BY <1>2 DEF SkipSection, NextSection, channel, callVars, server, ledger
<1>3. ASSUME EnterSection PROVE AnswerInv'
  BY <1>3 DEF EnterSection, channel, callVars, server, verdict, ledger
<1>4. ASSUME UnresolvedRequest PROVE AnswerInv'
  BY <1>4 DEF UnresolvedRequest, Sending, Goto, callVars, server, ledger
<1>5. ASSUME SendRequest PROVE AnswerInv'
  BY <1>5 DEF SendRequest, Sending, callVars, server, ledger
<1>6. ASSUME SendFails PROVE AnswerInv'
  BY <1>6 DEF SendFails, Sending, Failed, channel, callVars, server, ledger
<1>7. ASSUME RequestSent PROVE AnswerInv'
  BY <1>7 DEF RequestSent, Sending, NextIteration, NextSection, channel, callVars, server,
     verdict, ledger
<1>8. ASSUME DeferResponse PROVE AnswerInv'
  BY <1>8 DEF DeferResponse, Reading, NextIteration, NextSection, channel, callVars, server
<1>9. ASSUME EnterReader PROVE AnswerInv'
  BY <1>9 DEF EnterReader, Reading, Goto, callVars, server, verdict, ledger
<1>10. ASSUME StreamReady PROVE AnswerInv'
  BY <1>10 DEF StreamReady, Goto, channel, server, verdict, ledger
<1>11. ASSUME StreamStartFails PROVE AnswerInv'
  BY <1>11 DEF StreamStartFails, Failed, NextSection, channel, server, ledger
<1>12. ASSUME NoStream PROVE AnswerInv'
  BY <1>12 DEF NoStream, Failed, NextSection, channel, callVars, server, ledger
<1>13. ASSUME StartResponse PROVE AnswerInv'
  BY <1>13 DEF StartResponse, channel, callVars, server
<1>14. ASSUME ResponseMessage PROVE AnswerInv'
  BY <1>14 DEF ResponseMessage, Expecting, Consume, callVars
<1>15. ASSUME ResponseEnds PROVE AnswerInv'
  BY <1>15 DEF ResponseEnds, Expecting, Arrived, Exhausted, server, Consume,
     FailedIfJudging, Failed, channel, callVars, ledger
<1>16. ASSUME ResponseTimeout PROVE AnswerInv'
  BY <1>16 DEF ResponseTimeout, Expecting, Stalled, Failed, channel, server, ledger
<1>17. ASSUME ResponseComplete PROVE AnswerInv'
  BY <1>17 DEF ResponseComplete, Goto, channel, callVars, server, verdict, ledger
<1>18. ASSUME DrainMessage PROVE AnswerInv'
  BY <1>18 DEF DrainMessage, Arrived, Consume, runner, channel, callVars, ledger
<1>19. ASSUME DrainEnds PROVE AnswerInv'
  BY <1>19 DEF DrainEnds, Goto, Consume, callVars, server
<1>20. ASSUME AttachResponse PROVE AnswerInv'
  BY <1>20 DEF AttachResponse, Judge, Failed, ledger, NextIteration, NextSection, channel,
     callVars, server
<1>21. ASSUME AssertOnError PROVE AnswerInv'
  BY <1>21 DEF AssertOnError, Asserting, Judge, Failed, NextIteration, NextSection, channel,
     callVars, server
<1>22. ASSUME AssertWithoutStream PROVE AnswerInv'
  BY <1>22 DEF AssertWithoutStream, Asserting, FailedIfJudging, Failed, NextIteration,
     NextSection, channel, callVars, server, ledger
<1>23. ASSUME AssertOnItem PROVE AnswerInv'
  BY <1>23 DEF AssertOnItem, Asserting, Judge, Failed, Consume, NextIteration, NextSection,
     channel, callVars
<1>24. ASSUME AssertAtEnd PROVE AnswerInv'
  BY <1>24 DEF AssertAtEnd, Asserting, Exhausted, FailedIfJudging, Failed, NextIteration,
     NextSection, channel, callVars, server, ledger
<1>25. ASSUME AssertTimeout PROVE AnswerInv'
  BY <1>25 DEF AssertTimeout, Asserting, Stalled, Failed, NextIteration, NextSection,
     channel, server, ledger
<1>26. ASSUME Extract PROVE AnswerInv'
  BY <1>26 DEF Extract, Failed, NextIteration, NextSection, channel, callVars, server,
     ledger
<1>27. ASSUME ErrorAtStart PROVE AnswerInv'
  BY <1>27 DEF ErrorAtStart, JudgeError, Failed, NextIteration, NextSection, channel, server
<1>28. ASSUME ErrorReceived PROVE AnswerInv'
  BY <1>28 DEF ErrorReceived, ExpectingError, Arrived, JudgeError, Failed, Consume,
     NextIteration, NextSection, channel, callVars
<1>29. ASSUME ErrorNotReceived PROVE AnswerInv'
  <2>1. ended' = ended
    BY <1>29 DEF ErrorNotReceived, Consume, server
  <2> QED
    BY <1>29, <2>1 DEF ErrorNotReceived, ExpectingError, NextIteration, NextSection, callVars
<1>30. ASSUME ErrorTimeout PROVE AnswerInv'
  BY <1>30 DEF ErrorTimeout, ExpectingError, Stalled, Failed, NextSection, channel, server,
     ledger
<1>31. ASSUME FinishSections PROVE AnswerInv'
  BY <1>31 DEF FinishSections, Goto, callVars, server, verdict, ledger
<1>32. ASSUME FinalAwait PROVE AnswerInv'
  BY <1>32 DEF FinalAwait, Failed, Goto, channel, server, ledger
<1>33. ASSUME FinalDrain PROVE AnswerInv'
  BY <1>33 DEF FinalDrain, Arrived, Consume, runner, channel, callVars, ledger
<1>34. ASSUME FinalDrainEnds PROVE AnswerInv'
  BY <1>34 DEF FinalDrainEnds, Exhausted, Stalled, Failed, Goto, channel, callVars, server,
     ledger
<1>35. ASSUME GiveVerdict PROVE AnswerInv'
  <2>1. settings.write => settings.capture
    BY SettingsAssumption DEF TypeInv, TypeOK, RunnerTypeOK, RunSettings
  <2>2. TestExecutionResult.response => settings.capture
    BY <2>1 DEF TestExecutionResult
  <2> QED
    BY <1>35, <2>2 DEF GiveVerdict, Goto, callVars, server
<1>36. ASSUME PullRequest PROVE AnswerInv'
  BY <1>36 DEF PullRequest, runnerSide, runner, verdict, ledger, callVars, server
<1>37. ASSUME NEW code \in Codes \cup {NoStatus}, CallFails(code) PROVE AnswerInv'
  BY <1>37 DEF CallFails, runnerSide, runner, verdict, ledger
<1>38. ASSUME HeadersArrive PROVE AnswerInv'
  BY <1>38 DEF HeadersArrive, runnerSide, runner, verdict, ledger, channel, server
<1>39. ASSUME CallSucceeds PROVE AnswerInv'
  <2>1. settings.http => ended'
    BY <1>39 DEF CallSucceeds, WholeResponse
  <2> QED
    BY <1>39, <2>1 DEF CallSucceeds, runnerSide, runner, verdict
<1>40. ASSUME DropRequests PROVE AnswerInv'
  BY <1>40 DEF DropRequests, runnerSide, runner, verdict, ledger, callVars, server
<1>41. ASSUME NEW v \in Payloads, ServeMessage(v) PROVE AnswerInv'
  BY <1>41 DEF ServeMessage, Serving, Serve, runnerSide, runner, verdict, callVars
<1>42. ASSUME ServeTrailers PROVE AnswerInv'
  BY <1>42 DEF ServeTrailers, Serving, Serve, runnerSide, runner, verdict, callVars
<1>43. ASSUME ServeEnd PROVE AnswerInv'
  BY <1>43 DEF ServeEnd, Serving, Serve, runnerSide, runner, verdict, callVars
<1>44. ASSUME NEW code \in Codes, ServeError(code) PROVE AnswerInv'
  BY <1>44 DEF ServeError, Serving, Serve, runnerSide, runner, verdict, callVars
<1>45. CASE UNCHANGED vars
  BY <1>45 DEF vars, runner, channel, callVars, server, verdict, ledger
<1> QED
  BY <1>1, <1>2, <1>3, <1>4, <1>5, <1>6, <1>7, <1>8, <1>9, <1>10, <1>11, <1>12, <1>13,
     <1>14, <1>15, <1>16, <1>17, <1>18, <1>19, <1>20, <1>21, <1>22, <1>23, <1>24, <1>25,
     <1>26, <1>27, <1>28, <1>29, <1>30, <1>31, <1>32, <1>33, <1>34, <1>35, <1>36, <1>37,
     <1>38, <1>39, <1>40, <1>41, <1>42, <1>43, <1>44, <1>45 DEF Next, RunnerStep,
     RequestSteps, ReaderSteps, ResponseSteps, AssertsSteps, ErrorSteps, FinishSteps,
     CallStep, ServerStep, Done

\* The answer as captured and as still to be read stands still.
Standing == UNCHANGED <<doc, settings, captured, wire, served, ended>>

\* What is unread stays so.
LEMMA UnreadStands == ASSUME Standing, Unread PROVE Unread'
  BY DEF Standing, Unread, Outstanding

\* A step that reads nothing, and leads neither into a drain nor to the verdict.
LEMMA CaptureKept ==
    ASSUME CaptureInv, Standing, UNCHANGED <<call, stream, handle>>,
           transport_failure => transport_failure',
           pc' \notin {"read", "drain", "final drain", "verdict"},
           pc' = "done" => result'.response = FALSE
    PROVE  CaptureInv'
<1> SUFFICES ASSUME Capturing' PROVE CaptureInv'
  BY DEF CaptureInv
<1>1. Capturing
  BY DEF Capturing, Standing
<1>2. (stream \/ handle) /\ (call = "err" \/ Unread \/ Lost)
  BY <1>1 DEF CaptureInv
<1>3. (stream \/ handle)' /\ (call = "err" \/ Unread \/ Lost)'
  BY <1>2, UnreadStands DEF Lost, Standing
<1>4. ~Delivered'
  BY DEF Delivered
<1> QED
  BY <1>3, <1>4 DEF CaptureInv

\* A transport failure, or an ERROR section, gives the capture up.
LEMMA CaptureGivenUp ==
    ASSUME transport_failure' = TRUE \/ (i \in DOMAIN doc /\ Section.type = "ERROR" /\ doc' = doc)
    PROVE  CaptureInv'
  BY DEF CaptureInv, Capturing, HasType, Section

\* What a reader does with the item it takes: a message joins the capture, and an
\* error over HTTP is noted there.
TakesItem ==
    /\ stream /\ wire # <<>> /\ Consume /\ UNCHANGED <<doc, settings, transport_failure>>
    /\ Head(wire).kind = "msg" => captured'.messages = captured.messages \o <<Head(wire).val>>
    /\ Head(wire).kind # "msg" => captured'.messages = captured.messages
    /\ captured.error => captured'.error

\* What a capturing run notes of an item.
LEMMA CaptureNotes ==
    ASSUME TypeInv, settings.capture, NEW err \in BOOLEAN, NEW msg, Capture(msg, err)
    PROVE  /\ captured'.messages = captured.messages \o msg
           /\ captured'.error = (captured.error \/ err)
           /\ msg = <<>> => captured'.messages = captured.messages
<1>1. captured' = [messages |-> captured.messages \o msg, error |-> captured.error \/ err]
  BY DEF Capture
<1>2. captured.messages \o <<>> = captured.messages
  BY UnreadTypes, ConcatEmptySeq
<1> QED
  BY <1>1, <1>2

\* Taking an item that is not a lost exchange's error leaves the rest to be read.
LEMMA CaptureTakes ==
    ASSUME SnapshotInv, TakesItem, Capturing',
           Unread \/ (settings.http /\ Head(wire).kind = "err" => captured'.error)
    PROVE  Capturing /\ Unread'
<1>1. Capturing
  BY DEF Capturing, TakesItem
<1>2. stream /\ call = "ok"
  BY DEF SnapshotInv, StreamInv, TakesItem
<1>3. Unread \/ Lost
  BY <1>1, <1>2 DEF SnapshotInv, CaptureInv
<1>4. CASE Unread
  BY <1>1, <1>4, UnreadTake, UnreadSkip DEF SnapshotInv, TakesItem
<1>5. CASE ~Unread
  <2>1. PICK code \in Codes : wire = <<[kind |-> "err", val |-> code]>> /\ settings.http
    BY <1>3, <1>5 DEF Lost
  <2>2. Head(wire) = [kind |-> "err", val |-> code]
    BY <2>1
  <2>3. captured'.error
    BY <1>5, <2>1, <2>2
  <2> QED
    BY <2>1, <2>3 DEF Capturing, TakesItem
<1> QED
  BY <1>1, <1>4, <1>5

\* While the server still sends, nothing of a capturing run has been lost.
LEMMA CaptureServing ==
    ASSUME SnapshotInv, Serving, Capturing
    PROVE  Unread /\ ~ended /\ ~Delivered /\ (settings.http => pc \notin {"read", "drain"})
<1>1. ~ended /\ call # "err"
  BY DEF Serving
<1>2. Unread
  BY <1>1 DEF SnapshotInv, CaptureInv, Lost
<1> QED
  BY <1>1, <1>2 DEF SnapshotInv, CaptureInv, AnswerInv, StreamInv

\* And what it sends is to be read next.
LEMMA CaptureServed ==
    ASSUME SnapshotInv, Serving, UNCHANGED <<runnerSide, channel, callVars>>,
           Capturing => Unread' \/ (settings.http /\ Lost')
    PROVE  CaptureInv'
<1> SUFFICES ASSUME Capturing' PROVE CaptureInv'
  BY DEF CaptureInv
<1>1. /\ UNCHANGED <<doc, settings, captured, transport_failure, pc, todo, result, stream, handle>>
      /\ Capturing
  BY DEF Capturing, runnerSide, runner, verdict, callVars
<1>2. ~Delivered /\ (settings.http => pc \notin {"read", "drain"})
  BY <1>1, CaptureServing
<1>3. (stream \/ handle) /\ (pc = "final drain" => stream)
  BY <1>1 DEF SnapshotInv, CaptureInv
<1> QED
  BY <1>1, <1>2, <1>3 DEF CaptureInv, Delivered

\* Every step of the runner, the call and the server keeps it.
LEMMA CaptureNext == SnapshotInv /\ [Next]_vars => CaptureInv'
<1> SUFFICES ASSUME SnapshotInv, [Next]_vars PROVE CaptureInv'
  OBVIOUS
<1> USE DEF SnapshotInv
<1>1. ASSUME Start PROVE CaptureInv'
  BY <1>1, CaptureKept DEF Start, Standing, AnswerInv, callVars, server
<1>2. ASSUME SkipSection PROVE CaptureInv'
  BY <1>2, CaptureKept DEF SkipSection, NextSection, channel, callVars, server, ledger,
     Standing
<1>3. ASSUME EnterSection PROVE CaptureInv'
  BY <1>3, CaptureKept DEF EnterSection, channel, callVars, server, verdict, ledger,
     Standing
<1>4. ASSUME UnresolvedRequest PROVE CaptureInv'
  BY <1>4, CaptureKept DEF UnresolvedRequest, Sending, Goto, callVars, server, ledger,
     Standing
<1>5. ASSUME SendRequest PROVE CaptureInv'
  BY <1>5, CaptureKept DEF SendRequest, Sending, callVars, server, ledger, Standing
<1>6. ASSUME SendFails PROVE CaptureInv'
  BY <1>6, CaptureKept DEF SendFails, Sending, Failed, channel, callVars, server, ledger,
     Standing
<1>7. ASSUME RequestSent PROVE CaptureInv'
  BY <1>7, CaptureKept DEF RequestSent, Sending, NextIteration, NextSection, channel,
     callVars, server, verdict, ledger, Standing
<1>8. ASSUME DeferResponse PROVE CaptureInv'
  BY <1>8, CaptureKept DEF DeferResponse, Reading, NextIteration, NextSection, channel,
     callVars, server, Standing
<1>9. ASSUME EnterReader PROVE CaptureInv'
  BY <1>9, CaptureKept DEF EnterReader, Reading, Goto, callVars, server, verdict, ledger,
     Standing
<1>10. ASSUME StreamReady PROVE CaptureInv'
  <2> SUFFICES ASSUME Capturing' PROVE CaptureInv'
    BY DEF CaptureInv
  <2>1. Standing /\ Capturing /\ stream' = TRUE /\ call = "ok" /\ call' = call /\ pc' = "ready"
    BY <1>10 DEF StreamReady, Goto, Standing, Capturing, server, verdict
  <2> QED
    BY <2>1, UnreadStands DEF CaptureInv, Delivered, Lost, Standing
<1>11. ASSUME StreamStartFails PROVE CaptureInv'
  BY <1>11, CaptureGivenUp DEF StreamStartFails
<1>12. ASSUME NoStream PROVE CaptureInv'
  BY <1>12, CaptureGivenUp DEF NoStream
<1>13. ASSUME StartResponse PROVE CaptureInv'
  <2> SUFFICES ASSUME Capturing' PROVE CaptureInv'
    BY DEF CaptureInv
  <2>1. /\ Standing /\ Capturing /\ stream /\ call = "ok" /\ UNCHANGED <<call, stream, handle>>
        /\ pc' = "read" /\ todo' = deferred_bidi_expectations \o Section.want
        /\ i \in DOMAIN doc /\ Section.type = "RESPONSE"
    BY <1>13 DEF StartResponse, Merge, Standing, Capturing, server, callVars, StreamInv, TypeInv, InSection
  <2>2. CASE settings.http
    <3>1. Section.want # <<>>
      BY <2>1, <2>2 DEF Capturing, Contentful, Section
    <3>2. Section.want \in Seq(Payloads) /\ deferred_bidi_expectations \in Seq(Payloads)
      BY <2>1, SectionType DEF TypeInv, TypeOK, VerdictTypeOK
    <3>3. todo' # <<>>
      BY <2>1, <3>1, <3>2, ConcatProperties, EmptySeq, LenProperties
    <3> QED
      BY <2>1, <3>3, UnreadStands DEF CaptureInv, Delivered, Lost, Standing
  <2>3. CASE ~settings.http
    <3>1. Unread
      BY <2>1, <2>3 DEF CaptureInv, Lost
    <3> QED
      BY <2>1, <3>1, UnreadStands DEF CaptureInv, Delivered, Lost, Standing
  <2> QED
    BY <2>2, <2>3
<1>14. ASSUME ResponseMessage PROVE CaptureInv'
  <2> SUFFICES ASSUME Capturing' PROVE CaptureInv'
    BY DEF CaptureInv
  <2>1. /\ Head(wire).kind = "msg" /\ pc = "read" /\ pc' = "read" /\ settings.capture
        /\ UNCHANGED <<call, stream, handle>>
    BY <1>14 DEF ResponseMessage, Expecting, Arrived, callVars, Capturing
  <2>2. TakesItem
    BY <1>14, <2>1 DEF ResponseMessage, Arrived, Capture, TakesItem
  <2>3. Capturing /\ Unread'
    BY <2>1, <2>2, CaptureTakes DEF SnapshotInv
  <2> QED
    BY <2>1, <2>2, <2>3 DEF CaptureInv, Delivered, TakesItem
<1>15. ASSUME ResponseEnds PROVE CaptureInv'
  <2> SUFFICES ASSUME Capturing' PROVE CaptureInv'
    BY DEF CaptureInv
  <2>1. /\ pc' = "drain" /\ stream /\ settings.capture /\ pc = "read"
        /\ UNCHANGED <<doc, settings, transport_failure, call, stream, handle>>
    BY <1>15 DEF ResponseEnds, Expecting, Arrived, Exhausted, callVars, Capturing
  <2>2. CASE Exhausted
    <3>1. Standing /\ wire = <<>>
      BY <1>15, <2>1, <2>2 DEF ResponseEnds, Exhausted, Arrived, Standing, server
    <3>2. Capturing /\ call = "ok"
      BY <2>1, <3>1 DEF Capturing, Standing, StreamInv
    <3>3. Unread
      BY <3>1, <3>2 DEF CaptureInv, Lost
    <3> QED
      BY <2>1, <3>1, <3>3, UnreadStands DEF CaptureInv, Delivered
  <2>3. CASE ~Exhausted
    <3>0. /\ Head(wire).kind # "msg" /\ wire # <<>> /\ Consume
          /\ IF Head(wire).kind = "err" THEN Capture(<<>>, TRUE) ELSE captured' = captured
      BY <1>15, <2>1, <2>3 DEF ResponseEnds, Arrived, Exhausted
    <3>1. TakesItem /\ (Head(wire).kind = "err" => captured'.error)
      BY <2>1, <3>0, CaptureNotes DEF TakesItem
    <3>2. Capturing /\ Unread'
      BY <3>1, CaptureTakes DEF SnapshotInv
    <3> QED
      BY <2>1, <3>2 DEF CaptureInv, Delivered
  <2> QED
    BY <2>2, <2>3
<1>16. ASSUME ResponseTimeout PROVE CaptureInv'
  BY <1>16, CaptureGivenUp DEF ResponseTimeout
<1>17. ASSUME ResponseComplete PROVE CaptureInv'
  <2> SUFFICES ASSUME Capturing' PROVE CaptureInv'
    BY DEF CaptureInv
  <2>1. /\ Standing /\ Capturing /\ pc = "read" /\ todo = <<>> /\ pc' = "drain"
        /\ UNCHANGED <<call, stream, handle>>
    BY <1>17 DEF ResponseComplete, Goto, Standing, Capturing, server, verdict, callVars
  <2> QED
    BY <2>1, UnreadStands DEF CaptureInv, Delivered
<1>18. ASSUME DrainMessage PROVE CaptureInv'
  <2> SUFFICES ASSUME Capturing' PROVE CaptureInv'
    BY DEF CaptureInv
  <2>1. /\ Head(wire).kind = "msg" /\ pc = "drain" /\ pc' = "drain" /\ settings.capture
        /\ UNCHANGED <<call, stream, handle>>
    BY <1>18 DEF DrainMessage, Arrived, callVars, runner, Capturing
  <2>2. TakesItem
    BY <1>18, <2>1 DEF DrainMessage, Arrived, Capture, TakesItem
  <2>3. Capturing /\ Unread'
    BY <2>1, <2>2, CaptureTakes DEF SnapshotInv
  <2> QED
    BY <2>1, <2>2, <2>3 DEF CaptureInv, Delivered, TakesItem
<1>19. ASSUME DrainEnds PROVE CaptureInv'
  <2> SUFFICES ASSUME Capturing' PROVE CaptureInv'
    BY DEF CaptureInv
  <2>1. /\ pc = "drain" /\ pc' = "attach" /\ stream
        /\ UNCHANGED <<doc, settings, captured, transport_failure, call, stream, handle>>
    BY <1>19 DEF DrainEnds, Goto, callVars, verdict, AnswerInv
  <2>2. CASE UNCHANGED server
    BY <1>19, <2>1, <2>2, CaptureKept DEF Standing, server
  <2>3. CASE ~UNCHANGED server
    <3>1. TakesItem /\ Capturing /\ Unread
      BY <1>19, <2>1, <2>3 DEF DrainEnds, Arrived, TakesItem, Capturing, CaptureInv
    <3>2. Unread'
      BY <3>1, CaptureTakes DEF SnapshotInv
    <3> QED
      BY <2>1, <3>2 DEF CaptureInv, Delivered
  <2> QED
    BY <2>2, <2>3
<1>20. ASSUME AttachResponse PROVE CaptureInv'
  BY <1>20, CaptureKept DEF AttachResponse, Judge, Failed, ledger, NextIteration,
     NextSection, channel, callVars, server, Standing
<1>21. ASSUME AssertOnError PROVE CaptureInv'
  BY <1>21, CaptureKept DEF AssertOnError, Asserting, Judge, Failed, NextIteration,
     NextSection, channel, callVars, server, Standing
<1>22. ASSUME AssertWithoutStream PROVE CaptureInv'
  BY <1>22, CaptureKept DEF AssertWithoutStream, Asserting, FailedIfJudging, Failed,
     NextIteration, NextSection, channel, callVars, server, ledger, Standing
<1>23. ASSUME AssertOnItem PROVE CaptureInv'
  <2> SUFFICES ASSUME Capturing' PROVE CaptureInv'
    BY DEF CaptureInv
  <2>1. /\ pc' \in {"section", "exec"} /\ stream /\ settings.capture /\ wire # <<>>
        /\ UNCHANGED <<call, stream, handle>>
    BY <1>23 DEF AssertOnItem, NextIteration, NextSection, callVars, Capturing
  <2>2. Capture(IF Head(wire).kind = "msg" THEN <<Head(wire).val>> ELSE <<>>, Head(wire).kind = "err")
    BY <1>23 DEF AssertOnItem
  <2>3. TakesItem /\ (Head(wire).kind = "err" => captured'.error)
    BY <1>23, <2>1, <2>2, CaptureNotes DEF AssertOnItem, TakesItem
  <2>4. Capturing /\ Unread'
    BY <2>3, CaptureTakes DEF SnapshotInv
  <2> QED
    BY <2>1, <2>4 DEF CaptureInv, Delivered
<1>24. ASSUME AssertAtEnd PROVE CaptureInv'
  BY <1>24, CaptureKept DEF AssertAtEnd, Asserting, Exhausted, FailedIfJudging, Failed,
     NextIteration, NextSection, channel, callVars, server, ledger, Standing
<1>25. ASSUME AssertTimeout PROVE CaptureInv'
  BY <1>25, CaptureGivenUp DEF AssertTimeout
<1>26. ASSUME Extract PROVE CaptureInv'
  BY <1>26, CaptureKept DEF Extract, Failed, NextIteration, NextSection, channel, callVars,
     server, ledger, Standing
<1>27. ASSUME ErrorAtStart PROVE CaptureInv'
  BY <1>27, CaptureGivenUp DEF ErrorAtStart, ExpectingError, TypeInv, InSection
<1>28. ASSUME ErrorReceived PROVE CaptureInv'
  BY <1>28, CaptureGivenUp DEF ErrorReceived, ExpectingError, TypeInv, InSection
<1>29. ASSUME ErrorNotReceived PROVE CaptureInv'
  BY <1>29, CaptureGivenUp DEF ErrorNotReceived, ExpectingError, TypeInv, InSection
<1>30. ASSUME ErrorTimeout PROVE CaptureInv'
  BY <1>30, CaptureGivenUp DEF ErrorTimeout
<1>31. ASSUME FinishSections PROVE CaptureInv'
  <2> SUFFICES ASSUME Capturing' PROVE CaptureInv'
    BY DEF CaptureInv
  <2>1. /\ Standing /\ Capturing /\ UNCHANGED <<call, stream, handle>> /\ settings.capture
        /\ pc' = IF ~stream /\ handle THEN "final await" ELSE "final drain"
    BY <1>31 DEF FinishSections, Goto, Standing, Capturing, server, callVars, verdict
  <2> QED
    BY <2>1, UnreadStands DEF CaptureInv, Delivered, Lost, Standing
<1>32. ASSUME FinalAwait PROVE CaptureInv'
  <2> SUFFICES ASSUME Capturing' PROVE CaptureInv'
    BY DEF CaptureInv
  <2>1. /\ Standing /\ Capturing /\ call = "ok" /\ call' = call /\ stream' = TRUE /\ pc' = "final drain"
    BY <1>32 DEF FinalAwait, Goto, Standing, Capturing, server
  <2> QED
    BY <2>1, UnreadStands DEF CaptureInv, Delivered, Lost, Standing
<1>33. ASSUME FinalDrain PROVE CaptureInv'
  <2> SUFFICES ASSUME Capturing' PROVE CaptureInv'
    BY DEF CaptureInv
  <2>1. /\ pc' = "final drain" /\ stream /\ settings.capture /\ wire # <<>>
        /\ UNCHANGED <<call, stream, handle>>
    BY <1>33 DEF FinalDrain, runner, callVars, Capturing
  <2>2. Capture(IF Head(wire).kind = "msg" THEN <<Head(wire).val>> ELSE <<>>, Head(wire).kind = "err")
    BY <1>33, <2>1 DEF FinalDrain, Arrived
  <2>3. TakesItem /\ (Head(wire).kind = "err" => captured'.error)
    BY <1>33, <2>1, <2>2, CaptureNotes DEF FinalDrain, TakesItem
  <2>4. Capturing /\ Unread'
    BY <2>3, CaptureTakes DEF SnapshotInv
  <2> QED
    BY <2>1, <2>4 DEF CaptureInv, Delivered
<1>34. ASSUME FinalDrainEnds PROVE CaptureInv'
  <2> SUFFICES ASSUME Capturing' PROVE CaptureInv'
    BY DEF CaptureInv
  <2>1. /\ Standing /\ Capturing /\ UNCHANGED <<call, stream, handle>> /\ pc = "final drain"
        /\ pc' = "verdict" /\ ~Stalled
    BY <1>34 DEF FinalDrainEnds, Goto, Standing, Capturing, server, callVars
  <2>2. stream /\ wire = <<>> /\ ended
    BY <1>34, <2>1 DEF FinalDrainEnds, Exhausted, CaptureInv
  <2> QED
    BY <2>1, <2>2, UnreadStands DEF CaptureInv, Delivered, Lost, Standing
<1>35. ASSUME GiveVerdict PROVE CaptureInv'
  <2> SUFFICES ASSUME Capturing' PROVE CaptureInv'
    BY DEF CaptureInv
  <2>1. /\ Standing /\ Capturing /\ UNCHANGED <<call, stream, handle>> /\ pc = "verdict" /\ pc' = "done"
    BY <1>35 DEF GiveVerdict, Goto, Standing, Capturing, server, callVars
  <2> QED
    BY <2>1, UnreadStands DEF CaptureInv, Delivered, Lost, Standing
<1>36. ASSUME PullRequest PROVE CaptureInv'
  BY <1>36, UnreadStands DEF PullRequest, runnerSide, runner, verdict, callVars, server, Standing,
     CaptureInv, Capturing, Delivered, Lost
<1>37. ASSUME NEW code \in Codes \cup {NoStatus}, CallFails(code) PROVE CaptureInv'
  <2>1. /\ UNCHANGED <<doc, settings, captured, transport_failure, stream, handle, pc, todo, result>>
        /\ call' = "err" /\ ~stream
    BY <1>37 DEF CallFails, runnerSide, runner, verdict, StreamInv
  <2> QED
    BY <2>1 DEF CaptureInv, Capturing, Delivered, AnswerInv
<1>38. ASSUME HeadersArrive PROVE CaptureInv'
  BY <1>38, UnreadStands DEF HeadersArrive, runnerSide, runner, verdict, callVars, server, Standing,
     CaptureInv, Capturing, Delivered, Lost
<1>39. ASSUME CallSucceeds PROVE CaptureInv'
  <2> SUFFICES ASSUME Capturing' PROVE CaptureInv'
    BY DEF CaptureInv
  <2>1. /\ UNCHANGED <<doc, settings, captured, transport_failure, stream, handle, pc, todo, result,
                       wire, served>>
        /\ Capturing /\ call # "err" /\ ended' \in {TRUE, ended}
    BY <1>39 DEF CallSucceeds, Capturing, runnerSide, runner, verdict
  <2>2. Unread => Unread'
    BY <2>1 DEF Unread, Outstanding
  <2>3. Lost => Lost'
    BY <2>1 DEF Lost
  <2>4. Delivered' = Delivered
    BY <2>1 DEF Delivered
  <2>5. /\ stream \/ handle
        /\ pc = "final drain" \/ Delivered => stream
        /\ Unread \/ Lost
        /\ pc = "drain" \/ (pc = "read" /\ todo = <<>>) => Unread
        /\ Delivered => wire = <<>> /\ ended
    BY <2>1 DEF CaptureInv
  <2>6. Delivered' => wire' = <<>> /\ ended'
    BY <2>1, <2>4, <2>5
  <2> QED
    BY <2>1, <2>2, <2>3, <2>4, <2>5, <2>6 DEF CaptureInv
<1>40. ASSUME DropRequests PROVE CaptureInv'
  BY <1>40, UnreadStands DEF DropRequests, runnerSide, runner, verdict, callVars, server, Standing,
     CaptureInv, Capturing, Delivered, Lost
<1>41. ASSUME NEW v \in Payloads, ServeMessage(v) PROVE CaptureInv'
  <2>1. /\ Serving /\ UNCHANGED <<runnerSide, channel, callVars>>
        /\ served' = Append(served, v) /\ ended' = FALSE
        /\ wire' = Append(wire, [kind |-> "msg", val |-> v])
    BY <1>41 DEF ServeMessage, Serve
  <2>2. ASSUME Capturing PROVE Unread'
    <3>1. Unread /\ ~ended /\ captured' = captured
      BY <2>1, <2>2, CaptureServing DEF SnapshotInv, runnerSide, verdict
    <3> QED
      BY <2>1, <3>1, UnreadServed
  <2> QED
    BY <2>1, <2>2, CaptureServed DEF SnapshotInv
<1>42. ASSUME ServeTrailers PROVE CaptureInv'
  <2>1. /\ Serving /\ UNCHANGED <<runnerSide, channel, callVars>> /\ served' = served /\ ended' = TRUE
        /\ wire' \in {wire, Append(wire, [kind |-> "trailers", val |-> Nothing])}
    BY <1>42 DEF ServeTrailers, Serve
  <2>2. ASSUME Capturing PROVE Unread'
    <3>1. Unread /\ ~ended /\ captured' = captured
      BY <2>1, <2>2, CaptureServing DEF SnapshotInv, runnerSide, verdict
    <3>2. [kind |-> "trailers", val |-> Nothing] \in Item
      BY DEF Item
    <3> QED
      BY <2>1, <3>1, <3>2, UnreadEnded
  <2> QED
    BY <2>1, <2>2, CaptureServed DEF SnapshotInv
<1>43. ASSUME ServeEnd PROVE CaptureInv'
  <2>1. /\ Serving /\ UNCHANGED <<runnerSide, channel, callVars>> /\ served' = served /\ ended' = TRUE
        /\ wire' \in {wire, Append(wire, [kind |-> "trailers", val |-> Nothing])}
    BY <1>43 DEF ServeEnd, Serve
  <2>2. ASSUME Capturing PROVE Unread'
    <3>1. Unread /\ ~ended /\ captured' = captured
      BY <2>1, <2>2, CaptureServing DEF SnapshotInv, runnerSide, verdict
    <3>2. [kind |-> "trailers", val |-> Nothing] \in Item
      BY DEF Item
    <3> QED
      BY <2>1, <3>1, <3>2, UnreadEnded
  <2> QED
    BY <2>1, <2>2, CaptureServed DEF SnapshotInv
<1>44. ASSUME NEW code \in Codes, ServeError(code) PROVE CaptureInv'
  <2>1. /\ Serving /\ UNCHANGED <<runnerSide, channel, callVars>> /\ served' = served /\ ended' = TRUE
        /\ wire' = Append(IF settings.http THEN <<>> ELSE wire, [kind |-> "err", val |-> code])
    BY <1>44 DEF ServeError, Serve
  <2>2. settings' = settings /\ captured' = captured
    BY <2>1 DEF runnerSide, verdict
  <2>3. CASE settings.http
    <3>1. Lost'
      BY <2>1, <2>2, <2>3 DEF Lost
    <3> QED
      BY <2>1, <2>3, <3>1, CaptureServed DEF SnapshotInv
  <2>4. CASE ~settings.http
    <3>1. ASSUME Capturing PROVE Unread'
      <4>1. Unread /\ ~ended
        BY <2>1, <3>1, CaptureServing DEF SnapshotInv
      <4>2. [kind |-> "err", val |-> code] \in Item
        BY <1>44 DEF Item
      <4> QED
        BY <2>1, <2>2, <2>4, <4>1, <4>2, UnreadEnded
    <3> QED
      BY <2>1, <3>1, CaptureServed DEF SnapshotInv
  <2> QED
    BY <2>3, <2>4
<1>45. CASE UNCHANGED vars
  BY <1>45, UnreadStands DEF vars, runner, callVars, server, verdict, Standing, CaptureInv, Capturing,
     Delivered, Lost
<1> QED
  BY <1>1, <1>2, <1>3, <1>4, <1>5, <1>6, <1>7, <1>8, <1>9, <1>10, <1>11, <1>12, <1>13,
     <1>14, <1>15, <1>16, <1>17, <1>18, <1>19, <1>20, <1>21, <1>22, <1>23, <1>24, <1>25,
     <1>26, <1>27, <1>28, <1>29, <1>30, <1>31, <1>32, <1>33, <1>34, <1>35, <1>36, <1>37,
     <1>38, <1>39, <1>40, <1>41, <1>42, <1>43, <1>44, <1>45 DEF Next, RunnerStep,
     RequestSteps, ReaderSteps, ResponseSteps, AssertsSteps, ErrorSteps, FinishSteps,
     CallStep, ServerStep, Done

\* In every run of run_one the response a snapshot is taken from is what the server
\* sent, whichever RESPONSE, ASSERTS or drain took each message off the stream.
THEOREM SnapshotCompleteCorrect == Spec => []SnapshotComplete
<1>1. Init => SnapshotInv
  <2> SUFFICES ASSUME Init PROVE SnapshotInv
    OBVIOUS
  <2>1. StreamInv /\ AnswerInv
    BY DEF Init, StreamInv, AnswerInv
  <2>2. Unread
    BY EmptySeq DEF Init, Unread, Outstanding
  <2> QED
    BY <2>1, <2>2, TypeInit DEF Init, SnapshotInv, CaptureInv, Delivered
<1>2. SnapshotInv /\ [Next]_vars => SnapshotInv'
  BY TypeNext, StreamNext, AnswerNext, CaptureNext DEF SnapshotInv
<1>3. SnapshotInv => SnapshotComplete
  <2> SUFFICES ASSUME SnapshotInv, Finished, result.response, ~transport_failure,
                      ~HasType(doc, "ERROR"), settings.http => ~captured.error /\ Contentful(doc)
               PROVE  captured.messages = served
    BY DEF SnapshotComplete
  <2>1. Capturing /\ Delivered
    BY DEF SnapshotInv, AnswerInv, Capturing, Delivered, Finished
  <2>2. stream /\ wire = <<>> /\ ended /\ (call = "err" \/ Unread \/ Lost)
    BY <2>1 DEF SnapshotInv, CaptureInv
  <2>3. Unread
    BY <2>2 DEF SnapshotInv, StreamInv, Lost
  <2> QED
    BY <2>2, <2>3, UnreadNothing DEF SnapshotInv
<1> QED
  BY <1>1, <1>2, <1>3, PTL DEF Spec

-----------------------------------------------------------------------------
(* Induction over the sections of a document.                              *)

\* A set of numbers that holds 0, and with each number the next, holds them all.
LEMMA SetInduction ==
    ASSUME NEW S, 0 \in S, \A n \in Nat : n \in S => n + 1 \in S
    PROVE  \A n \in Nat : n \in S
<1> SUFFICES ASSUME NEW n \in Nat, n \notin S PROVE FALSE
  OBVIOUS
<1> DEFINE out == Nat \ S
<1>1. out \subseteq Nat /\ out # {}
  OBVIOUS
<1>2. PICK x \in out : \A y \in out : <<y, x>> \notin OpToRel(<, Nat)
  BY <1>1, NatLessThanWellFounded, WFMin
<1>3. \A y \in out : ~(y < x)
  BY <1>2, Zenon DEF OpToRel
<1>4. x # 0 /\ x \in Nat /\ x \notin S
  BY <1>2
<1>5. x - 1 \in Nat /\ x - 1 < x /\ (x - 1) + 1 = x
  BY <1>4
<1>6. x - 1 \in S
  BY <1>3, <1>5
<1> QED
  BY <1>4, <1>5, <1>6

\* A set of section numbers that is not empty has a last one.
LEMMA LastOf ==
    ASSUME NEW N \in Nat, NEW S, S \subseteq 1..N, S # {}
    PROVE  \E x \in S : \A y \in S : y <= x
<1> DEFINE below == {n \in Nat : S \cap 1..n # {} => \E x \in S : x <= n /\ \A y \in S : y <= n => y <= x}
<1>1. 0 \in below
  OBVIOUS
<1>2. ASSUME NEW n \in Nat, n \in below PROVE n + 1 \in below
  <2>1. CASE n + 1 \in S
    <3>1. \A y \in S : y <= n + 1 => y <= n + 1
      OBVIOUS
    <3> QED
      BY <2>1, <3>1
  <2>2. CASE n + 1 \notin S
    <3>1. S \cap 1..(n + 1) = S \cap 1..n
      BY <2>2
    <3>2. \A y \in S : y <= n + 1 => y <= n
      BY <2>2
    <3> QED
      BY <1>2, <3>1, <3>2
  <2> QED
    BY <2>1, <2>2
<1>3. N \in below
  <2> HIDE DEF below
  <2> QED
    BY <1>1, <1>2, SetInduction
<1>4. S \cap 1..N # {} /\ \A y \in S : y \in 1..N
  OBVIOUS
<1> QED
  BY <1>3, <1>4

\* The repeat count of a section is a number, and not zero.
LEMMA RepeatType ==
    ASSUME TypeOK, NEW k \in DOMAIN doc
    PROVE  get_repeat(doc, k) \in Nat \ {0}
<1> DEFINE setters == {m \in DOMAIN doc : m <= k /\ doc[m]["repeat"] # Unset}
           last == CHOOSE m \in setters : \A n \in setters : n <= m
           r == Resolved(doc, k, "repeat")
<1>1. doc \in Seq(Sections(Payloads, Payloads \cup Codes, Names)) /\ Len(doc) \in Nat
      /\ DOMAIN doc = 1..Len(doc)
  BY DocsAssumption, LenProperties DEF TypeOK, RunnerTypeOK
<1>2. r \in Seq(Nat)
  <2>1. CASE setters = {}
    BY <2>1, EmptySeq DEF Resolved, Unset
  <2>2. CASE setters # {}
    <3>1. setters \subseteq 1..Len(doc)
      BY <1>1
    <3>2. \E m \in setters : \A n \in setters : n <= m
      BY <1>1, <2>2, <3>1, LastOf
    <3>3. last \in setters
      BY <3>2
    <3>4. last \in DOMAIN doc
      BY <3>3
    <3>5. doc[last] \in Sections(Payloads, Payloads \cup Codes, Names)
      BY <1>1, <3>4, ElementOfSeq
    <3>6. doc[last]["repeat"] \in Seq(Nat)
      BY <3>5 DEF Sections
    <3>7. r = doc[last]["repeat"]
      BY <2>2 DEF Resolved
    <3> QED
      BY <3>6, <3>7
  <2> QED
    BY <2>1, <2>2
<1>3. CASE r # Unset /\ r[1] >= 1
  <2>1. Len(r) \in Nat /\ Len(r) # 0 /\ r \in Seq(Nat)
    BY <1>2, <1>3, EmptySeq, LenProperties DEF Unset
  <2>2. r[1] \in Nat
    BY <2>1, ElementOfSeq
  <2>3. get_repeat(doc, k) = r[1]
    BY <1>3 DEF get_repeat
  <2> QED
    BY <1>3, <2>2, <2>3
<1>4. CASE ~(r # Unset /\ r[1] >= 1)
  BY <1>4 DEF get_repeat
<1> QED
  BY <1>3, <1>4

-----------------------------------------------------------------------------
(* What the sections of a document state, and what a run comes to.         *)

\* The expectations of section k in one iteration: its own, and those of the
\* ASSERTS attached to it.
Own(k) ==
    CASE doc[k].type \in {"RESPONSE", "ERROR"} -> Len(doc[k].want)
      [] doc[k].type = "ASSERTS"               -> 1
      [] OTHER                                 -> 0

Attached(k) ==
    IF ~IsAttached(doc, k + 1) THEN 0
    ELSE IF doc[k].type = "ERROR" THEN 1 ELSE Len(doc[k].want)

\* The sum is one: a function of the number of sections that meets its definition.
LEMMA SumExists ==
    ASSUME NEW d, NEW n \in Nat
    PROVE  \E f : f = [k \in 0..n |-> IF k = 0 THEN 0 ELSE f[k - 1] + Obligations(d, k)]
<1> DEFINE Step(f, k) == IF k = 0 THEN 0 ELSE f[k - 1] + Obligations(d, k)
           S == {m \in Nat : \E f : f = [k \in 0..m |-> Step(f, k)]}
<1>1. 0 \in S
  <2> DEFINE f == [k \in 0..0 |-> 0]
  <2>1. f = [k \in 0..0 |-> Step(f, k)]
    OBVIOUS
  <2> QED
    BY <2>1
<1>2. ASSUME NEW m \in Nat, m \in S PROVE m + 1 \in S
  <2>1. PICK f : f = [k \in 0..m |-> Step(f, k)]
    BY <1>2
  <2> DEFINE h == [k \in 0..(m + 1) |-> IF k = m + 1 THEN f[m] + Obligations(d, m + 1) ELSE f[k]]
  <2>2. ASSUME NEW k \in 0..(m + 1) PROVE h[k] = Step(h, k)
    <3>1. CASE k = m + 1
      BY <3>1
    <3>2. CASE k \in 0..m
      <4>1. h[k] = f[k] /\ (k # 0 => h[k - 1] = f[k - 1])
        BY <3>2
      <4>2. f[k] = Step(f, k)
        BY <2>1, <3>2
      <4> QED
        BY <4>1, <4>2
    <3> QED
      BY <3>1, <3>2
  <2>3. h = [k \in 0..(m + 1) |-> Step(h, k)]
    BY <2>2
  <2> HIDE DEF h
  <2> QED
    BY <2>3
<1>3. n \in S
  <2> HIDE DEF S
  <2> QED
    BY <1>1, <1>2, SetInduction
<1> QED
  BY <1>3

\* It adds up section by section.
LEMMA SumStep ==
    ASSUME NEW d, Len(d) \in Nat
    PROVE  /\ ObligationsUpTo(d)[0] = 0
           /\ \A k \in 1..Len(d) : ObligationsUpTo(d)[k] = ObligationsUpTo(d)[k - 1] + Obligations(d, k)
<1> DEFINE f == ObligationsUpTo(d)
<1>1. f = [k \in 0..Len(d) |-> IF k = 0 THEN 0 ELSE f[k - 1] + Obligations(d, k)]
  BY SumExists DEF ObligationsUpTo
<1> HIDE DEF f
<1>2. f[0] = 0 /\ \A k \in 1..Len(d) : f[k] = f[k - 1] + Obligations(d, k)
  BY <1>1
<1> QED
  BY <1>2 DEF f

\* What a run has come to when it gets to section k: the sections before it, and
\* section k itself if it ran with the one before.
Reached(k) ==
    ObligationsUpTo(doc)[k - 1] + (IF IsAttached(doc, k) THEN Obligations(doc, k) ELSE 0)

\* A document is a sequence of well-formed sections.
LEMMA DocType ==
    ASSUME TypeOK
    PROVE  /\ doc \in Seq(Sections(Payloads, Payloads \cup Codes, Names))
           /\ Len(doc) \in Nat /\ DOMAIN doc = 1..Len(doc)
           /\ \A k \in DOMAIN doc : doc[k] \in Sections(Payloads, Payloads \cup Codes, Names)
           /\ \A k \in DOMAIN doc : Len(doc[k].want) \in Nat
<1>1. /\ doc \in Seq(Sections(Payloads, Payloads \cup Codes, Names))
      /\ Len(doc) \in Nat /\ DOMAIN doc = 1..Len(doc)
  BY DocsAssumption, LenProperties DEF TypeOK, RunnerTypeOK
<1>2. \A k \in DOMAIN doc : doc[k] \in Sections(Payloads, Payloads \cup Codes, Names)
  BY <1>1, ElementOfSeq
<1>3. \A k \in DOMAIN doc : doc[k].want \in Seq(Payloads \cup Codes)
  BY <1>2 DEF Sections
<1> QED
  BY <1>1, <1>2, <1>3, LenProperties

\* When the section after k is attached to it.
LEMMA AttachedNext ==
    ASSUME TypeOK, NEW k \in DOMAIN doc
    PROVE  /\ IsAttached(doc, k + 1) <=>
                 Attaches(doc, k) /\ ~get_skip(doc, k) /\ doc[k].type \in {"RESPONSE", "ERROR"}
           /\ IsAttached(doc, k + 1) => k + 1 \in DOMAIN doc /\ doc[k + 1].type = "ASSERTS"
           /\ IsAttached(doc, k) => doc[k].type = "ASSERTS" /\ ~IsAttached(doc, k + 1)
<1>1. k \in Nat \ {0} /\ (k + 1) - 1 = k /\ k + 1 > 1 /\ (k - 1) + 1 = k
  BY DocType
<1>2. IsAttached(doc, k + 1) <=>
         Attaches(doc, k) /\ ~get_skip(doc, k) /\ doc[k].type \in {"RESPONSE", "ERROR"}
  BY <1>1 DEF IsAttached
<1>3. IsAttached(doc, k + 1) => k + 1 \in DOMAIN doc /\ doc[k + 1].type = "ASSERTS"
  BY <1>2 DEF Attaches
<1>4. IsAttached(doc, k) => doc[k].type = "ASSERTS"
  BY <1>1 DEF IsAttached, Attaches
<1> QED
  BY <1>2, <1>3, <1>4

\* What section k and the one attached to it state.
LEMMA ObligationsOf ==
    ASSUME TypeOK, NEW k \in DOMAIN doc
    PROVE  /\ Own(k) \in Nat /\ Attached(k) \in Nat /\ Obligations(doc, k) \in Nat
           /\ ~IsAttached(doc, k) /\ get_skip(doc, k) => Obligations(doc, k) = 0
           /\ ~IsAttached(doc, k) /\ ~get_skip(doc, k)
                 => Obligations(doc, k) = get_repeat(doc, k) * Own(k)
           /\ IsAttached(doc, k + 1) => Obligations(doc, k + 1) = get_repeat(doc, k) * Attached(k)
<1>1. k \in Nat \ {0} /\ (k + 1) - 1 = k /\ Len(doc[k].want) \in Nat
  BY DocType
<1>2. Own(k) \in Nat /\ Attached(k) \in Nat
  BY <1>1 DEF Own, Attached
<1>3. get_repeat(doc, k) \in Nat
  BY RepeatType
<1>4. ~IsAttached(doc, k) /\ get_skip(doc, k) => Obligations(doc, k) = 0
  BY DEF Obligations
<1>5. ~IsAttached(doc, k) /\ ~get_skip(doc, k) => Obligations(doc, k) = get_repeat(doc, k) * Own(k)
  BY DEF Obligations, Own
<1>6. IsAttached(doc, k + 1) => Obligations(doc, k + 1) = get_repeat(doc, k) * Attached(k)
  BY <1>1 DEF Obligations, Attached
<1>7. Obligations(doc, k) \in Nat
  <2>1. CASE ~IsAttached(doc, k)
    BY <1>2, <1>3, <1>4, <1>5, <2>1
  <2>2. CASE IsAttached(doc, k)
    <3>1. k - 1 \in DOMAIN doc
      BY <1>1, <2>2, DocType DEF IsAttached
    <3>2. get_repeat(doc, k - 1) \in Nat /\ Len(doc[k - 1].want) \in Nat
      BY <3>1, RepeatType, DocType
    <3>3. \A r, n \in Nat : r * n \in Nat
      OBVIOUS
    <3>4. Obligations(doc, k) = get_repeat(doc, k - 1) * (IF doc[k - 1].type = "ERROR" THEN 1 ELSE Len(doc[k - 1].want))
      BY <2>2 DEF Obligations
    <3> QED
      BY <3>2, <3>3, <3>4
  <2> QED
    BY <2>1, <2>2
<1> QED
  BY <1>2, <1>4, <1>5, <1>6, <1>7

\* The sum is a number at every section.
LEMMA SumType ==
    ASSUME TypeOK
    PROVE  \A n \in 0..Len(doc) : ObligationsUpTo(doc)[n] \in Nat
<1> DEFINE S == {n \in Nat : n <= Len(doc) => ObligationsUpTo(doc)[n] \in Nat}
<1>1. Len(doc) \in Nat /\ DOMAIN doc = 1..Len(doc)
  BY DocType
<1>2. 0 \in S
  BY <1>1, SumStep
<1>3. ASSUME NEW n \in Nat, n \in S PROVE n + 1 \in S
  <2> SUFFICES ASSUME n + 1 <= Len(doc) PROVE ObligationsUpTo(doc)[n + 1] \in Nat
    OBVIOUS
  <2>1. n + 1 \in 1..Len(doc) /\ n <= Len(doc) /\ (n + 1) - 1 = n
    BY <1>1
  <2>2. ObligationsUpTo(doc)[n + 1] = ObligationsUpTo(doc)[n] + Obligations(doc, n + 1)
    BY <1>1, <2>1, SumStep
  <2>3. Obligations(doc, n + 1) \in Nat
    BY <1>1, <2>1, ObligationsOf
  <2> QED
    BY <1>3, <2>1, <2>2, <2>3
<1>4. \A n \in Nat : n \in S
  <2> HIDE DEF S
  <2> QED
    BY <1>2, <1>3, SetInduction
<1> QED
  BY <1>1, <1>4

\* How what is reached grows from one section to the next.
LEMMA ReachedNext ==
    ASSUME TypeOK, NEW k \in DOMAIN doc
    PROVE  /\ Reached(k) \in Nat
           /\ IsAttached(doc, k) => Reached(k + 1) = Reached(k)
           /\ ~IsAttached(doc, k) /\ get_skip(doc, k) => Reached(k + 1) = Reached(k)
           /\ ~IsAttached(doc, k) /\ ~get_skip(doc, k)
                 => Reached(k + 1) = Reached(k) + get_repeat(doc, k) * (Own(k) + Attached(k))
<1> DEFINE T == ObligationsUpTo(doc)
           r == get_repeat(doc, k)
<1>1. k \in 1..Len(doc) /\ Len(doc) \in Nat /\ (k + 1) - 1 = k /\ k - 1 \in 0..Len(doc)
  BY DocType
<1>2. T[k] = T[k - 1] + Obligations(doc, k) /\ T[k - 1] \in Nat /\ Obligations(doc, k) \in Nat
  BY <1>1, SumStep, SumType, ObligationsOf
<1>3. Reached(k) = T[k - 1] + (IF IsAttached(doc, k) THEN Obligations(doc, k) ELSE 0)
  BY DEF Reached
<1>4. Reached(k + 1) = T[k] + (IF IsAttached(doc, k + 1) THEN Obligations(doc, k + 1) ELSE 0)
  BY <1>1 DEF Reached
<1> HIDE DEF T
<1>5. Reached(k) \in Nat
  BY <1>2, <1>3
<1>6. CASE IsAttached(doc, k)
  BY <1>2, <1>3, <1>4, <1>5, <1>6, AttachedNext
<1>7. CASE ~IsAttached(doc, k) /\ get_skip(doc, k)
  BY <1>2, <1>3, <1>4, <1>5, <1>7, AttachedNext, ObligationsOf
<1>8. CASE ~IsAttached(doc, k) /\ ~get_skip(doc, k)
  <2>1. r \in Nat /\ Own(k) \in Nat /\ Attached(k) \in Nat /\ Obligations(doc, k) = r * Own(k)
    BY <1>8, ObligationsOf, RepeatType
  <2>2. IF IsAttached(doc, k + 1) THEN Obligations(doc, k + 1) = r * Attached(k) ELSE Attached(k) = 0
    BY ObligationsOf DEF Attached
  <2> HIDE DEF r
  <2>3. r * (Own(k) + Attached(k)) = r * Own(k) + r * Attached(k) /\ r * 0 = 0
        /\ r * Own(k) \in Nat /\ r * Attached(k) \in Nat
    BY <2>1
  <2>4. Reached(k) = T[k - 1]
    BY <1>2, <1>3, <1>8
  <2>5. Reached(k + 1) = T[k - 1] + r * Own(k) + r * Attached(k)
    <3>1. CASE IsAttached(doc, k + 1)
      BY <1>2, <1>4, <2>1, <2>2, <2>3, <3>1
    <3>2. CASE ~IsAttached(doc, k + 1)
      BY <1>2, <1>4, <2>1, <2>2, <2>3, <3>2
    <3> QED
      BY <3>1, <3>2
  <2>6. Reached(k + 1) = Reached(k) + r * (Own(k) + Attached(k))
    BY <1>2, <2>3, <2>4, <2>5
  <2> QED
    BY <1>5, <1>8, <2>6 DEF r
<1> QED
  BY <1>5, <1>6, <1>7, <1>8

\* Past the last section all obligations are reached.
LEMMA ReachedAll ==
    ASSUME TypeOK
    PROVE  Reached(Len(doc) + 1) = AllObligations(doc)
<1>1. Len(doc) \in Nat /\ DOMAIN doc = 1..Len(doc) /\ (Len(doc) + 1) - 1 = Len(doc)
      /\ Len(doc) + 1 \notin DOMAIN doc
  BY DocType
<1>2. ~IsAttached(doc, Len(doc) + 1)
  BY <1>1 DEF IsAttached, Attaches
<1>3. ObligationsUpTo(doc)[Len(doc)] \in Nat
  BY <1>1, SumType
<1> QED
  BY <1>1, <1>2, <1>3 DEF Reached, AllObligations

-----------------------------------------------------------------------------
(* How far a clean run has come.                                           *)

\* A run that judges, and has not failed so far, of a document whose sections an HTTP
\* bidi exchange does not run together.
Clean == (is_http_bidi => NoneAttached(doc)) /\ Judging /\ failure_reasons = {}

\* The places inside an iteration, and those at which its messages are owed.
Within == {"exec", "await", "ready", "read", "drain", "attach"}
Receiving == {"read", "drain", "attach"}
Concluding == pc \in {"final await", "final drain", "verdict"} \/ (Finished /\ result.status = "pass")

\* Between two sections the run has reached what the sections so far state.
AtSection ==
    /\ i \in 1..(Len(doc) + 1) /\ iter = 1 /\ got = <<>>
    /\ skip_next_section <=> IsAttached(doc, i)
    /\ due = Reached(i)

\* In an iteration it has, beyond those, reached what the iterations before it state.
InIteration ==
    /\ ~IsAttached(doc, i) /\ ~get_skip(doc, i)
    /\ iter \in 1..get_repeat(doc, i)
    /\ skip_next_section => IsAttached(doc, i + 1)
    /\ due = Reached(i) + (iter - 1) * (Own(i) + Attached(i)) + Held(pc \in Receiving, Own(i))
    /\ pc \notin Receiving => got = <<>>
    /\ pc \in Receiving /\ Attaches(doc, i)
         => Len(got) + Held(pc = "read", Len(todo)) = Len(Section.want)

\* Only an HTTP bidi exchange puts expectations off.
Deferring == deferred_bidi_expectations # <<>> => is_http_bidi

ReachedInv ==
    Clean =>
        /\ Deferring
        /\ pc \in {"start", "section"} => AtSection
        /\ pc \in Within => InIteration
        /\ Concluding => due = AllObligations(doc)

\* A failure ends what a clean run is held to.
LEMMA NotClean ==
    ASSUME Judging => failure_reasons' # {}, UNCHANGED settings
    PROVE  ReachedInv'
  BY DEF ReachedInv, Clean, Judging

\* A clean step comes from a clean state.
LEMMA StillClean ==
    ASSUME Clean', UNCHANGED <<doc, settings>>, failure_reasons \subseteq failure_reasons'
    PROVE  Clean
  BY DEF Clean, NoneAttached, Judging, is_http_bidi, CallKind

\* So does a step of such an exchange, or one that puts nothing off.
LEMMA DeferringKept ==
    ASSUME Deferring, UNCHANGED <<doc, settings>>,
           UNCHANGED deferred_bidi_expectations \/ is_http_bidi
    PROVE  Deferring'
  BY DEF Deferring, is_http_bidi, CallKind

\* Inside a section the invariant speaks of it.
LEMMA WithinSection ==
    ASSUME TypeInv, ReachedInv, Clean, pc \in Within
    PROVE  /\ InIteration /\ i \in DOMAIN doc /\ Deferring
           /\ i \in Nat /\ iter \in Nat /\ due \in Nat
           /\ Own(i) \in Nat /\ Attached(i) \in Nat /\ Reached(i) \in Nat
           /\ get_repeat(doc, i) \in Nat /\ Len(Section.want) \in Nat
<1>1. InIteration /\ i \in DOMAIN doc /\ Deferring
  BY DEF ReachedInv, TypeInv, InSection, Within
<1>2. Len(Section.want) \in Nat
  BY <1>1, DocType DEF TypeInv, Section
<1> QED
  BY <1>1, <1>2, ObligationsOf, ReachedNext, RepeatType DEF TypeInv, TypeOK, RunnerTypeOK

\* A step inside an iteration that reaches nothing.
LEMMA ReachedKept ==
    ASSUME TypeInv, ReachedInv, pc \in Within, pc' \in Within,
           pc' \in Receiving <=> pc \in Receiving,
           UNCHANGED <<doc, settings, i, iter, got, skip_next_section, due, deferred_bidi_expectations>>,
           failure_reasons \subseteq failure_reasons',
           pc' \in Receiving => Held(pc' = "read", Len(todo')) = Held(pc = "read", Len(todo))
    PROVE  ReachedInv'
<1> SUFFICES ASSUME Clean' PROVE ReachedInv'
  BY DEF ReachedInv
<1>1. InIteration /\ Deferring
  BY StillClean, WithinSection
<1>2. /\ Reached(i)' = Reached(i) /\ Own(i)' = Own(i) /\ Attached(i)' = Attached(i)
      /\ Section' = Section
      /\ Held(pc' \in Receiving, Own(i)) = Held(pc \in Receiving, Own(i))
  BY DEF Reached, Own, Attached, Section, Held
<1>3. InIteration'
  BY <1>1, <1>2 DEF InIteration
<1> QED
  BY <1>1, <1>3, DeferringKept DEF ReachedInv, Within, Concluding, Finished

\* The end of an iteration that has reached all it states.
LEMMA ReachedIteration ==
    ASSUME TypeInv, ReachedInv, Clean, pc \in Within, NextIteration,
           UNCHANGED <<doc, settings>>, UNCHANGED deferred_bidi_expectations \/ is_http_bidi,
           due' = Reached(i) + (iter - 1) * (Own(i) + Attached(i)) + (Own(i) + Attached(i)),
           skip_next_section' <=> IsAttached(doc, i + 1)
    PROVE  ReachedInv'
<1> DEFINE each == Own(i) + Attached(i)
           times == get_repeat(doc, i)
<1>1. /\ InIteration /\ i \in DOMAIN doc /\ Deferring
      /\ i \in Nat /\ iter \in 1..times /\ each \in Nat /\ Reached(i) \in Nat /\ times \in Nat
      /\ TypeOK /\ DOMAIN doc = 1..Len(doc) /\ Len(doc) \in Nat
  BY WithinSection, DocType DEF InIteration, TypeInv
<1>2. due' = Reached(i) + (iter - 1) * each + each
  OBVIOUS
<1> HIDE DEF each, times
<1>3. (iter - 1) * each + each = iter * each /\ (iter - 1) * each \in Nat /\ iter * each \in Nat
  BY <1>1
<1>4. due' = Reached(i) + iter * each
  BY <1>1, <1>2, <1>3
<1>5. CASE iter < times
  <2>1. pc' = "exec" /\ i' = i /\ iter' = iter + 1 /\ got' = <<>>
    BY <1>5 DEF NextIteration, times
  <2>2. iter' \in 1..times /\ iter' - 1 = iter
    BY <1>1, <1>5, <2>1
  <2>3. /\ Reached(i)' = Reached(i) /\ Own(i)' = Own(i) /\ Attached(i)' = Attached(i)
        /\ Section' = Section /\ ~(pc' \in Receiving)
    BY <2>1 DEF Reached, Own, Attached, Section, Receiving
  <2>4. due' = Reached(i) + (iter' - 1) * (Own(i) + Attached(i)) + Held(pc' \in Receiving, Own(i))
    <3>1. due' = Reached(i) + iter * each + 0
      BY <1>1, <1>3, <1>4
    <3> QED
      BY <2>2, <2>3, <3>1 DEF Held, each
  <2>5. InIteration'
    BY <1>1, <2>1, <2>2, <2>3, <2>4 DEF InIteration, times
  <2> QED
    BY <1>1, <2>1, <2>5, DeferringKept DEF ReachedInv, Within, Concluding, Finished
<1>6. CASE ~(iter < times)
  <2>1. pc' = "section" /\ i' = i + 1 /\ iter' = 1 /\ got' = <<>> /\ iter = times
    BY <1>1, <1>6 DEF NextIteration, NextSection, times
  <2>2. Reached(i + 1) = Reached(i) + times * each
    BY <1>1, ReachedNext DEF InIteration, times, each
  <2>3. Reached(i)' = Reached(i + 1)
    BY <2>1 DEF Reached
  <2>4. i' \in 1..(Len(doc) + 1)
    BY <1>1, <2>1
  <2>5. AtSection'
    BY <1>4, <2>1, <2>2, <2>3, <2>4 DEF AtSection
  <2> QED
    BY <1>1, <2>1, <2>5, DeferringKept DEF ReachedInv, Within, Concluding, Finished
<1> QED
  BY <1>5, <1>6

\* Adding up in two steps.
LEMMA SumTwo ==
    ASSUME NEW r \in Nat, NEW n \in Nat, NEW x \in Nat, NEW y \in Nat, n # 0
    PROVE  (r + (n - 1) * (x + y) + x) + y = r + (n - 1) * (x + y) + (x + y)
<1> DEFINE z == (n - 1) * (x + y)
<1>1. z \in Nat
  OBVIOUS
<1> HIDE DEF z
<1>2. (r + z + x) + y = r + z + (x + y)
  BY <1>1
<1> QED
  BY <1>2 DEF z

\* Adding to what an iteration has not begun to reach.
LEMMA SumNew ==
    ASSUME NEW r \in Nat, NEW n \in Nat, NEW x \in Nat, NEW y \in Nat, n # 0
    PROVE  (r + (n - 1) * (x + y) + 0) + (x + y) = r + (n - 1) * (x + y) + (x + y)
<1> DEFINE z == (n - 1) * (x + y)
<1>1. z \in Nat
  OBVIOUS
<1> HIDE DEF z
<1>2. (r + z + 0) + (x + y) = r + z + (x + y)
  BY <1>1
<1> QED
  BY <1>2 DEF z

\* Steps of the call and the server leave it alone.
LEMMA ReachedStands ==
    ASSUME ReachedInv, UNCHANGED <<doc, settings, runner, verdict, ledger>>
    PROVE  ReachedInv'
<1>1. UNCHANGED <<doc, settings, pc, i, iter, todo, got, due, failure_reasons,
                  deferred_bidi_expectations, skip_next_section, result>>
  BY DEF runner, verdict, ledger
<1>2. (Clean' <=> Clean) /\ (Concluding' <=> Concluding)
  BY <1>1 DEF Clean, NoneAttached, Judging, is_http_bidi, CallKind, Concluding, Finished
<1>3. (AtSection => AtSection') /\ (InIteration => InIteration')
  BY <1>1 DEF AtSection, InIteration, Reached, Own, Attached, Section
<1> QED
  BY <1>1, <1>2, <1>3, DeferringKept DEF ReachedInv

\* Every step of the runner, the call and the server keeps it.
LEMMA ReachedInvNext == TypeInv /\ ReachedInv /\ [Next]_vars => ReachedInv'
<1> SUFFICES ASSUME TypeInv, ReachedInv, [Next]_vars PROVE ReachedInv'
  OBVIOUS
<1>1. ASSUME Start PROVE ReachedInv'
  <2> SUFFICES ASSUME Clean' PROVE ReachedInv'
    BY DEF ReachedInv
  <2>1. /\ pc = "start" /\ pc' = "section" /\ failure_reasons \subseteq failure_reasons'
        /\ UNCHANGED <<doc, settings, i, iter, got, skip_next_section, due, deferred_bidi_expectations>>
    BY <1>1 DEF Start, Failed, ledger
  <2>2. AtSection /\ Deferring
    BY <2>1, StillClean DEF ReachedInv
  <2>3. AtSection'
    BY <2>1, <2>2 DEF AtSection, Reached
  <2> QED
    BY <2>1, <2>2, <2>3, DeferringKept DEF ReachedInv, Within, Concluding, Finished
<1>2. ASSUME SkipSection PROVE ReachedInv'
  <2> SUFFICES ASSUME Clean' PROVE ReachedInv'
    BY DEF ReachedInv
  <2>1. /\ pc = "section" /\ pc' = "section" /\ i \in DOMAIN doc /\ i' = i + 1 /\ iter' = 1 /\ got' = <<>>
        /\ (skip_next_section \/ get_skip(doc, i)) /\ skip_next_section' = FALSE
        /\ UNCHANGED <<doc, settings, due, deferred_bidi_expectations, failure_reasons>>
    BY <1>2 DEF SkipSection, NextSection, ledger
  <2>2. AtSection /\ Deferring
    BY <2>1, StillClean DEF ReachedInv
  <2>3. Reached(i + 1) = Reached(i) /\ ~IsAttached(doc, i + 1)
    BY <2>1, <2>2, ReachedNext, AttachedNext DEF AtSection, TypeInv
  <2>4. i' \in 1..(Len(doc) + 1)
    BY <2>1, DocType DEF TypeInv
  <2>5. Reached(i)' = Reached(i + 1)
    BY <2>1 DEF Reached
  <2>6. AtSection'
    BY <2>1, <2>2, <2>3, <2>4, <2>5 DEF AtSection
  <2> QED
    BY <2>1, <2>2, <2>6, DeferringKept DEF ReachedInv, Within, Concluding, Finished
<1>3. ASSUME EnterSection PROVE ReachedInv'
  <2> SUFFICES ASSUME Clean' PROVE ReachedInv'
    BY DEF ReachedInv
  <2>1. /\ pc = "section" /\ pc' = "exec" /\ i \in DOMAIN doc /\ ~skip_next_section /\ ~get_skip(doc, i)
        /\ UNCHANGED <<doc, settings, i, iter, got, skip_next_section, due,
                       deferred_bidi_expectations, failure_reasons>>
    BY <1>3 DEF EnterSection, verdict, ledger
  <2>2. AtSection /\ Deferring
    BY <2>1, StillClean DEF ReachedInv
  <2>3. /\ get_repeat(doc, i) \in Nat \ {0} /\ Reached(i) \in Nat
        /\ Own(i) \in Nat /\ Attached(i) \in Nat
    BY <2>1, RepeatType, ReachedNext, ObligationsOf DEF TypeInv
  <2>4. iter \in 1..get_repeat(doc, i) /\ iter - 1 = 0
    BY <2>2, <2>3 DEF AtSection
  <2>5. Reached(i) = Reached(i) + (iter - 1) * (Own(i) + Attached(i)) + 0
    BY <2>3, <2>4
  <2>6. InIteration
    BY <2>1, <2>2, <2>4, <2>5 DEF AtSection, InIteration, Receiving, Held
  <2>7. InIteration'
    BY <2>1, <2>6 DEF InIteration, Reached, Own, Attached, Section, Receiving, Held
  <2> QED
    BY <2>1, <2>2, <2>7, DeferringKept DEF ReachedInv, Within, Concluding, Finished
<1>4. ASSUME UnresolvedRequest PROVE ReachedInv'
  <2>1. /\ pc' = "done" /\ result'.status = "fail" /\ pc \in Within
        /\ UNCHANGED <<doc, settings, failure_reasons, deferred_bidi_expectations>>
    BY <1>4 DEF UnresolvedRequest, Goto, Sending, Within
  <2> QED
    BY <2>1, StillClean, WithinSection, DeferringKept DEF ReachedInv, Within, Concluding, Finished
<1>5. ASSUME SendRequest PROVE ReachedInv'
  BY <1>5, ReachedKept DEF SendRequest, Sending, ledger, Within, Receiving
<1>6. ASSUME SendFails PROVE ReachedInv'
  BY <1>6, ReachedKept DEF SendFails, Sending, Failed, ledger, Within, Receiving
<1>7. ASSUME RequestSent PROVE ReachedInv'
  <2> SUFFICES ASSUME Clean' PROVE ReachedInv'
    BY DEF ReachedInv
  <2>1. /\ pc \in Within \ Receiving /\ NextIteration /\ Section.type \in {"REQUEST", "EXTRACT"}
        /\ UNCHANGED <<doc, settings, due, deferred_bidi_expectations, skip_next_section>>
        /\ failure_reasons \subseteq failure_reasons'
    BY <1>7 DEF RequestSent, Sending, Within, Receiving, verdict, ledger
  <2>2. Clean /\ InIteration /\ i \in DOMAIN doc
    BY <2>1, StillClean, WithinSection
  <2>3. Own(i) = 0 /\ Attached(i) = 0 /\ ~IsAttached(doc, i + 1)
    BY <2>1, <2>2, AttachedNext DEF Own, Attached, Section, TypeInv
  <2>4. due = Reached(i) + (iter - 1) * (Own(i) + Attached(i)) + 0 /\ ~skip_next_section
    BY <2>1, <2>2, <2>3 DEF InIteration, Held
  <2>5. due' = Reached(i) + (iter - 1) * (Own(i) + Attached(i)) + (Own(i) + Attached(i))
    BY <2>1, <2>3, <2>4
  <2> QED
    BY <2>1, <2>2, <2>3, <2>4, <2>5, ReachedIteration
<1>8. ASSUME DeferResponse PROVE ReachedInv'
  <2> SUFFICES ASSUME Clean' PROVE ReachedInv'
    BY DEF ReachedInv
  <2>1. /\ pc = "exec" /\ NextIteration /\ Section.type = "RESPONSE" /\ is_http_bidi
        /\ due' = due + Held(Judging, Len(Section.want))
        /\ UNCHANGED <<doc, settings, failure_reasons, skip_next_section>>
    BY <1>8 DEF DeferResponse, Reading, Owe
  <2>2. /\ Clean /\ InIteration /\ i \in DOMAIN doc /\ pc \in Within \ Receiving
        /\ Len(Section.want) \in Nat
    BY <2>1, StillClean, WithinSection DEF Within, Receiving
  <2>3. ~Attaches(doc, i)
    BY <2>1, <2>2 DEF Clean, NoneAttached, Section
  <2>4. ~IsAttached(doc, i + 1)
    BY <2>2, <2>3, AttachedNext DEF TypeInv
  <2>5. Own(i) = Len(Section.want) /\ Attached(i) = 0
    BY <2>1, <2>4 DEF Own, Attached, Section
  <2>6. due' = Reached(i) + (iter - 1) * (Own(i) + Attached(i)) + (Own(i) + Attached(i))
    <3>1. /\ due = Reached(i) + (iter - 1) * (Own(i) + Attached(i)) + 0
          /\ due' = due + (Own(i) + Attached(i))
      BY <2>1, <2>2, <2>5 DEF InIteration, Held, Clean, Receiving
    <3> QED
      BY <2>2, <3>1, SumNew, WithinSection
  <2>7. ~skip_next_section'
    BY <2>1, <2>2, <2>4 DEF InIteration
  <2> QED
    BY <2>1, <2>2, <2>4, <2>6, <2>7, ReachedIteration
<1>9. ASSUME EnterReader PROVE ReachedInv'
  BY <1>9, ReachedKept DEF EnterReader, Reading, Goto, verdict, ledger, Within, Receiving
<1>10. ASSUME StreamReady PROVE ReachedInv'
  BY <1>10, ReachedKept DEF StreamReady, Goto, verdict, ledger, Within, Receiving
<1>11. ASSUME StreamStartFails PROVE ReachedInv'
  BY <1>11, NotClean DEF StreamStartFails, Failed
<1>12. ASSUME NoStream PROVE ReachedInv'
  BY <1>12, NotClean DEF NoStream, Failed
<1>13. ASSUME StartResponse PROVE ReachedInv'
  <2> SUFFICES ASSUME Clean' PROVE ReachedInv'
    BY DEF ReachedInv
  <2>1. /\ pc = "ready" /\ pc' = "read" /\ Section.type = "RESPONSE"
        /\ UNCHANGED <<doc, settings, i, iter, got, skip_next_section, failure_reasons>>
        /\ todo' = deferred_bidi_expectations \o Section.want /\ deferred_bidi_expectations' = <<>>
        /\ due' = due + Held(Judging, Len(Section.want))
    BY <1>13 DEF StartResponse, Merge, Owe
  <2>2. /\ Clean /\ InIteration /\ i \in DOMAIN doc /\ Deferring
        /\ Len(Section.want) \in Nat /\ pc \notin Receiving
    BY <2>1, StillClean, WithinSection DEF Within, Receiving
  <2>3. Attaches(doc, i) => todo' = Section.want
    <3>1. Attaches(doc, i) => deferred_bidi_expectations = <<>>
      BY <2>1, <2>2 DEF Clean, NoneAttached, Deferring, Section
    <3> QED
      BY <2>1, <2>2, <3>1, SectionType, ConcatEmptySeq DEF TypeInv
  <2>4. Own(i) = Len(Section.want) /\ due' = due + Own(i)
    BY <2>1, <2>2 DEF Own, Section, Held, Clean
  <2>5. due = Reached(i) + (iter - 1) * (Own(i) + Attached(i)) + 0 /\ got = <<>>
    BY <2>2 DEF InIteration, Held
  <2>6. due' = Reached(i) + (iter - 1) * (Own(i) + Attached(i)) + Own(i)
    <3>1. iter \in Nat /\ Own(i) \in Nat /\ Attached(i) \in Nat /\ Reached(i) \in Nat
      BY <2>1, <2>2, WithinSection DEF Within
    <3>2. PICK x : x = (iter - 1) * (Own(i) + Attached(i))
      OBVIOUS
    <3>3. x \in Int
      BY <3>1, <3>2
    <3>4. due = Reached(i) + x
      BY <2>5, <3>1, <3>2, <3>3
    <3> QED
      BY <2>4, <3>1, <3>2, <3>3, <3>4
  <2>7. Attaches(doc, i) => Len(got) + Len(todo') = Len(Section.want)
    BY <2>2, <2>3, <2>5, EmptySeq
  <2>8. InIteration' /\ Deferring'
    BY <2>1, <2>2, <2>6, <2>7 DEF Deferring, InIteration, Reached, Own, Attached, Section, Receiving, Held
  <2> QED
    BY <2>1, <2>8, DeferringKept DEF ReachedInv, Within, Concluding, Finished
<1>14. ASSUME ResponseMessage PROVE ReachedInv'
  <2> SUFFICES ASSUME Clean' PROVE ReachedInv'
    BY DEF ReachedInv
  <2>1. /\ pc = "read" /\ pc' = "read" /\ todo # <<>> /\ todo' = Tail(todo)
        /\ got' = IF Section.with_asserts THEN Append(got, Head(wire).val) ELSE got
        /\ UNCHANGED <<doc, settings, i, iter, skip_next_section, deferred_bidi_expectations, due>>
        /\ failure_reasons \subseteq failure_reasons' /\ Arrived("msg")
    BY <1>14 DEF ResponseMessage, Expecting, Failed
  <2>2. /\ Clean /\ InIteration /\ i \in DOMAIN doc /\ Deferring
    BY <2>1, StillClean, WithinSection DEF Within
  <2>3. /\ todo \in Seq(Payloads) /\ got \in Seq(Payloads) /\ Len(got) \in Nat
        /\ Len(todo) \in Nat /\ Len(todo') = Len(todo) - 1
    BY <2>1, HeadTailProperties, LenProperties DEF TypeInv, TypeOK, RunnerTypeOK
  <2>4. Head(wire).val \in Payloads
    BY <2>1, ItemType DEF Arrived
  <2>5. Section.with_asserts => Len(got') = Len(got) + 1
    BY <2>1, <2>3, <2>4, AppendProperties
  <2>6. Attaches(doc, i) => Len(got') + Len(todo') = Len(Section.want)
    <3>1. Attaches(doc, i) => Section.with_asserts /\ Len(got) + Len(todo) = Len(Section.want)
      BY <2>1, <2>2 DEF InIteration, Receiving, Held, Attaches, Section
    <3> QED
      BY <2>3, <2>5, <3>1
  <2>7. InIteration'
    BY <2>1, <2>2, <2>6 DEF InIteration, Reached, Own, Attached, Section, Receiving, Held
  <2> QED
    BY <2>1, <2>2, <2>7, DeferringKept DEF ReachedInv, Within, Concluding, Finished
<1>15. ASSUME ResponseEnds PROVE ReachedInv'
  BY <1>15, NotClean DEF ResponseEnds, FailedIfJudging, Failed
<1>16. ASSUME ResponseTimeout PROVE ReachedInv'
  BY <1>16, NotClean DEF ResponseTimeout, Failed
<1>17. ASSUME ResponseComplete PROVE ReachedInv'
  <2>1. Len(todo) = 0
    BY <1>17, EmptySeq DEF ResponseComplete
  <2> QED
    BY <1>17, <2>1, ReachedKept DEF ResponseComplete, Goto, Held, Within, Receiving, verdict, ledger
<1>18. ASSUME DrainMessage PROVE ReachedInv'
  BY <1>18, ReachedKept DEF DrainMessage, runner, Held, ledger, Within, Receiving
<1>19. ASSUME DrainEnds PROVE ReachedInv'
  BY <1>19, ReachedKept DEF DrainEnds, Goto, Held, verdict, ledger, Within, Receiving
<1>20. ASSUME AttachResponse PROVE ReachedInv'
  <2> SUFFICES ASSUME Clean' PROVE ReachedInv'
    BY DEF ReachedInv
  <2>1. /\ pc = "attach" /\ NextIteration /\ failure_reasons \subseteq failure_reasons'
        /\ UNCHANGED <<doc, settings, deferred_bidi_expectations>>
    BY <1>20 DEF AttachResponse, Judge, Failed
  <2>2. Clean /\ InIteration /\ i \in DOMAIN doc /\ Section.type = "RESPONSE" /\ pc \in Within
    BY <2>1, StillClean, WithinSection DEF Within, TypeInv, InSection
  <2>3. Attaches(doc, i) <=> IsAttached(doc, i + 1)
    BY <2>2, AttachedNext DEF InIteration, Section, TypeInv
  <2>4. due = Reached(i) + (iter - 1) * (Own(i) + Attached(i)) + Own(i)
    BY <2>1, <2>2 DEF InIteration, Held, Receiving
  <2>5. CASE Attaches(doc, i)
    <3>1. due' = due + Len(got) /\ skip_next_section' = TRUE
      BY <1>20, <2>2, <2>5 DEF AttachResponse, Judge, Owe, Held, Clean
    <3>2. Len(got) = Len(Section.want)
      <4>1. Section.with_asserts /\ Len(got) \in Nat /\ Len(Section.want) \in Nat
        BY <2>2, <2>5, WithinSection, LenProperties DEF Attaches, Section, TypeInv, TypeOK, RunnerTypeOK
      <4>2. Len(got) + 0 = Len(Section.want)
        BY <2>1, <2>2, <2>5, <4>1 DEF InIteration, Receiving, Held
      <4> QED
        BY <4>1, <4>2
    <3>3. Attached(i) = Len(Section.want)
      BY <2>2, <2>3, <2>5 DEF Attached, Section
    <3>4. due' = (Reached(i) + (iter - 1) * (Own(i) + Attached(i)) + Own(i)) + Attached(i)
      BY <2>4, <3>1, <3>2, <3>3
    <3>5. /\ iter \in Nat /\ iter # 0 /\ Own(i) \in Nat /\ Attached(i) \in Nat /\ Reached(i) \in Nat
      BY <2>2, WithinSection DEF InIteration
    <3>6. due' = Reached(i) + (iter - 1) * (Own(i) + Attached(i)) + (Own(i) + Attached(i))
      BY <3>4, <3>5, SumTwo
    <3> QED
      BY <2>1, <2>2, <2>3, <2>5, <3>1, <3>6, ReachedIteration
  <2>6. CASE ~Attaches(doc, i)
    <3>1. due' = due /\ skip_next_section' = skip_next_section /\ Attached(i) = 0
      BY <1>20, <2>3, <2>6 DEF AttachResponse, ledger, Attached
    <3>2. skip_next_section' <=> IsAttached(doc, i + 1)
      BY <2>2, <2>3, <2>6, <3>1 DEF InIteration
    <3>3. due' = Reached(i) + (iter - 1) * (Own(i) + Attached(i)) + (Own(i) + Attached(i))
      BY <2>2, <2>4, <3>1, SumTwo, WithinSection
    <3> QED
      BY <2>1, <2>2, <3>2, <3>3, ReachedIteration
  <2> QED
    BY <2>5, <2>6
<1>21. ASSUME AssertOnError PROVE ReachedInv'
  <2> SUFFICES ASSUME Clean' PROVE ReachedInv'
    BY DEF ReachedInv
  <2>1. /\ pc = "ready" /\ NextIteration /\ Section.type = "ASSERTS"
        /\ failure_reasons \subseteq failure_reasons'
        /\ due' = due + Held(Judging, 1)
        /\ UNCHANGED <<doc, settings, deferred_bidi_expectations, skip_next_section>>
    BY <1>21 DEF AssertOnError, Asserting, Judge, Owe, Failed
  <2>2. Clean /\ InIteration /\ i \in DOMAIN doc /\ pc \in Within
    BY <2>1, StillClean, WithinSection DEF Within
  <2>3. Own(i) = 1 /\ Attached(i) = 0 /\ ~IsAttached(doc, i + 1)
    BY <2>1, <2>2, AttachedNext DEF Own, Attached, Section, TypeInv
  <2>4. due' = Reached(i) + (iter - 1) * (Own(i) + Attached(i)) + (Own(i) + Attached(i))
    <3>1. due = Reached(i) + (iter - 1) * (Own(i) + Attached(i)) + 0 /\ due' = due + 1
      BY <2>1, <2>2 DEF InIteration, Held, Clean, Receiving
    <3> QED
      BY <2>2, <2>3, <3>1, SumNew, WithinSection
  <2>5. ~skip_next_section'
    BY <2>1, <2>2, <2>3 DEF InIteration
  <2> QED
    BY <2>1, <2>2, <2>3, <2>4, <2>5, ReachedIteration
<1>22. ASSUME AssertWithoutStream PROVE ReachedInv'
  BY <1>22, NotClean DEF AssertWithoutStream, FailedIfJudging, Failed
<1>23. ASSUME AssertOnItem PROVE ReachedInv'
  <2> SUFFICES ASSUME Clean' PROVE ReachedInv'
    BY DEF ReachedInv
  <2>1. /\ pc = "ready" /\ NextIteration /\ Section.type = "ASSERTS"
        /\ failure_reasons \subseteq failure_reasons'
        /\ due' = due + Held(Judging, 1)
        /\ UNCHANGED <<doc, settings, deferred_bidi_expectations, skip_next_section>>
    BY <1>23 DEF AssertOnItem, Asserting, Judge, Owe, Failed
  <2>2. Clean /\ InIteration /\ i \in DOMAIN doc /\ pc \in Within
    BY <2>1, StillClean, WithinSection DEF Within
  <2>3. Own(i) = 1 /\ Attached(i) = 0 /\ ~IsAttached(doc, i + 1)
    BY <2>1, <2>2, AttachedNext DEF Own, Attached, Section, TypeInv
  <2>4. due' = Reached(i) + (iter - 1) * (Own(i) + Attached(i)) + (Own(i) + Attached(i))
    <3>1. due = Reached(i) + (iter - 1) * (Own(i) + Attached(i)) + 0 /\ due' = due + 1
      BY <2>1, <2>2 DEF InIteration, Held, Clean, Receiving
    <3> QED
      BY <2>2, <2>3, <3>1, SumNew, WithinSection
  <2>5. ~skip_next_section'
    BY <2>1, <2>2, <2>3 DEF InIteration
  <2> QED
    BY <2>1, <2>2, <2>3, <2>4, <2>5, ReachedIteration
<1>24. ASSUME AssertAtEnd PROVE ReachedInv'
  BY <1>24, NotClean DEF AssertAtEnd, FailedIfJudging, Failed
<1>25. ASSUME AssertTimeout PROVE ReachedInv'
  BY <1>25, NotClean DEF AssertTimeout, Failed
<1>26. ASSUME Extract PROVE ReachedInv'
  <2> SUFFICES ASSUME Clean' PROVE ReachedInv'
    BY DEF ReachedInv
  <2>1. /\ pc \in Within \ Receiving /\ NextIteration /\ Section.type \in {"REQUEST", "EXTRACT"}
        /\ UNCHANGED <<doc, settings, due, deferred_bidi_expectations, skip_next_section>>
        /\ failure_reasons \subseteq failure_reasons'
    BY <1>26 DEF Extract, Within, Receiving, Failed, ledger
  <2>2. Clean /\ InIteration /\ i \in DOMAIN doc
    BY <2>1, StillClean, WithinSection
  <2>3. Own(i) = 0 /\ Attached(i) = 0 /\ ~IsAttached(doc, i + 1)
    BY <2>1, <2>2, AttachedNext DEF Own, Attached, Section, TypeInv
  <2>4. due = Reached(i) + (iter - 1) * (Own(i) + Attached(i)) + 0 /\ ~skip_next_section
    BY <2>1, <2>2, <2>3 DEF InIteration, Held
  <2>5. due' = Reached(i) + (iter - 1) * (Own(i) + Attached(i)) + (Own(i) + Attached(i))
    BY <2>1, <2>3, <2>4
  <2> QED
    BY <2>1, <2>2, <2>3, <2>4, <2>5, ReachedIteration
<1>27. ASSUME ErrorAtStart PROVE ReachedInv'
  <2> SUFFICES ASSUME Clean' PROVE ReachedInv'
    BY DEF ReachedInv
  <2>1. /\ pc \in {"await", "ready"} /\ NextIteration /\ Section.type = "ERROR"
        /\ failure_reasons \subseteq failure_reasons'
        /\ due' = due + Held(Judging, Len(Section.want) + Held(Attaches(doc, i), 1))
        /\ skip_next_section' = Attaches(doc, i)
        /\ UNCHANGED <<doc, settings, deferred_bidi_expectations>>
    BY <1>27 DEF ErrorAtStart, ExpectingError, JudgeError, Owe, Failed
  <2>2. Clean /\ InIteration /\ i \in DOMAIN doc /\ pc \in Within /\ Len(Section.want) \in Nat
    BY <2>1, StillClean, WithinSection DEF Within
  <2>3. Attaches(doc, i) <=> IsAttached(doc, i + 1)
    BY <2>1, <2>2, AttachedNext DEF InIteration, Section, TypeInv
  <2>4. Own(i) = Len(Section.want) /\ Attached(i) = Held(Attaches(doc, i), 1)
    BY <2>1, <2>3 DEF Own, Attached, Section, Held
  <2>5. due' = Reached(i) + (iter - 1) * (Own(i) + Attached(i)) + (Own(i) + Attached(i))
    <3>1. /\ due = Reached(i) + (iter - 1) * (Own(i) + Attached(i)) + 0
          /\ due' = due + (Own(i) + Attached(i))
      BY <2>1, <2>2, <2>4 DEF InIteration, Held, Clean, Receiving
    <3> QED
      BY <2>2, <3>1, SumNew, WithinSection
  <2> QED
    BY <2>1, <2>2, <2>3, <2>5, ReachedIteration
<1>28. ASSUME ErrorReceived PROVE ReachedInv'
  <2> SUFFICES ASSUME Clean' PROVE ReachedInv'
    BY DEF ReachedInv
  <2>1. /\ pc \in {"await", "ready"} /\ NextIteration /\ Section.type = "ERROR"
        /\ failure_reasons \subseteq failure_reasons'
        /\ due' = due + Held(Judging, Len(Section.want) + Held(Attaches(doc, i), 1))
        /\ skip_next_section' = Attaches(doc, i)
        /\ UNCHANGED <<doc, settings, deferred_bidi_expectations>>
    BY <1>28 DEF ErrorReceived, ExpectingError, JudgeError, Owe, Failed
  <2>2. Clean /\ InIteration /\ i \in DOMAIN doc /\ pc \in Within /\ Len(Section.want) \in Nat
    BY <2>1, StillClean, WithinSection DEF Within
  <2>3. Attaches(doc, i) <=> IsAttached(doc, i + 1)
    BY <2>1, <2>2, AttachedNext DEF InIteration, Section, TypeInv
  <2>4. Own(i) = Len(Section.want) /\ Attached(i) = Held(Attaches(doc, i), 1)
    BY <2>1, <2>3 DEF Own, Attached, Section, Held
  <2>5. due' = Reached(i) + (iter - 1) * (Own(i) + Attached(i)) + (Own(i) + Attached(i))
    <3>1. /\ due = Reached(i) + (iter - 1) * (Own(i) + Attached(i)) + 0
          /\ due' = due + (Own(i) + Attached(i))
      BY <2>1, <2>2, <2>4 DEF InIteration, Held, Clean, Receiving
    <3> QED
      BY <2>2, <3>1, SumNew, WithinSection
  <2> QED
    BY <2>1, <2>2, <2>3, <2>5, ReachedIteration
<1>29. ASSUME ErrorNotReceived PROVE ReachedInv'
  BY <1>29, NotClean DEF ErrorNotReceived, FailedIfJudging, Failed
<1>30. ASSUME ErrorTimeout PROVE ReachedInv'
  BY <1>30, NotClean DEF ErrorTimeout, Failed
<1>31. ASSUME FinishSections PROVE ReachedInv'
  <2> SUFFICES ASSUME Clean' PROVE ReachedInv'
    BY DEF ReachedInv
  <2>1. /\ pc = "section" /\ pc' \in {"final await", "final drain", "verdict"} /\ i \notin DOMAIN doc
        /\ UNCHANGED <<doc, settings, due, deferred_bidi_expectations, failure_reasons>>
    BY <1>31 DEF FinishSections, Goto, verdict, ledger
  <2>2. AtSection /\ Deferring
    BY <2>1, StillClean DEF ReachedInv
  <2>3. i = Len(doc) + 1
    <3>1. DOMAIN doc = 1..Len(doc) /\ Len(doc) \in Nat
      BY DocType DEF TypeInv
    <3>2. i \in 1..(Len(doc) + 1) /\ ~(i \in 1..Len(doc))
      BY <2>1, <2>2, <3>1 DEF AtSection
    <3> QED
      BY <3>1, <3>2
  <2>4. due' = AllObligations(doc')
    BY <2>1, <2>2, <2>3, ReachedAll DEF AtSection, TypeInv
  <2> QED
    BY <2>1, <2>2, <2>4, DeferringKept DEF ReachedInv, Within
<1>32. ASSUME FinalAwait PROVE ReachedInv'
  <2> SUFFICES ASSUME Clean' PROVE ReachedInv'
    BY DEF ReachedInv
  <2>1. /\ Concluding /\ pc' \in {"final await", "final drain", "verdict", "done"}
        /\ UNCHANGED <<doc, settings, due, deferred_bidi_expectations>>
        /\ failure_reasons \subseteq failure_reasons'
    BY <1>32 DEF FinalAwait, Concluding, Goto, Failed, runner, ledger
  <2> QED
    BY <2>1, StillClean, DeferringKept DEF ReachedInv, Within
<1>33. ASSUME FinalDrain PROVE ReachedInv'
  <2> SUFFICES ASSUME Clean' PROVE ReachedInv'
    BY DEF ReachedInv
  <2>1. /\ Concluding /\ pc' \in {"final await", "final drain", "verdict", "done"}
        /\ UNCHANGED <<doc, settings, due, deferred_bidi_expectations>>
        /\ failure_reasons \subseteq failure_reasons'
    BY <1>33 DEF FinalDrain, Concluding, Goto, Failed, runner, ledger
  <2> QED
    BY <2>1, StillClean, DeferringKept DEF ReachedInv, Within
<1>34. ASSUME FinalDrainEnds PROVE ReachedInv'
  <2> SUFFICES ASSUME Clean' PROVE ReachedInv'
    BY DEF ReachedInv
  <2>1. /\ Concluding /\ pc' \in {"final await", "final drain", "verdict", "done"}
        /\ UNCHANGED <<doc, settings, due, deferred_bidi_expectations>>
        /\ failure_reasons \subseteq failure_reasons'
    BY <1>34 DEF FinalDrainEnds, Concluding, Goto, Failed, runner, ledger
  <2> QED
    BY <2>1, StillClean, DeferringKept DEF ReachedInv, Within
<1>35. ASSUME GiveVerdict PROVE ReachedInv'
  <2> SUFFICES ASSUME Clean' PROVE ReachedInv'
    BY DEF ReachedInv
  <2>1. /\ Concluding /\ pc' \in {"final await", "final drain", "verdict", "done"}
        /\ UNCHANGED <<doc, settings, due, deferred_bidi_expectations>>
        /\ failure_reasons \subseteq failure_reasons'
    BY <1>35 DEF GiveVerdict, Concluding, Goto, Failed, runner, ledger
  <2> QED
    BY <2>1, StillClean, DeferringKept DEF ReachedInv, Within
<1>36. ASSUME PullRequest PROVE ReachedInv'
  BY <1>36, ReachedStands DEF PullRequest, runnerSide
<1>37. ASSUME NEW code \in Codes \cup {NoStatus}, CallFails(code) PROVE ReachedInv'
  BY <1>37, ReachedStands DEF CallFails, runnerSide
<1>38. ASSUME HeadersArrive PROVE ReachedInv'
  BY <1>38, ReachedStands DEF HeadersArrive, runnerSide
<1>39. ASSUME CallSucceeds PROVE ReachedInv'
  BY <1>39, ReachedStands DEF CallSucceeds, runnerSide
<1>40. ASSUME DropRequests PROVE ReachedInv'
  BY <1>40, ReachedStands DEF DropRequests, runnerSide
<1>41. ASSUME NEW v \in Payloads, ServeMessage(v) PROVE ReachedInv'
  BY <1>41, ReachedStands DEF ServeMessage, Serve, runnerSide
<1>42. ASSUME ServeTrailers PROVE ReachedInv'
  BY <1>42, ReachedStands DEF ServeTrailers, Serve, runnerSide
<1>43. ASSUME ServeEnd PROVE ReachedInv'
  BY <1>43, ReachedStands DEF ServeEnd, Serve, runnerSide
<1>44. ASSUME NEW code \in Codes, ServeError(code) PROVE ReachedInv'
  BY <1>44, ReachedStands DEF ServeError, Serve, runnerSide
<1>45. CASE UNCHANGED vars
  BY <1>45, ReachedStands DEF vars
<1> QED
  BY <1>1, <1>2, <1>3, <1>4, <1>5, <1>6, <1>7, <1>8, <1>9, <1>10, <1>11, <1>12, <1>13,
     <1>14, <1>15, <1>16, <1>17, <1>18, <1>19, <1>20, <1>21, <1>22, <1>23, <1>24, <1>25,
     <1>26, <1>27, <1>28, <1>29, <1>30, <1>31, <1>32, <1>33, <1>34, <1>35, <1>36, <1>37,
     <1>38, <1>39, <1>40, <1>41, <1>42, <1>43, <1>44, <1>45 DEF Next, RunnerStep,
     RequestSteps, ReaderSteps, ResponseSteps, AssertsSteps, ErrorSteps, FinishSteps,
     CallStep, ServerStep, Done

\* In every run of run_one a pass has checked all that the sections of its document
\* state: no skip, repetition, retry, deferral, attachment or early exit passes over
\* one, but in the three places over HTTP that Accountable names.
THEOREM NoSilentPassCorrect == Spec => []NoSilentPass
<1>1. Init => TypeInv /\ LedgerInv /\ ReachedInv
  <2> SUFFICES ASSUME Init PROVE TypeInv /\ LedgerInv /\ ReachedInv
    OBVIOUS
  <2>1. TypeInv /\ LedgerInv
    BY TypeInit, LedgerInit
  <2>2. Len(doc) \in Nat /\ i = 1 /\ pc = "start" /\ due = 0
    BY <2>1, DocType DEF TypeInv, Init
  <2>3. ~IsAttached(doc, i)
    BY <2>2 DEF IsAttached
  <2>4. Reached(i) = 0
    BY <2>2, <2>3, SumStep DEF Reached
  <2>5. AtSection
    BY <2>2, <2>3, <2>4 DEF Init, AtSection
  <2> QED
    BY <2>1, <2>2, <2>5 DEF Init, ReachedInv, Deferring, Within, Concluding, Finished
<1>2. TypeInv /\ LedgerInv /\ ReachedInv /\ [Next]_vars => (TypeInv /\ LedgerInv /\ ReachedInv)'
  BY TypeNext, LedgerNext, ReachedInvNext
<1>3. TypeInv /\ LedgerInv /\ ReachedInv => NoSilentPass
  <2> SUFFICES ASSUME TypeInv, LedgerInv, ReachedInv, Accountable, CleanPass
               PROVE  met = AllObligations(doc)
    BY DEF NoSilentPass
  <2>1. Clean
    BY DEF Clean, CleanPass, Accountable, is_http_bidi
  <2>2. due = AllObligations(doc) /\ deferred_bidi_expectations = <<>>
    BY <2>1 DEF ReachedInv, CleanPass, Concluding, Accountable, LedgerInv
  <2>3. met + Len(deferred_bidi_expectations) + 0 = due
    BY DEF LedgerInv, Ledger, CleanPass, Finished, Accountable, Held
  <2>4. met \in Nat /\ Len(deferred_bidi_expectations) = 0
    BY <2>2, EmptySeq DEF TypeInv, TypeOK
  <2> QED
    BY <2>2, <2>3, <2>4
<1> QED
  BY <1>1, <1>2, <1>3, PTL DEF Spec

-----------------------------------------------------------------------------
(* What the sections of a document expect of the stream.                   *)

\* A number has one remainder.
LEMMA Remainder ==
    ASSUME NEW q \in Nat, NEW l \in Nat \ {0}, NEW r \in 0..(l - 1)
    PROVE  (q * l + r) % l = r
<1> DEFINE a == q * l + r
           d == a \div l
           e == a % l
<1>1. q * l \in Nat /\ a \in Nat
  OBVIOUS
<1>2. d \in Nat /\ e \in 0..(l - 1)
  BY <1>1
<1>3. a = l * d + e
  BY <1>1
<1>4. ASSUME d < q PROVE FALSE
  <2>1. q - d \in Nat /\ q - d >= 1
    BY <1>2, <1>4
  <2>2. l * (q - d) >= l
    <3>1. \A x, y \in Nat : y >= 1 => x * y >= x
      OBVIOUS
    <3> QED
      BY <2>1, <3>1
  <2>3. l * (q - d) = q * l - l * d
    BY <1>2
  <2> HIDE DEF a, d, e
  <2>4. l * d \in Nat
    BY <1>2
  <2> QED
    BY <1>1, <1>2, <1>3, <2>2, <2>3, <2>4 DEF a
<1>5. ASSUME q < d PROVE FALSE
  <2>1. d - q \in Nat /\ d - q >= 1
    BY <1>2, <1>5
  <2>2. l * (d - q) >= l
    <3>1. \A x, y \in Nat : y >= 1 => x * y >= x
      OBVIOUS
    <3> QED
      BY <2>1, <3>1
  <2>3. l * (d - q) = l * d - q * l
    BY <1>2
  <2> HIDE DEF a, d, e
  <2>4. l * d \in Nat
    BY <1>2
  <2> QED
    BY <1>1, <1>2, <1>3, <2>2, <2>3, <2>4 DEF a
<1>6. d = q
  BY <1>2, <1>4, <1>5
<1>7. l * d = q * l
  BY <1>2, <1>6
<1>8. e = r
  <2> HIDE DEF a, d, e
  <2> QED
    BY <1>1, <1>2, <1>3, <1>7 DEF a
<1> QED
  BY <1>8

\* The q-th repetition of a sequence is the sequence.
LEMMA TimesIs ==
    ASSUME NEW S, NEW s \in Seq(S), NEW n \in Nat
    PROVE  /\ Times(s, n) \in Seq(S) /\ Len(Times(s, n)) = n * Len(s)
           /\ \A q \in 1..n : \A j \in 1..Len(s) :
                 /\ (q - 1) * Len(s) + j \in 1..(n * Len(s))
                 /\ Times(s, n)[(q - 1) * Len(s) + j] = s[j]
<1> DEFINE l == Len(s)
           t == Times(s, n)
<1>1. l \in Nat /\ DOMAIN s = 1..l /\ n * l \in Nat
  BY LenProperties
<1> HIDE DEF l
<1>2. t = [k \in 1..(n * l) |-> s[((k - 1) % l) + 1]]
  BY DEF Times, l
<1> HIDE DEF t
<1>3. ASSUME NEW k \in 1..(n * l) PROVE ((k - 1) % l) + 1 \in 1..l
  <2>1. l # 0
    <3>1. n * 0 = 0
      OBVIOUS
    <3> QED
      BY <1>3, <3>1
  <2>2. k - 1 \in Nat
    BY <1>1
  <2> QED
    BY <1>1, <2>1, <2>2
<1>4. \A k \in 1..(n * l) : t[k] \in S
  <2>1. \A j \in 1..l : s[j] \in S
    BY <1>1, ElementOfSeq
  <2> QED
    BY <1>2, <1>3, <2>1
<1>5. t \in Seq(S) /\ Len(t) = n * l
  <2>1. t \in [1..(n * l) -> S]
    BY <1>2, <1>4
  <2> QED
    BY <1>1, <2>1, SeqDef, LenProperties, IsASeq
<1>6. ASSUME NEW q \in 1..n, NEW j \in 1..l
      PROVE  (q - 1) * l + j \in 1..(n * l) /\ t[(q - 1) * l + j] = s[j]
  <2> DEFINE z == (q - 1) * l
  <2>1. z \in Nat /\ z + l <= n * l
    <3>1. \A x, y, m \in Nat : x + 1 <= m => x * y \in Nat /\ x * y + y <= m * y
      <4> SUFFICES ASSUME NEW x \in Nat, NEW y \in Nat, NEW m \in Nat, x + 1 <= m
                   PROVE  x * y \in Nat /\ x * y + y <= m * y
        OBVIOUS
      <4>1. m * y = x * y + (m - x) * y
        OBVIOUS
      <4>2. m - x \in Nat /\ m - x >= 1
        OBVIOUS
      <4>3. \A u, v \in Nat : u >= 1 => u * v >= v
        OBVIOUS
      <4>4. (m - x) * y >= y
        BY <4>2, <4>3
      <4>5. x * y \in Nat /\ m * y \in Nat /\ (m - x) * y \in Nat
        BY <4>2
      <4> QED
        BY <4>1, <4>4, <4>5
    <3> QED
      BY <1>1, <3>1
  <2>2. (q - 1) \in Nat /\ l \in Nat \ {0} /\ j - 1 \in 0..(l - 1)
    BY <1>1
  <2>3. (z + (j - 1)) % l = j - 1
    BY <2>2, Remainder
  <2> HIDE DEF z
  <2>4. z + j \in 1..(n * l) /\ (z + j) - 1 = z + (j - 1)
    BY <1>1, <2>1
  <2>5. t[z + j] = s[j]
    BY <1>1, <1>2, <2>3, <2>4
  <2> QED
    BY <2>4, <2>5 DEF z
<1> QED
  BY <1>5, <1>6 DEF l, t

\* The concatenation is one: a function of the number of sections that meets its
\* definition.
LEMMA ConcatenationExists ==
    ASSUME NEW d, NEW n \in Nat
    PROVE  \E f : f = [k \in 0..n |-> IF k = 0 THEN <<>> ELSE f[k - 1] \o Stated(d, k)]
<1> DEFINE Step(f, k) == IF k = 0 THEN <<>> ELSE f[k - 1] \o Stated(d, k)
           S == {m \in Nat : \E f : f = [k \in 0..m |-> Step(f, k)]}
<1>1. 0 \in S
  <2> DEFINE f == [k \in 0..0 |-> <<>>]
  <2>1. f = [k \in 0..0 |-> Step(f, k)]
    OBVIOUS
  <2> QED
    BY <2>1
<1>2. ASSUME NEW m \in Nat, m \in S PROVE m + 1 \in S
  <2>1. PICK f : f = [k \in 0..m |-> Step(f, k)]
    BY <1>2
  <2> DEFINE h == [k \in 0..(m + 1) |-> IF k = m + 1 THEN f[m] \o Stated(d, m + 1) ELSE f[k]]
  <2>2. ASSUME NEW k \in 0..(m + 1) PROVE h[k] = Step(h, k)
    <3>1. CASE k = m + 1
      <4>1. k # 0 /\ k - 1 = m /\ h[k] = f[m] \o Stated(d, k) /\ h[m] = f[m]
        BY <3>1
      <4> QED
        BY <4>1, Zenon
    <3>2. CASE k \in 0..m
      <4>1. h[k] = f[k] /\ (k # 0 => h[k - 1] = f[k - 1])
        BY <3>2
      <4>2. f[k] = Step(f, k)
        BY <2>1, <3>2
      <4> QED
        BY <4>1, <4>2
    <3> QED
      BY <3>1, <3>2
  <2>3. h = [k \in 0..(m + 1) |-> Step(h, k)]
    BY <2>2, Zenon
  <2> HIDE DEF h
  <2>4. \E g : g = [k \in 0..(m + 1) |-> Step(g, k)]
    BY <2>3, Zenon
  <2>5. m + 1 \in Nat
    OBVIOUS
  <2> QED
    BY <2>4, <2>5, Zenon
<1>3. n \in S
  <2> HIDE DEF S
  <2> QED
    BY <1>1, <1>2, SetInduction
<1> QED
  BY <1>3

\* It grows by what each section states,
LEMMA ConcatenationStep ==
    ASSUME NEW d, Len(d) \in Nat
    PROVE  /\ ExpectationsUpTo(d)[0] = <<>>
           /\ \A k \in 1..Len(d) : ExpectationsUpTo(d)[k] = ExpectationsUpTo(d)[k - 1] \o Stated(d, k)
<1> DEFINE f == ExpectationsUpTo(d)
<1>1. f = [k \in 0..Len(d) |-> IF k = 0 THEN <<>> ELSE f[k - 1] \o Stated(d, k)]
  BY ConcatenationExists DEF ExpectationsUpTo
<1> HIDE DEF f
<1>2. f[0] = <<>>
  BY <1>1
<1>3. ASSUME NEW k \in 1..Len(d) PROVE f[k] = f[k - 1] \o Stated(d, k)
  <2>1. k \in 0..Len(d) /\ k # 0
    OBVIOUS
  <2> QED
    BY <1>1, <2>1, Zenon
<1> QED
  BY <1>2, <1>3 DEF f

\* What a RESPONSE expects are messages.
LEMMA StatedType ==
    ASSUME TypeOK, NEW k \in DOMAIN doc
    PROVE  /\ Stated(doc, k) \in Seq(Payloads)
           /\ doc[k].type = "RESPONSE" => doc[k].want \in Seq(Payloads)
<1>1. doc[k].type = "RESPONSE" => doc[k].want \in Seq(Payloads)
  BY DocType DEF Sections
<1>2. get_repeat(doc, k) \in Nat
  BY RepeatType
<1>3. Stated(doc, k) \in Seq(Payloads)
  BY <1>1, <1>2, TimesIs, EmptySeq DEF Stated
<1> QED
  BY <1>1, <1>3

\* and stays a sequence of messages.
LEMMA ConcatenationType ==
    ASSUME TypeOK
    PROVE  \A k \in 0..Len(doc) : ExpectationsUpTo(doc)[k] \in Seq(Payloads)
<1> DEFINE U == ExpectationsUpTo(doc)
           S == {n \in Nat : n <= Len(doc) => U[n] \in Seq(Payloads)}
<1>1. Len(doc) \in Nat /\ DOMAIN doc = 1..Len(doc)
  BY DocType
<1>2. U[0] = <<>> /\ \A k \in 1..Len(doc) : U[k] = U[k - 1] \o Stated(doc, k)
  BY <1>1, ConcatenationStep
<1> HIDE DEF U
<1>3. 0 \in S
  BY <1>2, EmptySeq
<1>4. ASSUME NEW n \in Nat, n \in S PROVE n + 1 \in S
  <2> SUFFICES ASSUME n + 1 <= Len(doc) PROVE U[n + 1] \in Seq(Payloads)
    OBVIOUS
  <2>1. n + 1 \in 1..Len(doc) /\ (n + 1) - 1 = n /\ n <= Len(doc)
    BY <1>1
  <2>2. U[n + 1] = U[n] \o Stated(doc, n + 1) /\ U[n] \in Seq(Payloads)
    BY <1>2, <1>4, <2>1
  <2>3. Stated(doc, n + 1) \in Seq(Payloads)
    BY <1>1, <2>1, StatedType
  <2> QED
    BY <2>2, <2>3, ConcatProperties
<1>5. \A n \in Nat : n \in S
  <2> HIDE DEF S
  <2> QED
    BY <1>3, <1>4, SetInduction
<1>6. \A k \in 0..Len(doc) : U[k] \in Seq(Payloads)
  BY <1>1, <1>5
<1> QED
  BY <1>6 DEF U

\* What the first k sections expect begins what all expect.
LEMMA ConcatenationPrefix ==
    ASSUME TypeOK
    PROVE  \A k \in 0..Len(doc) : MatchesPrefix(ExpectationsUpTo(doc)[k], Expectations(doc))
<1> DEFINE U == ExpectationsUpTo(doc)
           E == Expectations(doc)
           S == {n \in Nat : n <= Len(doc) => MatchesPrefix(U[Len(doc) - n], E)}
<1>1. Len(doc) \in Nat /\ DOMAIN doc = 1..Len(doc)
  BY DocType
<1>2. /\ \A k \in 0..Len(doc) : U[k] \in Seq(Payloads)
      /\ \A k \in 1..Len(doc) : U[k] = U[k - 1] \o Stated(doc, k)
      /\ E = U[Len(doc)]
  BY <1>1, ConcatenationStep, ConcatenationType DEF Expectations
<1> HIDE DEF U, E
<1>3. 0 \in S
  <2>1. Len(E) \in Nat /\ U[Len(doc) - 0] = E
    BY <1>1, <1>2, LenProperties
  <2> QED
    BY <2>1 DEF MatchesPrefix
<1>4. ASSUME NEW n \in Nat, n \in S PROVE n + 1 \in S
  <2> SUFFICES ASSUME n + 1 <= Len(doc) PROVE MatchesPrefix(U[Len(doc) - (n + 1)], E)
    OBVIOUS
  <2> DEFINE k == Len(doc) - n
             before == U[k - 1]
             own == Stated(doc, k)
  <2>1. k \in 1..Len(doc) /\ Len(doc) - (n + 1) = k - 1 /\ k - 1 \in 0..Len(doc) /\ n <= Len(doc)
    BY <1>1
  <2>2. U[k] = before \o own /\ before \in Seq(Payloads) /\ MatchesPrefix(U[k], E)
    BY <1>2, <1>4, <2>1
  <2>3. own \in Seq(Payloads)
    BY <1>1, <2>1, StatedType
  <2> HIDE DEF before, own, k
  <2>4. /\ Len(before \o own) = Len(before) + Len(own) /\ Len(before) \in Nat /\ Len(own) \in Nat
        /\ DOMAIN before = 1..Len(before)
        /\ DOMAIN (before \o own) = 1..(Len(before) + Len(own))
        /\ \A j \in 1..Len(before) : (before \o own)[j] = before[j]
    BY <2>2, <2>3, ConcatProperties, LenProperties
  <2>5. Len(E) \in Nat
    BY <1>1, <1>2, LenProperties
  <2>6. MatchesPrefix(before, E)
    BY <2>2, <2>4, <2>5 DEF MatchesPrefix
  <2> QED
    BY <2>1, <2>6 DEF before
<1>5. \A n \in Nat : n \in S
  <2> HIDE DEF S
  <2> QED
    BY <1>3, <1>4, SetInduction
<1>6. ASSUME NEW k \in 0..Len(doc) PROVE MatchesPrefix(U[k], E)
  <2>1. Len(doc) - k \in Nat /\ Len(doc) - k <= Len(doc) /\ Len(doc) - (Len(doc) - k) = k
    BY <1>1
  <2> QED
    BY <1>5, <2>1
<1> QED
  BY <1>6 DEF U, E

\* The number of messages the first k sections expect.
Before(k) == Len(ExpectationsUpTo(doc)[k])

\* None expect no message, and none expect more than all do.
LEMMA BeforeType ==
    ASSUME TypeOK
    PROVE  /\ Before(0) = 0 /\ Before(Len(doc)) = Len(Expectations(doc))
           /\ Expectations(doc) \in Seq(Payloads) /\ Len(Expectations(doc)) \in Nat
           /\ DOMAIN Expectations(doc) = 1..Len(Expectations(doc))
           /\ \A k \in 0..Len(doc) : Before(k) \in Nat /\ Before(k) <= Len(Expectations(doc))
<1>1. Len(doc) \in Nat
  BY DocType
<1>2. Expectations(doc) \in Seq(Payloads)
  BY <1>1, ConcatenationType DEF Expectations
<1>3. Before(0) = 0
  BY <1>1, ConcatenationStep, EmptySeq DEF Before
<1>4. \A k \in 0..Len(doc) : Before(k) \in Nat /\ Before(k) <= Len(Expectations(doc))
  BY ConcatenationType, ConcatenationPrefix, LenProperties DEF Before, MatchesPrefix
<1> QED
  BY <1>2, <1>3, <1>4, LenProperties DEF Before, Expectations

\* Section k adds what it states, and each of its iterations expects what it wants.
LEMMA BeforeNext ==
    ASSUME TypeOK, NEW k \in DOMAIN doc
    PROVE  /\ k \in 1..Len(doc) /\ k - 1 \in 0..Len(doc) /\ k \in 0..Len(doc)
           /\ doc[k].type # "RESPONSE" \/ get_skip(doc, k) => Before(k) = Before(k - 1)
           /\ doc[k].type = "RESPONSE" /\ ~get_skip(doc, k)
                => /\ Before(k) = Before(k - 1) + get_repeat(doc, k) * Len(doc[k].want)
                   /\ \A q \in 1..get_repeat(doc, k) : \A j \in 1..Len(doc[k].want) :
                         Expectations(doc)[Before(k - 1) + (q - 1) * Len(doc[k].want) + j] = doc[k].want[j]
<1> DEFINE U == ExpectationsUpTo(doc)
           E == Expectations(doc)
           own == Stated(doc, k)
           b == Before(k - 1)
           want == doc[k].want
           times == get_repeat(doc, k)
<1>1. k \in 1..Len(doc) /\ k - 1 \in 0..Len(doc) /\ k \in 0..Len(doc)
  BY DocType
<1>2. U[k] = U[k - 1] \o own /\ U[k - 1] \in Seq(Payloads) /\ own \in Seq(Payloads)
  BY <1>1, DocType, ConcatenationStep, ConcatenationType, StatedType
<1>3. MatchesPrefix(U[k], E)
  BY <1>1, ConcatenationPrefix
<1>4. b = Len(U[k - 1]) /\ Before(k) = Len(U[k])
  BY DEF Before
<1>5. b \in Nat
  BY <1>2, <1>4, LenProperties
<1> HIDE DEF U, E, own, b
<1>6. /\ Before(k) = b + Len(own) /\ Len(own) \in Nat
      /\ \A j \in 1..Len(own) : b + j \in DOMAIN U[k] /\ U[k][b + j] = own[j]
  BY <1>2, <1>4, <1>5, ConcatProperties, LenProperties
<1>7. CASE doc[k].type # "RESPONSE" \/ get_skip(doc, k)
  <2>1. Len(own) = 0
    BY <1>7, EmptySeq DEF own, Stated
  <2>2. Before(k) = b
    BY <1>5, <1>6, <2>1
  <2> QED
    BY <1>1, <1>7, <2>2, Zenon DEF b
<1>8. CASE doc[k].type = "RESPONSE" /\ ~get_skip(doc, k)
  <2>1. own = Times(want, times) /\ want \in Seq(Payloads) /\ times \in Nat
    BY <1>8, StatedType, RepeatType DEF own, Stated
  <2> HIDE DEF want, times
  <2>2. /\ Len(own) = times * Len(want)
        /\ \A q \in 1..times : \A j \in 1..Len(want) :
              /\ (q - 1) * Len(want) + j \in 1..Len(own)
              /\ own[(q - 1) * Len(want) + j] = want[j]
    BY <2>1, TimesIs
  <2>3. ASSUME NEW q \in 1..times, NEW j \in 1..Len(want)
        PROVE  E[b + (q - 1) * Len(want) + j] = want[j]
    <3> DEFINE z == (q - 1) * Len(want)
    <3>0. z \in Nat
      <4>1. q - 1 \in Nat /\ Len(want) \in Nat
        BY <2>1, LenProperties
      <4> QED
        BY <4>1
    <3>1. z + j \in 1..Len(own) /\ own[z + j] = want[j]
      BY <2>2
    <3> HIDE DEF z
    <3>2. b + (z + j) \in DOMAIN U[k] /\ U[k][b + (z + j)] = want[j]
      BY <1>6, <3>1
    <3>3. E[b + (z + j)] = want[j]
      BY <1>3, <3>2 DEF MatchesPrefix
    <3>4. b + (z + j) = b + z + j
      BY <1>5, <3>0
    <3> QED
      BY <3>3, <3>4 DEF z
  <2> QED
    BY <1>1, <1>6, <1>8, <2>2, <2>3 DEF b, want, times, E
<1> QED
  BY <1>7, <1>8

-----------------------------------------------------------------------------
(* How the stream is compared with what the sections expect.               *)

\* Of n messages expected so far all but those waiting have come, as expected.
Agrees(n, waiting) ==
    LET m == n - Len(waiting)
        expected == Expectations(doc)
    IN  /\ n <= Len(expected) /\ m \in 0..Len(served)
        /\ \A j \in DOMAIN waiting : waiting[j] = expected[m + j]
        /\ \A j \in 1..m : served[j] = expected[j]

\* A section that reads the stream is still to come, or has not drained it yet.
Ahead ==
    /\ pc \in Walking /\ (pc \in {"drain", "attach"} => ~IsLastReader(doc, i))
    /\ \E k \in DOMAIN doc : k >= i /\ doc[k].type = "RESPONSE"

\* As long as messages are read, those not read yet are on the wire.
Reads(n, waiting) ==
    /\ Agrees(n, waiting)
    /\ Ahead /\ call # "err" /\ ~Lost => Outstanding(n - Len(waiting))

\* The messages an iteration of the section expects, the number a run has come to,
\* and those of them that have not been compared.
Each == IF Section.type = "RESPONSE" THEN Len(Section.want) ELSE 0
Position ==
    CASE pc \in {"start", "section"} -> Before(i - 1)
      [] pc \in Within -> Before(i - 1) + (iter - 1) * Each + Held(pc \in Receiving, Each)
      [] OTHER -> Len(Expectations(doc))
Pending == IF pc = "read" THEN todo ELSE deferred_bidi_expectations

\* A run whose verdict is a comparison with the stream, and that has not failed.
Compared == Streamlined(doc) /\ Judging
Holding == Compared /\ failure_reasons = {}

InPlace ==
    /\ ~skip_next_section
    /\ pc \in {"start", "section"} => i \in 1..(Len(doc) + 1) /\ iter = 1
    /\ pc \in Within => ~get_skip(doc, i) /\ iter \in 1..get_repeat(doc, i)
    /\ pc \in Receiving => deferred_bidi_expectations = <<>>

OrderInv == Holding => InPlace /\ (pc \in Walking \/ Concluding => Reads(Position, Pending))

\* More is expected.
LEMMA AgreesMore ==
    ASSUME TypeInv, NEW n \in Nat, NEW p \in Seq(Payloads), NEW w \in Seq(Payloads), Agrees(n, p),
           n + Len(w) <= Len(Expectations(doc)), \A j \in 1..Len(w) : Expectations(doc)[n + j] = w[j]
    PROVE  Agrees(n + Len(w), p \o w) /\ (n + Len(w)) - Len(p \o w) = n - Len(p)
<1> DEFINE m == n - Len(p)
           a == Len(p)
           b == Len(w)
           both == p \o w
           expected == Expectations(doc)
<1>1. a \in Nat /\ b \in Nat /\ DOMAIN p = 1..a /\ Len(served) \in Nat /\ Len(expected) \in Nat
  BY LenProperties, UnreadTypes, BeforeType DEF TypeInv
<1>2. /\ Len(both) = a + b /\ DOMAIN both = 1..(a + b)
      /\ \A j \in 1..a : both[j] = p[j]
      /\ \A j \in 1..b : both[a + j] = w[j]
  BY <1>1, ConcatProperties, LenProperties
<1>3. /\ m \in 0..Len(served) /\ m = n - a /\ n + b <= Len(expected)
      /\ \A j \in 1..a : p[j] = expected[m + j]
      /\ \A j \in 1..m : served[j] = expected[j]
      /\ \A j \in 1..b : expected[n + j] = w[j]
  BY <1>1 DEF Agrees
<1> HIDE DEF a, b, both, expected, m
<1>4. (n + b) - (a + b) = m /\ m + a = n /\ m \in Nat
  BY <1>1, <1>3
<1>5. ASSUME NEW j \in 1..(a + b) PROVE both[j] = expected[m + j]
  <2>1. CASE j \in 1..a
    BY <1>2, <1>3, <2>1
  <2>2. CASE j \notin 1..a
    <3>1. j - a \in 1..b /\ a + (j - a) = j /\ n + (j - a) = m + j
      BY <1>1, <1>4, <2>2
    <3>2. PICK k : k = j - a
      OBVIOUS
    <3>3. both[a + k] = w[k] /\ expected[n + k] = w[k]
      BY <1>2, <1>3, <3>1, <3>2
    <3> QED
      BY <3>1, <3>2, <3>3
  <2> QED
    BY <2>1, <2>2
<1>6. /\ n + b <= Len(expected) /\ (n + b) - Len(both) = m /\ m \in 0..Len(served)
      /\ DOMAIN both = 1..(a + b)
  BY <1>2, <1>3, <1>4
<1>7. (n + b) - Len(both) = n - a
  BY <1>3, <1>6
<1>8. Agrees(n + b, both)
  BY <1>3, <1>5, <1>6 DEF Agrees, expected
<1> QED
  BY <1>7, <1>8 DEF a, b, both

\* The next one comes, as expected.
LEMMA AgreesTake ==
    ASSUME TypeInv, NEW n \in Nat, NEW p \in Seq(Payloads), Agrees(n, p), p # <<>>,
           (n - Len(p)) + 1 <= Len(served), served[(n - Len(p)) + 1] = Head(p)
    PROVE  Agrees(n, Tail(p)) /\ n - Len(Tail(p)) = (n - Len(p)) + 1
<1> DEFINE m == n - Len(p)
           a == Len(p)
           rest == Tail(p)
           expected == Expectations(doc)
<1>1. /\ a \in Nat /\ a # 0 /\ DOMAIN p = 1..a /\ Len(served) \in Nat /\ Len(expected) \in Nat
      /\ Len(rest) = a - 1 /\ DOMAIN rest = 1..(a - 1) /\ Head(p) = p[1]
      /\ \A j \in 1..(a - 1) : rest[j] = p[j + 1]
  BY LenProperties, EmptySeq, HeadTailProperties, UnreadTypes, BeforeType DEF TypeInv
<1>2. /\ m \in 0..Len(served) /\ m = n - a /\ n <= Len(expected)
      /\ \A j \in 1..a : p[j] = expected[m + j]
      /\ \A j \in 1..m : served[j] = expected[j]
      /\ m + 1 <= Len(served) /\ served[m + 1] = p[1]
  BY <1>1 DEF Agrees
<1> HIDE DEF a, rest, expected, m
<1>3. n - (a - 1) = m + 1 /\ m + 1 \in 0..Len(served)
  BY <1>1, <1>2
<1>4. ASSUME NEW j \in 1..(a - 1) PROVE rest[j] = expected[(m + 1) + j]
  <2>1. j + 1 \in 1..a /\ m + (j + 1) = (m + 1) + j
    BY <1>1, <1>2
  <2> QED
    BY <1>1, <1>2, <2>1
<1>5. ASSUME NEW j \in 1..(m + 1) PROVE served[j] = expected[j]
  <2>1. CASE j \in 1..m
    BY <1>2, <2>1
  <2>2. CASE j = m + 1
    <3>1. 1 \in 1..a
      BY <1>1
    <3> QED
      BY <1>2, <2>2, <3>1
  <2>3. j \in 1..m \/ j = m + 1
    BY <1>2
  <2> QED
    BY <2>1, <2>2, <2>3
<1>6. n - Len(rest) = m + 1
  BY <1>1, <1>3
<1>7. Agrees(n, rest)
  BY <1>1, <1>2, <1>3, <1>4, <1>5, <1>6 DEF Agrees, expected
<1> QED
  BY <1>6, <1>7 DEF m, rest

\* The server may go on.
LEMMA AgreesServed ==
    ASSUME TypeInv, NEW n \in Nat, NEW p, Agrees(n, p), doc' = doc, NEW v \in Payloads,
           served' = served \/ served' = Append(served, v)
    PROVE  Agrees(n, p)'
<1>1. Len(served) \in Nat /\ served \in Seq(Payloads)
  BY UnreadTypes
<1>2. Len(served') >= Len(served) /\ Len(served') \in Nat /\ \A j \in 1..Len(served) : served'[j] = served[j]
  BY <1>1, AppendProperties
<1>3. Expectations(doc)' = Expectations(doc)
  BY DEF Expectations
<1> QED
  BY <1>1, <1>2, <1>3 DEF Agrees

\* Of what a run is at, n and p are the values.
LEMMA ReadsNext ==
    ASSUME NEW n, NEW p, Position' = n, Pending' = p, Reads(n, p)'
    PROVE  Reads(Position, Pending)'
  BY DEF Reads, Agrees, Outstanding

\* A step that takes nothing off the wire, unless nobody is to read it any more.
LEMMA ReadsKept ==
    ASSUME TypeInv, NEW n \in Nat, NEW p, Reads(n, p), UNCHANGED <<doc, settings, served>>,
           Ahead' => Ahead /\ UNCHANGED <<wire, ended>>, call' # "err" => call # "err"
    PROVE  Reads(n, p)'
<1>1. Agrees(n, p)'
  BY DEF Reads, Agrees, Expectations
<1>2. ASSUME Ahead', call' # "err", ~Lost' PROVE Outstanding(n - Len(p))'
  BY <1>2 DEF Reads, Lost, Outstanding
<1> QED
  BY <1>1, <1>2 DEF Reads

\* A failure ends what a comparison is held to.
LEMMA NotHolding ==
    ASSUME Judging => failure_reasons' # {}, UNCHANGED settings
    PROVE  OrderInv'
  BY DEF OrderInv, Holding, Compared, Judging

\* A run that has not failed had not before the step.
LEMMA HeldBefore ==
    ASSUME Holding', UNCHANGED <<doc, settings>>, failure_reasons \subseteq failure_reasons'
    PROVE  Holding
  BY DEF Holding, Compared, Judging, Streamlined, ResponsesOnly, DrainsOnce

\* What is at hand inside a section: it is not one that judges an error or asserts.
LEMMA SectionAt ==
    ASSUME TypeInv, Streamlined(doc), pc \in Within
    PROVE  /\ i \in DOMAIN doc /\ Section.type \in {"REQUEST", "RESPONSE", "EXTRACT"}
           /\ ~Attaches(doc, i)
           /\ Section.type = "RESPONSE" => Section.want \in Seq(Payloads) /\ Len(Section.want) \in Nat
           /\ Each \in Nat /\ Before(i - 1) \in Nat /\ get_repeat(doc, i) \in Nat
           /\ iter \in Nat /\ todo \in Seq(Payloads) /\ deferred_bidi_expectations \in Seq(Payloads)
<1>1. i \in DOMAIN doc
  BY DEF TypeInv, InSection, Within
<1>2. Section.type \in SectionTypes /\ Section.type \notin {"ASSERTS", "ERROR"}
  <2>1. Section \in Sections(Payloads, Payloads \cup Codes, Names)
    BY <1>1, DocType DEF TypeInv, Section
  <2> QED
    BY <1>1, <2>1 DEF Sections, Streamlined, ResponsesOnly, HasType, Section
<1>3. ~Attaches(doc, i)
  BY DEF Attaches, Streamlined, ResponsesOnly, HasType
<1>4. Section.type = "RESPONSE" => Section.want \in Seq(Payloads) /\ Len(Section.want) \in Nat
  BY <1>1, StatedType, LenProperties DEF TypeInv, Section
<1>5. Before(i - 1) \in Nat
  BY <1>1, BeforeType, BeforeNext DEF TypeInv
<1>6. get_repeat(doc, i) \in Nat
  BY <1>1, RepeatType DEF TypeInv
<1> QED
  BY <1>1, <1>2, <1>3, <1>4, <1>5, <1>6 DEF Each, SectionTypes, TypeInv, TypeOK, RunnerTypeOK, VerdictTypeOK

\* A step inside an iteration.
LEMMA OrderKept ==
    ASSUME TypeInv, OrderInv, pc \in Within, pc' \in Within,
           pc' \in Receiving <=> pc \in Receiving,
           UNCHANGED <<doc, settings, i, iter, served, skip_next_section, deferred_bidi_expectations>>,
           failure_reasons \subseteq failure_reasons',
           pc' = "read" => pc = "read" /\ todo' = todo,
           pc = "read" /\ pc' # "read" => todo = <<>>,
           Ahead' => Ahead /\ UNCHANGED <<wire, ended>>, call' # "err" => call # "err"
    PROVE  OrderInv'
<1> SUFFICES ASSUME Holding' PROVE OrderInv'
  BY DEF OrderInv
<1>1. Holding /\ InPlace /\ Reads(Position, Pending)
  BY HeldBefore DEF OrderInv, Within, Walking
<1>2. Section' = Section /\ Each' = Each /\ Before(i - 1)' = Before(i - 1)
  BY DEF Section, Each, Before
<1>3. Position' = Position
  BY <1>2 DEF Position, Within, Held
<1>4. Pending' = Pending
  BY <1>1 DEF Pending, InPlace, Receiving
<1>5. InPlace'
  BY <1>1, <1>2 DEF InPlace, Within
<1>6. Position \in Nat
  BY <1>1, SectionAt DEF Position, Within, Held, Holding, Compared, InPlace
<1>7. ASSUME NEW n \in Nat, NEW p, n = Position, p = Pending PROVE Reads(Position, Pending)'
  <2>1. Reads(n, p)
    BY <1>1, <1>7
  <2>2. Reads(n, p)'
    BY <2>1, ReadsKept
  <2> QED
    BY <1>3, <1>4, <1>7, <2>2, ReadsNext
<1> QED
  BY <1>5, <1>6, <1>7 DEF OrderInv

\* Inside a section the place in the concatenation is a number.
LEMMA PositionWithin ==
    ASSUME TypeInv, Holding, InPlace, pc \in Within
    PROVE  /\ Position = Before(i - 1) + (iter - 1) * Each + Held(pc \in Receiving, Each)
           /\ Position \in Nat /\ (iter - 1) * Each \in Nat
<1>1. iter - 1 \in Nat /\ Each \in Nat /\ Before(i - 1) \in Nat
  BY SectionAt DEF Holding, Compared, InPlace
<1>2. (iter - 1) * Each \in Nat
  BY <1>1
<1>3. Position = Before(i - 1) + (iter - 1) * Each + Held(pc \in Receiving, Each)
  BY DEF Position, Within
<1> QED
  BY <1>1, <1>2, <1>3 DEF Held

\* Everywhere it is.
LEMMA PositionType ==
    ASSUME TypeInv, Holding, InPlace
    PROVE  Position \in Nat /\ Pending \in Seq(Payloads)
<1>1. ASSUME pc \in Within PROVE Position \in Nat
  BY <1>1, PositionWithin
<1>2. ASSUME pc \in {"start", "section"} PROVE Position \in Nat
  <2>1. i - 1 \in 0..Len(doc)
    BY <1>2, DocType DEF InPlace, TypeInv
  <2>2. Before(i - 1) \in Nat
    BY <2>1, BeforeType DEF TypeInv
  <2> QED
    BY <1>2, <2>2 DEF Position, Within
<1>3. pc \notin Within \cup {"start", "section"} => Position \in Nat
  BY BeforeType DEF Position, TypeInv
<1>4. Pending \in Seq(Payloads)
  BY DEF Pending, TypeInv, TypeOK, RunnerTypeOK, VerdictTypeOK
<1> QED
  BY <1>1, <1>2, <1>3, <1>4

\* The end of an iteration: the next one, or the next section, begins where it ends.
LEMMA OrderIteration ==
    ASSUME TypeInv, Holding, InPlace, pc \in Within, NextIteration,
           UNCHANGED <<doc, settings, wire, served, ended, call, skip_next_section>>,
           pc \in {"drain", "attach"} => Section.type = "RESPONSE",
           NEW n, n = Before(i - 1) + (iter - 1) * Each + Each,
           NEW p, p = deferred_bidi_expectations', Reads(n, p)
    PROVE  OrderInv'
<1> DEFINE times == get_repeat(doc, i)
           b == Before(i - 1)
           e == Each
<1>1. /\ i \in DOMAIN doc /\ b \in Nat /\ e \in Nat /\ times \in Nat /\ iter \in 1..times
      /\ ~get_skip(doc, i) /\ ~Attaches(doc, i) /\ Streamlined(doc)
      /\ DOMAIN doc = 1..Len(doc) /\ Len(doc) \in Nat
  BY SectionAt, DocType DEF Holding, Compared, InPlace, TypeInv
<1>2. n = b + (iter - 1) * e + e
  OBVIOUS
<1>3. /\ Section.type = "RESPONSE" => Before(i) = b + times * e
      /\ Section.type # "RESPONSE" => Before(i) = b /\ e = 0
  BY <1>1, BeforeNext DEF Each, Section, TypeInv
<1> HIDE DEF times, b, e
<1>4. (iter - 1) * e \in Nat /\ iter * e \in Nat /\ times * e \in Nat /\ (iter - 1) * e + e = iter * e
  <2>1. \A x \in Nat : \A y \in 1..times : (y - 1) * x \in Nat /\ y * x \in Nat /\ (y - 1) * x + x = y * x
    BY <1>1
  <2>2. times * e \in Nat
    BY <1>1
  <2> QED
    BY <1>1, <2>1, <2>2
<1>5. n = b + iter * e /\ n \in Nat
  BY <1>1, <1>2, <1>4
<1>6. pc \in {"drain", "attach"} /\ IsLastReader(doc, i) => times = 1
  BY <1>1 DEF Streamlined, DrainsOnce, Section, times
<1>7. ASSUME Ahead', (pc' = "exec" /\ i' = i /\ iter < times) \/ (pc' = "section" /\ i' = i + 1)
      PROVE  Ahead
  <2>1. pc \in Walking
    BY DEF Within, Walking
  <2>2. PICK k \in DOMAIN doc : k >= i' /\ doc[k].type = "RESPONSE"
    BY <1>7 DEF Ahead
  <2>3. k >= i
    BY <1>1, <1>7, <2>2
  <2>4. ASSUME pc \in {"drain", "attach"}, IsLastReader(doc, i) PROVE FALSE
    <3>1. i' = i + 1
      BY <1>1, <1>6, <1>7, <2>4
    <3> QED
      BY <1>1, <2>2, <2>4, <3>1 DEF IsLastReader
  <2> QED
    BY <2>1, <2>2, <2>3, <2>4 DEF Ahead
<1>8. ASSUME (pc' = "exec" /\ i' = i /\ iter < times) \/ (pc' = "section" /\ i' = i + 1)
      PROVE  Reads(n, p)'
  <2>1. Ahead' => Ahead
    BY <1>7, <1>8
  <2>2. n \in Nat /\ call' = call
    BY <1>5
  <2> QED
    BY <2>1, <2>2, ReadsKept
<1>9. CASE iter < times
  <2>1. pc' = "exec" /\ i' = i /\ iter' = iter + 1
    BY <1>9 DEF NextIteration, times
  <2>2. iter' \in 1..times /\ iter' - 1 = iter
    BY <1>1, <1>9, <2>1
  <2>3. Before(i - 1)' = b /\ Each' = e
    BY <2>1 DEF Before, Each, Section, b, e
  <2>4. Position' = b + iter * e + 0
    BY <2>1, <2>2, <2>3 DEF Position, Within, Receiving, Held
  <2>5. Position' = n /\ Pending' = p
    BY <1>1, <1>4, <1>5, <2>1, <2>4 DEF Pending
  <2>6. Reads(Position, Pending)'
    BY <1>8, <1>9, <2>1, <2>5, ReadsNext
  <2>7. InPlace'
    BY <1>1, <2>1, <2>2 DEF InPlace, Receiving, times
  <2> QED
    BY <2>6, <2>7 DEF OrderInv
<1>10. CASE ~(iter < times)
  <2>1. pc' = "section" /\ i' = i + 1 /\ iter' = 1 /\ iter = times
    BY <1>1, <1>10 DEF NextIteration, NextSection, times
  <2>2. i' - 1 = i /\ i' \in 1..(Len(doc) + 1)
    BY <1>1, <2>1
  <2>3. Position' = Before(i)
    <3>1. Position' = Len(ExpectationsUpTo(doc)[i' - 1])
      BY <2>1 DEF Position, Before, Within
    <3> QED
      BY <2>2, <3>1, Zenon DEF Before
  <2>4. Before(i) = n
    <3>1. times * 0 = 0
      BY <1>1
    <3> QED
      BY <1>1, <1>3, <1>5, <2>1, <3>1
  <2>5. Position' = n /\ Pending' = p
    BY <2>1, <2>3, <2>4 DEF Pending
  <2>6. Reads(Position, Pending)'
    BY <1>8, <2>1, <2>5, ReadsNext
  <2>7. InPlace'
    BY <1>1, <2>1, <2>2 DEF InPlace, Receiving, Within
  <2> QED
    BY <2>6, <2>7 DEF OrderInv
<1> QED
  BY <1>9, <1>10

\* A step of the call or of the server.
LEMMA OrderServed ==
    ASSUME TypeInv, OrderInv, UNCHANGED runnerSide,
           \A n \in Nat : \A p \in Seq(Payloads) : Reads(n, p) => Reads(n, p)'
    PROVE  OrderInv'
<1> SUFFICES ASSUME Holding' PROVE OrderInv'
  BY DEF OrderInv
<1>1. UNCHANGED <<doc, settings, pc, i, iter, todo, failure_reasons, skip_next_section,
                  deferred_bidi_expectations, result>>
  BY DEF runnerSide, runner, verdict
<1>2. Holding
  BY <1>1, HeldBefore
<1>3. InPlace'
  BY <1>1, <1>2 DEF OrderInv, InPlace
<1>4. SUFFICES ASSUME (pc \in Walking \/ Concluding)' PROVE Reads(Position, Pending)'
  BY <1>3 DEF OrderInv
<1>5. Reads(Position, Pending)
  BY <1>1, <1>2, <1>4 DEF OrderInv, Concluding, Finished
<1>6. Position' = Position /\ Pending' = Pending
  BY <1>1 DEF Position, Pending, Each, Section, Before, Held
<1>7. Position \in Nat /\ Pending \in Seq(Payloads)
  BY <1>2, PositionType DEF OrderInv
<1>8. ASSUME NEW n \in Nat, NEW p \in Seq(Payloads), n = Position, p = Pending
      PROVE  Reads(Position, Pending)'
  <2>1. Reads(n, p)'
    BY <1>5, <1>8
  <2> QED
    BY <1>6, <1>8, <2>1, ReadsNext
<1> QED
  BY <1>7, <1>8

\* Where a run that has not failed is.
LEMMA AtPlace ==
    ASSUME TypeInv, OrderInv, Holding, pc \in Walking \/ Concluding
    PROVE  InPlace /\ \E n \in Nat : \E p \in Seq(Payloads) : n = Position /\ p = Pending /\ Reads(n, p)
<1>1. InPlace /\ Reads(Position, Pending)
  BY DEF OrderInv
<1>2. Position \in Nat /\ Pending \in Seq(Payloads)
  BY <1>1, PositionType
<1> QED
  BY <1>1, <1>2

\* A step that leaves it there.
LEMMA OrderStands ==
    ASSUME TypeInv, OrderInv, Holding, pc \in Walking \/ Concluding,
           InPlace', Position' = Position, Pending' = Pending, UNCHANGED <<doc, settings, served>>,
           Ahead' => Ahead /\ UNCHANGED <<wire, ended>>, call' # "err" => call # "err"
    PROVE  OrderInv'
<1>1. PICK n \in Nat, p \in Seq(Payloads) : n = Position /\ p = Pending /\ Reads(n, p)
  BY AtPlace
<1>2. Reads(n, p)'
  BY <1>1, ReadsKept
<1>3. Reads(Position, Pending)'
  BY <1>1, <1>2, ReadsNext
<1> QED
  BY <1>3 DEF OrderInv

\* What the section at hand wants is what is expected next.
LEMMA WantedNext ==
    ASSUME TypeInv, Holding, InPlace, pc \in Within \ Receiving, Section.type = "RESPONSE"
    PROVE  /\ Position + Len(Section.want) <= Len(Expectations(doc))
           /\ \A j \in 1..Len(Section.want) : Expectations(doc)[Position + j] = Section.want[j]
<1> DEFINE times == get_repeat(doc, i)
           b == Before(i - 1)
           e == Len(Section.want)
           expected == Expectations(doc)
<1>1. /\ i \in DOMAIN doc /\ b \in Nat /\ e \in Nat /\ times \in Nat /\ iter \in 1..times
      /\ ~get_skip(doc, i) /\ Each = e
  BY SectionAt DEF Holding, Compared, InPlace, Each
<1>2. Position = b + (iter - 1) * e /\ (iter - 1) * e \in Nat /\ Position \in Nat
  <2>1. Held(pc \in Receiving, Each) = 0
    BY DEF Held
  <2>2. /\ Position = b + (iter - 1) * Each + Held(pc \in Receiving, Each)
        /\ Position \in Nat /\ (iter - 1) * Each \in Nat
    BY PositionWithin
  <2>3. Position = b + (iter - 1) * e + 0 /\ Position \in Nat /\ (iter - 1) * e \in Nat
    BY <1>1, <2>1, <2>2
  <2> HIDE DEF b, e
  <2> QED
    BY <1>1, <2>3
<1>3. /\ Before(i) = b + times * e
      /\ \A j \in 1..e : expected[b + (iter - 1) * e + j] = Section.want[j]
  BY <1>1, BeforeNext DEF Section, TypeInv
<1>4. Before(i) <= Len(expected) /\ Len(expected) \in Nat
  BY <1>1, BeforeNext, BeforeType DEF TypeInv
<1> HIDE DEF times, b, e, expected
<1>5. b + (iter - 1) * e + e <= b + times * e
  <2>1. \A x \in Nat : \A y \in 1..times : (y - 1) * x + x <= times * x
    <3> SUFFICES ASSUME NEW x \in Nat, NEW y \in 1..times PROVE (y - 1) * x + x <= times * x
      OBVIOUS
    <3>1. times * x = (y - 1) * x + x + (times - y) * x
      BY <1>1
    <3>2. times - y \in Nat /\ y - 1 \in Nat
      BY <1>1
    <3>3. (times - y) * x \in Nat /\ (y - 1) * x \in Nat
      BY <3>2
    <3> QED
      BY <3>1, <3>3
  <2>2. (iter - 1) * e + e <= times * e /\ times * e \in Nat
    BY <1>1, <2>1
  <2> QED
    BY <1>1, <1>2, <2>2
<1>6. Position + e <= Len(expected)
  BY <1>1, <1>2, <1>3, <1>4, <1>5
<1>7. \A j \in 1..e : expected[Position + j] = Section.want[j]
  BY <1>2, <1>3
<1> QED
  BY <1>6, <1>7 DEF e, expected

\* So the section may expect it.
LEMMA ReadsMore ==
    ASSUME TypeInv, Holding, InPlace, pc \in Within \ Receiving, Section.type = "RESPONSE",
           NEW n \in Nat, n = Position, NEW p \in Seq(Payloads), Reads(n, p)
    PROVE  Reads(n + Len(Section.want), p \o Section.want)
<1>1. Section.want \in Seq(Payloads)
  BY SectionAt DEF Holding, Compared
<1>2. Agrees(n, p)
  BY DEF Reads
<1>3. /\ Agrees(n + Len(Section.want), p \o Section.want)
      /\ (n + Len(Section.want)) - Len(p \o Section.want) = n - Len(p)
  BY <1>1, <1>2, WantedNext, AgreesMore
<1> QED
  BY <1>3 DEF Reads

\* A section that judges an error or asserts is not in such a document.
LEMMA NotStreamlined ==
    ASSUME TypeInv, pc \in Within, Section.type \in {"ASSERTS", "ERROR"}, doc' = doc
    PROVE  OrderInv'
BY SectionAt DEF OrderInv, Holding, Compared, Streamlined, ResponsesOnly, DrainsOnce

\* What a reader that expects a message is to find on the wire.
LEMMA ExpectedNext ==
    ASSUME TypeInv, StreamInv, AnswerInv, OrderInv, Holding, Expecting, ~Lost
    PROVE  \E n \in Nat : \E p \in Seq(Payloads) :
              LET m == n - Len(p)
              IN  /\ n = Position /\ p = todo /\ p # <<>>
                  /\ Agrees(n, p) /\ Outstanding(m) /\ m \in Nat
                  /\ m + 1 \in DOMAIN Expectations(doc) /\ Expectations(doc)[m + 1] = Head(p)
<1>1. pc = "read" /\ todo # <<>> /\ stream /\ pc \in Walking
  BY DEF Expecting, AnswerInv, Walking
<1>2. PICK n \in Nat, p \in Seq(Payloads) : n = Position /\ p = Pending /\ Reads(n, p)
  BY <1>1, AtPlace
<1>3. p = todo /\ p # <<>>
  BY <1>1, <1>2 DEF Pending
<1>4. Ahead
  <2>1. i \in DOMAIN doc /\ Section.type = "RESPONSE" /\ i \in Nat
    BY <1>1, DocType DEF TypeInv, InSection
  <2> QED
    BY <1>1, <2>1 DEF Ahead, Section
<1>5. Agrees(n, p) /\ Outstanding(n - Len(p))
  BY <1>1, <1>2, <1>4 DEF Reads, StreamInv
<1>6. n - Len(p) \in Nat
  BY <1>5, UnreadTypes DEF Agrees
<1>7. (n - Len(p)) + 1 \in DOMAIN Expectations(doc) /\ Expectations(doc)[(n - Len(p)) + 1] = Head(p)
  <2>1. Len(p) \in Nat /\ Len(p) # 0 /\ DOMAIN p = 1..Len(p) /\ Head(p) = p[1]
    BY <1>3, LenProperties, EmptySeq, HeadTailProperties
  <2>2. n <= Len(Expectations(doc)) /\ 1 \in DOMAIN p
    BY <1>5, <2>1 DEF Agrees
  <2>3. p[1] = Expectations(doc)[(n - Len(p)) + 1]
    BY <1>5, <2>2 DEF Agrees
  <2> QED
    BY <1>6, <2>1, <2>2, <2>3, BeforeType DEF TypeInv
<1> QED
  BY <1>2, <1>3, <1>5, <1>6, <1>7

\* The HTTP error an exchange has left is no message.
LEMMA NotLost == ASSUME wire # <<>>, Head(wire).kind # "err" PROVE ~Lost
<1> SUFFICES ASSUME NEW code, wire = <<[kind |-> "err", val |-> code]>> PROVE FALSE
  BY DEF Lost
<1>1. Head(wire).kind = "err"
  OBVIOUS
<1> QED
  BY <1>1

\* A message of the server is read as expected.
LEMMA OrderMessage == TypeInv /\ StreamInv /\ AnswerInv /\ OrderInv /\ ResponseMessage => OrderInv'
<1> SUFFICES ASSUME TypeInv, StreamInv, AnswerInv, OrderInv, ResponseMessage, Holding' PROVE OrderInv'
  BY DEF OrderInv
<1>1. /\ pc = "read" /\ pc' = "read" /\ todo' = Tail(todo)
      /\ wire # <<>> /\ Head(wire).kind = "msg" /\ Consume /\ Expecting
      /\ UNCHANGED <<doc, settings, i, iter, call, skip_next_section, deferred_bidi_expectations>>
      /\ failure_reasons \subseteq failure_reasons'
      /\ Judging /\ Head(wire).val # Head(todo) => failure_reasons' # {}
  BY DEF ResponseMessage, Expecting, Arrived, Failed, callVars
<1>2. Holding /\ pc \in Walking
  BY <1>1, HeldBefore DEF Walking
<1>3. InPlace
  BY <1>2, AtPlace
<1>4. PICK n \in Nat, p \in Seq(Payloads) :
         LET m == n - Len(p)
         IN  /\ n = Position /\ p = todo /\ p # <<>>
             /\ Agrees(n, p) /\ Outstanding(m) /\ m \in Nat
             /\ m + 1 \in DOMAIN Expectations(doc) /\ Expectations(doc)[m + 1] = Head(p)
  BY <1>1, <1>2, NotLost, ExpectedNext
<1>5. Head(wire).val = Head(p)
  <2>1. Judging /\ failure_reasons' = {}
    BY <1>1 DEF Holding, Compared, Judging
  <2> QED
    BY <1>1, <1>4, <2>1
<1>6. /\ (n - Len(p)) + 1 <= Len(served) /\ served[(n - Len(p)) + 1] = Head(p)
      /\ Outstanding((n - Len(p)) + 1)'
  BY <1>1, <1>4, <1>5, OutstandingTake
<1>7. Agrees(n, Tail(p)) /\ n - Len(Tail(p)) = (n - Len(p)) + 1
  BY <1>4, <1>6, AgreesTake
<1>8. Agrees(n, Tail(p))'
  BY <1>1, <1>7 DEF Agrees, Expectations, Consume
<1>9. Reads(n, Tail(p))'
  BY <1>6, <1>7, <1>8 DEF Reads
<1>10. Position' = n /\ Pending' = Tail(p)
  BY <1>1, <1>4 DEF Position, Pending, Each, Section, Before, Held, Within
<1>11. InPlace'
  BY <1>1, <1>3 DEF InPlace
<1> QED
  BY <1>9, <1>10, <1>11, ReadsNext DEF OrderInv

\* A section that only sends or extracts.
LEMMA OrderPasses ==
    ASSUME TypeInv, OrderInv, pc = "exec", Section.type \in {"REQUEST", "EXTRACT"}, NextIteration,
           UNCHANGED <<doc, settings, wire, served, ended, call, skip_next_section,
                       deferred_bidi_expectations>>,
           failure_reasons \subseteq failure_reasons'
    PROVE  OrderInv'
<1> SUFFICES ASSUME Holding' PROVE OrderInv'
  BY DEF OrderInv
<1>1. Holding /\ pc \in Walking /\ pc \in Within
  BY HeldBefore DEF Walking, Within
<1>2. InPlace
  BY <1>1, AtPlace
<1>3. PICK n \in Nat, p \in Seq(Payloads) : n = Position /\ p = Pending /\ Reads(n, p)
  BY <1>1, AtPlace
<1>4. p = deferred_bidi_expectations'
  BY <1>3 DEF Pending
<1>5. n = Before(i - 1) + (iter - 1) * Each + Each
  <2>1. Each = 0 /\ Held(pc \in Receiving, Each) = 0
    BY DEF Each, Held, Receiving
  <2>2. Position = Before(i - 1) + (iter - 1) * Each + Held(pc \in Receiving, Each)
    BY <1>1, <1>2, PositionWithin
  <2> QED
    BY <1>3, <2>1, <2>2
<1> QED
  BY <1>1, <1>2, <1>3, <1>4, <1>5, OrderIteration

\* After the sections nothing is taken off the wire for a section.
LEMMA OrderConcludes ==
    ASSUME TypeInv, OrderInv, Holding, pc \in {"final await", "final drain", "verdict"},
           pc' \in {"final await", "final drain", "verdict", "done"},
           UNCHANGED <<doc, settings, skip_next_section, deferred_bidi_expectations, call, served>>
    PROVE  OrderInv'
<1>1. Position' = Position /\ Pending' = Pending
  BY DEF Position, Pending, Within
<1>2. InPlace' /\ ~Ahead'
  BY AtPlace DEF Concluding, InPlace, Within, Receiving, Ahead, Walking
<1> QED
  BY <1>1, <1>2, OrderStands DEF Concluding

\* Every step of the runner, the call and the server keeps it.
LEMMA OrderNext == TypeInv /\ StreamInv /\ AnswerInv /\ OrderInv /\ [Next]_vars => OrderInv'
<1> SUFFICES ASSUME TypeInv, StreamInv, AnswerInv, OrderInv, [Next]_vars PROVE OrderInv'
  OBVIOUS
<1>1. ASSUME Start PROVE OrderInv'
  <2> SUFFICES ASSUME Holding' PROVE OrderInv'
    BY DEF OrderInv
  <2>1. /\ pc = "start" /\ pc' = "section" /\ failure_reasons \subseteq failure_reasons'
        /\ UNCHANGED <<doc, settings, i, iter, skip_next_section, deferred_bidi_expectations,
                       call, wire, served, ended>>
    BY <1>1 DEF Start, Failed, callVars, server
  <2>2. Holding /\ pc \in Walking
    BY <2>1, HeldBefore DEF Walking
  <2>3. Position' = Position /\ Pending' = Pending
    BY <2>1 DEF Position, Pending, Before, Within
  <2>4. InPlace'
    BY <2>1, <2>2, AtPlace DEF InPlace, Within, Receiving
  <2>5. Ahead' => Ahead
    BY <2>1 DEF Ahead, Walking
  <2> QED
    BY <2>1, <2>2, <2>3, <2>4, <2>5, OrderStands
<1>2. ASSUME SkipSection PROVE OrderInv'
  <2> SUFFICES ASSUME Holding' PROVE OrderInv'
    BY DEF OrderInv
  <2>1. /\ pc = "section" /\ pc' = "section" /\ i \in DOMAIN doc /\ i' = i + 1 /\ iter' = 1
        /\ skip_next_section \/ get_skip(doc, i)
        /\ skip_next_section' = FALSE
        /\ UNCHANGED <<doc, settings, deferred_bidi_expectations, failure_reasons,
                       call, wire, served, ended>>
    BY <1>2 DEF SkipSection, NextSection, callVars, server
  <2>2. Holding /\ pc \in Walking
    BY <2>1, HeldBefore DEF Walking
  <2>3. InPlace
    BY <2>2, AtPlace
  <2>4. get_skip(doc, i) /\ i \in 1..Len(doc) /\ Len(doc) \in Nat
    BY <2>1, <2>3, DocType DEF InPlace, TypeInv
  <2>5. Before(i) = Before(i - 1) /\ i' - 1 = i
    <3>1. i' - 1 = i
      BY <2>1, <2>4
    <3>2. Before(i) = Before(i - 1)
      BY <2>1, <2>4, BeforeNext DEF TypeInv
    <3> QED
      BY <3>1, <3>2
  <2>6. Position' = Position
    <3>1. Position' = Len(ExpectationsUpTo(doc)[i' - 1]) /\ Position = Before(i - 1)
      BY <2>1 DEF Position, Before, Within
    <3> QED
      BY <2>5, <3>1, Zenon DEF Before
  <2>7. Pending' = Pending
    BY <2>1 DEF Pending
  <2>8. InPlace'
    BY <2>1, <2>4 DEF InPlace, Within, Receiving
  <2>9. Ahead' => Ahead
    BY <2>1, <2>4, DocType DEF Ahead, TypeInv
  <2> QED
    BY <2>1, <2>2, <2>6, <2>7, <2>8, <2>9, OrderStands
<1>3. ASSUME EnterSection PROVE OrderInv'
  <2> SUFFICES ASSUME Holding' PROVE OrderInv'
    BY DEF OrderInv
  <2>1. /\ pc = "section" /\ pc' = "exec" /\ i \in DOMAIN doc /\ ~get_skip(doc, i)
        /\ UNCHANGED <<doc, settings, i, iter, skip_next_section, deferred_bidi_expectations,
                       failure_reasons, call, wire, served, ended>>
    BY <1>3 DEF EnterSection, callVars, server, verdict
  <2>2. Holding /\ pc \in Walking
    BY <2>1, HeldBefore DEF Walking
  <2>3. InPlace /\ iter = 1
    BY <2>1, <2>2, AtPlace DEF InPlace
  <2>4. get_repeat(doc, i) \in Nat \ {0} /\ i - 1 \in 0..Len(doc) /\ i \in Nat
    BY <2>1, RepeatType, DocType, BeforeNext DEF TypeInv
  <2>5. Before(i - 1) \in Nat
    BY <2>4, BeforeType DEF TypeInv
  <2>6. Section' = Section /\ Each \in Nat /\ Each' = Each
    <3>1. Section.type = "RESPONSE" => Len(Section.want) \in Nat
      BY <2>1, StatedType, LenProperties DEF Section, TypeInv
    <3> QED
      BY <2>1, <3>1 DEF Each, Section
  <2>7. Position' = Position
    <3>1. Position' = Before(i - 1) + (iter - 1) * Each + 0
      BY <2>1, <2>6 DEF Position, Before, Within, Receiving, Held
    <3>2. Position = Before(i - 1)
      BY <2>1 DEF Position, Within
    <3>3. (iter - 1) * Each = 0
      BY <2>3, <2>6
    <3> QED
      BY <2>5, <3>1, <3>2, <3>3
  <2>8. Pending' = Pending
    BY <2>1 DEF Pending
  <2>9. InPlace'
    BY <2>1, <2>3, <2>4 DEF InPlace, Within, Receiving
  <2>10. Ahead' => Ahead
    BY <2>1 DEF Ahead, Walking
  <2> QED
    BY <2>1, <2>2, <2>7, <2>8, <2>9, <2>10, OrderStands
<1>4. ASSUME UnresolvedRequest PROVE OrderInv'
  <2> SUFFICES ASSUME Holding' PROVE OrderInv'
    BY DEF OrderInv
  <2>1. /\ pc \in Walking /\ pc' = "done" /\ result'.status = "fail"
        /\ UNCHANGED <<doc, settings, skip_next_section, failure_reasons>>
    BY <1>4 DEF UnresolvedRequest, Sending, Goto, Walking
  <2>2. InPlace
    BY <2>1, HeldBefore, AtPlace
  <2> QED
    BY <2>1, <2>2 DEF OrderInv, InPlace, Walking, Within, Receiving, Concluding, Finished
<1>5. ASSUME SendRequest PROVE OrderInv'
  <2>1. Ahead' => Ahead
    BY <1>5 DEF SendRequest, Ahead
  <2> QED
    BY <1>5, <2>1, OrderKept DEF SendRequest, Sending, callVars, server, Within, Receiving
<1>6. ASSUME SendFails PROVE OrderInv'
  <2>1. Ahead' => Ahead
    BY <1>6 DEF SendFails, Ahead
  <2>2. failure_reasons \subseteq failure_reasons'
    BY <1>6 DEF SendFails, Failed
  <2> QED
    BY <1>6, <2>1, <2>2, OrderKept DEF SendFails, Sending, callVars, server, Within, Receiving
<1>7. ASSUME RequestSent PROVE OrderInv'
  BY <1>7, OrderPasses DEF RequestSent, Sending, callVars, server, verdict
<1>8. ASSUME DeferResponse PROVE OrderInv'
  <2> SUFFICES ASSUME Holding' PROVE OrderInv'
    BY DEF OrderInv
  <2>1. /\ pc = "exec" /\ Section.type = "RESPONSE" /\ NextIteration
        /\ deferred_bidi_expectations' = deferred_bidi_expectations \o Section.want
        /\ UNCHANGED <<doc, settings, skip_next_section, failure_reasons, call, wire, served, ended>>
    BY <1>8 DEF DeferResponse, Reading, callVars, server
  <2>2. Holding /\ pc \in Walking /\ pc \in Within \ Receiving
    BY <2>1, HeldBefore DEF Walking, Within, Receiving
  <2>3. InPlace
    BY <2>2, AtPlace
  <2>4. PICK n \in Nat, p \in Seq(Payloads) : n = Position /\ p = Pending /\ Reads(n, p)
    BY <2>2, AtPlace
  <2>5. PICK w : w = Section.want
    OBVIOUS
  <2>6. Reads(n + Len(w), p \o w)
    BY <2>1, <2>2, <2>3, <2>4, <2>5, ReadsMore
  <2>7. p \o w = deferred_bidi_expectations'
    BY <2>1, <2>4, <2>5 DEF Pending
  <2>8. n + Len(w) = Before(i - 1) + (iter - 1) * Each + Each
    <3>1. Each = Len(w) /\ Held(pc \in Receiving, Each) = 0
      BY <2>1, <2>2, <2>5 DEF Each, Held
    <3>2. n = Before(i - 1) + (iter - 1) * Each + 0
      BY <2>2, <2>3, <2>4, <3>1, PositionWithin
    <3>3. Before(i - 1) \in Nat /\ (iter - 1) * Each \in Nat
      BY <2>2, <2>3, PositionWithin, SectionAt DEF Holding, Compared
    <3> QED
      BY <3>1, <3>2, <3>3
  <2> QED
    BY <2>1, <2>2, <2>3, <2>6, <2>7, <2>8, OrderIteration DEF Receiving
<1>9. ASSUME EnterReader PROVE OrderInv'
  <2>1. Ahead' => Ahead
    BY <1>9 DEF EnterReader, Reading, Goto, Ahead, Walking
  <2> QED
    BY <1>9, <2>1, OrderKept DEF EnterReader, Reading, Goto, callVars, server, verdict, Within, Receiving
<1>10. ASSUME StreamReady PROVE OrderInv'
  <2>1. Ahead' => Ahead
    BY <1>10 DEF StreamReady, Goto, Ahead, Walking
  <2> QED
    BY <1>10, <2>1, OrderKept DEF StreamReady, Goto, server, verdict, Within, Receiving
<1>11. ASSUME StreamStartFails PROVE OrderInv'
  BY <1>11, NotHolding DEF StreamStartFails, Failed
<1>12. ASSUME NoStream PROVE OrderInv'
  BY <1>12, NotHolding DEF NoStream, Failed
<1>13. ASSUME StartResponse PROVE OrderInv'
  <2> SUFFICES ASSUME Holding' PROVE OrderInv'
    BY DEF OrderInv
  <2>1. /\ pc = "ready" /\ pc' = "read" /\ Section.type = "RESPONSE"
        /\ todo' = deferred_bidi_expectations \o Section.want /\ deferred_bidi_expectations' = <<>>
        /\ UNCHANGED <<doc, settings, i, iter, skip_next_section, failure_reasons, call, wire,
                       served, ended>>
    BY <1>13 DEF StartResponse, Merge, callVars, server
  <2>2. Holding /\ pc \in Walking /\ pc \in Within \ Receiving
    BY <2>1, HeldBefore DEF Walking, Within, Receiving
  <2>3. InPlace
    BY <2>2, AtPlace
  <2>4. PICK n \in Nat, p \in Seq(Payloads) : n = Position /\ p = Pending /\ Reads(n, p)
    BY <2>2, AtPlace
  <2>5. PICK w : w = Section.want
    OBVIOUS
  <2>6. Len(w) \in Nat
    BY <2>1, <2>2, <2>5, SectionAt DEF Holding, Compared
  <2>7. Reads(n + Len(w), p \o w)'
    <3>1. Reads(n + Len(w), p \o w)
      BY <2>1, <2>2, <2>3, <2>4, <2>5, ReadsMore
    <3>2. Ahead' => Ahead
      BY <2>1 DEF Ahead, Walking
    <3>3. n + Len(w) \in Nat
      BY <2>6
    <3> QED
      BY <2>1, <3>1, <3>2, <3>3, ReadsKept
  <2>8. Pending' = p \o w
    BY <2>1, <2>4, <2>5 DEF Pending
  <2>9. Position' = n + Len(w)
    <3>1. Each = Len(w) /\ Held(pc \in Receiving, Each) = 0 /\ Each' = Each /\ Before(i - 1)' = Before(i - 1)
      BY <2>1, <2>2, <2>5 DEF Each, Held, Section, Before
    <3>2. n = Before(i - 1) + (iter - 1) * Each + 0
      BY <2>2, <2>3, <2>4, <3>1, PositionWithin
    <3>3. Before(i - 1) \in Nat /\ (iter - 1) * Each \in Nat
      BY <2>2, <2>3, PositionWithin, SectionAt DEF Holding, Compared
    <3>4. Position' = Before(i - 1) + (iter - 1) * Each + Each
      BY <2>1, <3>1 DEF Position, Within, Receiving, Held
    <3> QED
      BY <2>6, <3>1, <3>2, <3>3, <3>4
  <2>10. InPlace'
    BY <2>1, <2>2, <2>3 DEF InPlace, Within, Receiving
  <2> QED
    BY <2>7, <2>8, <2>9, <2>10, ReadsNext DEF OrderInv
<1>14. ASSUME ResponseMessage PROVE OrderInv'
  BY <1>14, OrderMessage
<1>15. ASSUME ResponseEnds PROVE OrderInv'
  BY <1>15, NotHolding DEF ResponseEnds, FailedIfJudging, Failed
<1>16. ASSUME ResponseTimeout PROVE OrderInv'
  BY <1>16, NotHolding DEF ResponseTimeout, Failed
<1>17. ASSUME ResponseComplete PROVE OrderInv'
  <2>1. Ahead' => Ahead
    BY <1>17 DEF ResponseComplete, Goto, Ahead, Walking
  <2> QED
    BY <1>17, <2>1, OrderKept DEF ResponseComplete, Goto, callVars, server, verdict, Within, Receiving
<1>18. ASSUME DrainMessage PROVE OrderInv'
  <2>1. ~Ahead'
    BY <1>18 DEF DrainMessage, runner, Ahead
  <2> QED
    BY <1>18, <2>1, OrderKept DEF DrainMessage, runner, callVars, Consume, Within, Receiving
<1>19. ASSUME DrainEnds PROVE OrderInv'
  <2>1. Ahead' => Ahead /\ UNCHANGED <<wire, ended>>
    BY <1>19 DEF DrainEnds, Goto, Ahead, Walking, server
  <2>2. served' = served
    BY <1>19 DEF DrainEnds, Consume, server
  <2> QED
    BY <1>19, <2>1, <2>2, OrderKept DEF DrainEnds, Goto, callVars, verdict, Within, Receiving
<1>20. ASSUME AttachResponse PROVE OrderInv'
  <2> SUFFICES ASSUME Holding' PROVE OrderInv'
    BY DEF OrderInv
  <2>1. /\ pc = "attach" /\ Section.type = "RESPONSE" /\ NextIteration
        /\ ~Attaches(doc, i) => skip_next_section' = skip_next_section
        /\ failure_reasons \subseteq failure_reasons'
        /\ UNCHANGED <<doc, settings, deferred_bidi_expectations, call, wire, served, ended>>
    BY <1>20 DEF AttachResponse, Judge, Failed, callVars, server, TypeInv, InSection
  <2>2. Holding /\ pc \in Walking /\ pc \in Within
    BY <2>1, HeldBefore DEF Walking, Within
  <2>3. InPlace
    BY <2>2, AtPlace
  <2>4. PICK n \in Nat, p \in Seq(Payloads) : n = Position /\ p = Pending /\ Reads(n, p)
    BY <2>2, AtPlace
  <2>5. ~Attaches(doc, i)
    BY <2>2, SectionAt DEF Holding, Compared
  <2>6. p = deferred_bidi_expectations'
    BY <2>1, <2>4 DEF Pending
  <2>7. n = Before(i - 1) + (iter - 1) * Each + Each
    <3>1. Held(pc \in Receiving, Each) = Each
      BY <2>1 DEF Held, Receiving
    <3> QED
      BY <2>2, <2>3, <2>4, <3>1, PositionWithin
  <2> QED
    BY <2>1, <2>2, <2>3, <2>4, <2>5, <2>6, <2>7, OrderIteration
<1>21. ASSUME AssertOnError PROVE OrderInv'
  BY <1>21, NotStreamlined DEF AssertOnError, Asserting, Within
<1>22. ASSUME AssertWithoutStream PROVE OrderInv'
  BY <1>22, NotStreamlined DEF AssertWithoutStream, Asserting, Within
<1>23. ASSUME AssertOnItem PROVE OrderInv'
  BY <1>23, NotStreamlined DEF AssertOnItem, Asserting, Within
<1>24. ASSUME AssertAtEnd PROVE OrderInv'
  BY <1>24, NotStreamlined DEF AssertAtEnd, Asserting, Within
<1>25. ASSUME AssertTimeout PROVE OrderInv'
  BY <1>25, NotStreamlined DEF AssertTimeout, Asserting, Within
<1>26. ASSUME Extract PROVE OrderInv'
  <2>1. failure_reasons \subseteq failure_reasons'
    BY <1>26 DEF Extract, Failed
  <2> QED
    BY <1>26, <2>1, OrderPasses DEF Extract, callVars, server
<1>27. ASSUME ErrorAtStart PROVE OrderInv'
  BY <1>27, NotStreamlined DEF ErrorAtStart, Within
<1>28. ASSUME ErrorReceived PROVE OrderInv'
  BY <1>28, NotStreamlined DEF ErrorReceived, ExpectingError, Within
<1>29. ASSUME ErrorNotReceived PROVE OrderInv'
  BY <1>29, NotStreamlined DEF ErrorNotReceived, ExpectingError, Within
<1>30. ASSUME ErrorTimeout PROVE OrderInv'
  BY <1>30, NotStreamlined DEF ErrorTimeout, ExpectingError, Within
<1>31. ASSUME FinishSections PROVE OrderInv'
  <2> SUFFICES ASSUME Holding' PROVE OrderInv'
    BY DEF OrderInv
  <2>1. /\ pc = "section" /\ pc' \in {"final await", "final drain", "verdict"} /\ i \notin DOMAIN doc
        /\ UNCHANGED <<doc, settings, skip_next_section, deferred_bidi_expectations,
                       failure_reasons, call, wire, served, ended>>
    BY <1>31 DEF FinishSections, Goto, callVars, server, verdict
  <2>2. Holding /\ pc \in Walking
    BY <2>1, HeldBefore DEF Walking
  <2>3. InPlace
    BY <2>2, AtPlace
  <2>4. i - 1 = Len(doc)
    <3>1. DOMAIN doc = 1..Len(doc) /\ Len(doc) \in Nat
      BY DocType DEF TypeInv
    <3>2. i \in 1..(Len(doc) + 1) /\ ~(i \in 1..Len(doc))
      BY <2>1, <2>3, <3>1 DEF InPlace
    <3> QED
      BY <3>1, <3>2
  <2>5. Position' = Position
    <3>1. Position = Before(i - 1) /\ Position' = Len(Expectations(doc))
      BY <2>1 DEF Position, Within
    <3> QED
      BY <2>4, <3>1, BeforeType DEF TypeInv
  <2>6. Pending' = Pending
    BY <2>1 DEF Pending
  <2>7. InPlace' /\ ~Ahead'
    BY <2>1, <2>3 DEF InPlace, Within, Receiving, Ahead, Walking
  <2> QED
    BY <2>1, <2>2, <2>5, <2>6, <2>7, OrderStands
<1>32. ASSUME FinalAwait PROVE OrderInv'
  <2> SUFFICES ASSUME Holding' PROVE OrderInv'
    BY DEF OrderInv
  <2>1. /\ pc \in {"final await", "final drain", "verdict"}
        /\ pc' \in {"final await", "final drain", "verdict", "done"}
        /\ UNCHANGED <<doc, settings, skip_next_section, deferred_bidi_expectations, call, served>>
        /\ failure_reasons \subseteq failure_reasons'
    BY <1>32 DEF FinalAwait, Goto, Failed, server
  <2>2. Holding /\ Concluding
    BY <2>1, HeldBefore DEF Concluding
  <2> QED
    BY <2>1, <2>2, OrderConcludes
<1>33. ASSUME FinalDrain PROVE OrderInv'
  <2> SUFFICES ASSUME Holding' PROVE OrderInv'
    BY DEF OrderInv
  <2>1. /\ pc \in {"final await", "final drain", "verdict"}
        /\ pc' \in {"final await", "final drain", "verdict", "done"}
        /\ UNCHANGED <<doc, settings, skip_next_section, deferred_bidi_expectations, call, served>>
        /\ failure_reasons \subseteq failure_reasons'
    BY <1>33 DEF FinalDrain, runner, Consume, callVars
  <2>2. Holding /\ Concluding
    BY <2>1, HeldBefore DEF Concluding
  <2> QED
    BY <2>1, <2>2, OrderConcludes
<1>34. ASSUME FinalDrainEnds PROVE OrderInv'
  <2> SUFFICES ASSUME Holding' PROVE OrderInv'
    BY DEF OrderInv
  <2>1. /\ pc \in {"final await", "final drain", "verdict"}
        /\ pc' \in {"final await", "final drain", "verdict", "done"}
        /\ UNCHANGED <<doc, settings, skip_next_section, deferred_bidi_expectations, call, served>>
        /\ failure_reasons \subseteq failure_reasons'
    BY <1>34 DEF FinalDrainEnds, Goto, Failed, callVars, server
  <2>2. Holding /\ Concluding
    BY <2>1, HeldBefore DEF Concluding
  <2> QED
    BY <2>1, <2>2, OrderConcludes
<1>35. ASSUME GiveVerdict PROVE OrderInv'
  <2> SUFFICES ASSUME Holding' PROVE OrderInv'
    BY DEF OrderInv
  <2>1. /\ pc \in {"final await", "final drain", "verdict"}
        /\ pc' \in {"final await", "final drain", "verdict", "done"}
        /\ UNCHANGED <<doc, settings, skip_next_section, deferred_bidi_expectations, call, served>>
        /\ failure_reasons \subseteq failure_reasons'
    BY <1>35 DEF GiveVerdict, Goto, callVars, server
  <2>2. Holding /\ Concluding
    BY <2>1, HeldBefore DEF Concluding
  <2> QED
    BY <2>1, <2>2, OrderConcludes
<1>36. ASSUME PullRequest PROVE OrderInv'
  <2>1. ASSUME NEW n \in Nat, NEW p \in Seq(Payloads), Reads(n, p) PROVE Reads(n, p)'
    <3>1. Ahead' => Ahead
      BY <1>36 DEF PullRequest, runnerSide, runner, Ahead
    <3> QED
      BY <1>36, <2>1, <3>1, ReadsKept DEF PullRequest, runnerSide, callVars, server
  <2> QED
    BY <1>36, <2>1, OrderServed DEF PullRequest
<1>37. ASSUME NEW code \in Codes \cup {NoStatus}, CallFails(code) PROVE OrderInv'
  <2>1. ASSUME NEW n \in Nat, NEW p \in Seq(Payloads), Reads(n, p) PROVE Reads(n, p)'
    <3>1. Agrees(n, p)'
      BY <1>37, <2>1 DEF CallFails, runnerSide, Reads, Agrees, Expectations
    <3> QED
      BY <1>37, <3>1 DEF CallFails, Reads
  <2> QED
    BY <1>37, <2>1, OrderServed DEF CallFails
<1>38. ASSUME HeadersArrive PROVE OrderInv'
  <2>1. ASSUME NEW n \in Nat, NEW p \in Seq(Payloads), Reads(n, p) PROVE Reads(n, p)'
    <3>1. Ahead' => Ahead
      BY <1>38 DEF HeadersArrive, runnerSide, runner, Ahead
    <3> QED
      BY <1>38, <2>1, <3>1, ReadsKept DEF HeadersArrive, runnerSide, server
  <2> QED
    BY <1>38, <2>1, OrderServed DEF HeadersArrive
<1>39. ASSUME CallSucceeds PROVE OrderInv'
  <2>1. ASSUME NEW n \in Nat, NEW p \in Seq(Payloads), Reads(n, p) PROVE Reads(n, p)'
    <3>1. /\ UNCHANGED <<doc, settings, pc, i, wire, served>> /\ call # "err" /\ (ended => ended')
      BY <1>39 DEF CallSucceeds, runnerSide, runner
    <3>2. Agrees(n, p)' /\ (Ahead' => Ahead) /\ (~Lost' => ~Lost)
      BY <2>1, <3>1 DEF Reads, Agrees, Expectations, Ahead, Lost
    <3>3. Outstanding(n - Len(p)) => Outstanding(n - Len(p))'
      BY <3>1 DEF Outstanding
    <3> QED
      BY <2>1, <3>1, <3>2, <3>3 DEF Reads
  <2> QED
    BY <1>39, <2>1, OrderServed DEF CallSucceeds
<1>40. ASSUME DropRequests PROVE OrderInv'
  <2>1. ASSUME NEW n \in Nat, NEW p \in Seq(Payloads), Reads(n, p) PROVE Reads(n, p)'
    <3>1. Ahead' => Ahead
      BY <1>40 DEF DropRequests, runnerSide, runner, Ahead
    <3> QED
      BY <1>40, <2>1, <3>1, ReadsKept DEF DropRequests, runnerSide, callVars, server
  <2> QED
    BY <1>40, <2>1, OrderServed DEF DropRequests
<1>41. ASSUME NEW v \in Payloads, ServeMessage(v) PROVE OrderInv'
  <2>1. ASSUME NEW n \in Nat, NEW p \in Seq(Payloads), Reads(n, p) PROVE Reads(n, p)'
    <3>1. /\ UNCHANGED <<doc, settings, pc, i, call>> /\ ~ended
          /\ served' = Append(served, v) /\ wire' = Append(wire, [kind |-> "msg", val |-> v])
          /\ ended' = FALSE
      BY <1>41 DEF ServeMessage, Serving, Serve, runnerSide, runner, callVars
    <3>2. Agrees(n, p)'
      BY <2>1, <3>1, AgreesServed DEF Reads
    <3>3. n - Len(p) \in Nat /\ (Ahead' => Ahead) /\ ~Lost
      BY <2>1, <3>1, UnreadTypes DEF Reads, Agrees, Ahead, Lost
    <3>4. Outstanding(n - Len(p)) => Outstanding(n - Len(p))'
      BY <3>1, <3>3, OutstandingServed
    <3> QED
      BY <2>1, <3>1, <3>2, <3>3, <3>4 DEF Reads
  <2> QED
    BY <1>41, <2>1, OrderServed DEF ServeMessage, Serve
<1>42. ASSUME ServeTrailers PROVE OrderInv'
  <2>1. ASSUME NEW n \in Nat, NEW p \in Seq(Payloads), Reads(n, p) PROVE Reads(n, p)'
    <3>1. /\ UNCHANGED <<doc, settings, pc, i, call>> /\ ~ended
          /\ served' = served /\ ended' = TRUE
          /\ wire' = Append(wire, [kind |-> "trailers", val |-> Nothing])
      BY <1>42 DEF ServeTrailers, Serving, Serve, runnerSide, runner, callVars
    <3>2. Agrees(n, p)'
      BY <2>1, <3>1 DEF Reads, Agrees, Expectations
    <3>3. n - Len(p) \in Nat /\ (Ahead' => Ahead) /\ ~Lost
      BY <2>1, <3>1, UnreadTypes DEF Reads, Agrees, Ahead, Lost
    <3>4. [kind |-> "trailers", val |-> Nothing] \in Item
      BY DEF Item
    <3>5. Outstanding(n - Len(p)) => Outstanding(n - Len(p))'
      BY <3>1, <3>3, <3>4, OutstandingEnded
    <3> QED
      BY <2>1, <3>1, <3>2, <3>3, <3>5 DEF Reads
  <2> QED
    BY <1>42, <2>1, OrderServed DEF ServeTrailers, Serve
<1>43. ASSUME ServeEnd PROVE OrderInv'
  <2>1. ASSUME NEW n \in Nat, NEW p \in Seq(Payloads), Reads(n, p) PROVE Reads(n, p)'
    <3>1. /\ UNCHANGED <<doc, settings, pc, i, call>> /\ ~ended
          /\ served' = served /\ ended' = TRUE
          /\ wire' = wire
      BY <1>43 DEF ServeEnd, Serving, Serve, runnerSide, runner, callVars
    <3>2. Agrees(n, p)'
      BY <2>1, <3>1 DEF Reads, Agrees, Expectations
    <3>3. n - Len(p) \in Nat /\ (Ahead' => Ahead) /\ ~Lost
      BY <2>1, <3>1, UnreadTypes DEF Reads, Agrees, Ahead, Lost
    <3>4. [kind |-> "trailers", val |-> Nothing] \in Item
      BY DEF Item
    <3>5. Outstanding(n - Len(p)) => Outstanding(n - Len(p))'
      BY <3>1, <3>3, <3>4, OutstandingEnded
    <3> QED
      BY <2>1, <3>1, <3>2, <3>3, <3>5 DEF Reads
  <2> QED
    BY <1>43, <2>1, OrderServed DEF ServeEnd, Serve
<1>44. ASSUME NEW code \in Codes, ServeError(code) PROVE OrderInv'
  <2>1. ASSUME NEW n \in Nat, NEW p \in Seq(Payloads), Reads(n, p) PROVE Reads(n, p)'
    <3>1. /\ UNCHANGED <<doc, settings, pc, i, call>> /\ ~ended
          /\ served' = served /\ ended' = TRUE
          /\ wire' = IF settings.http THEN <<[kind |-> "err", val |-> code]>>
                                      ELSE Append(wire, [kind |-> "err", val |-> code])
      BY <1>44 DEF ServeError, Serving, Serve, runnerSide, runner, callVars
    <3>2. Agrees(n, p)'
      BY <2>1, <3>1 DEF Reads, Agrees, Expectations
    <3>3. n - Len(p) \in Nat /\ (Ahead' => Ahead) /\ ~Lost
      BY <2>1, <3>1, UnreadTypes DEF Reads, Agrees, Ahead, Lost
    <3>4. [kind |-> "err", val |-> code] \in Item
      BY DEF Item
    <3>5. ~Lost' /\ Outstanding(n - Len(p)) => Outstanding(n - Len(p))'
      <4>1. CASE settings.http
        BY <3>1, <4>1 DEF Lost
      <4>2. CASE ~settings.http
        BY <3>1, <3>3, <3>4, <4>2, OutstandingEnded
      <4> QED
        BY <4>1, <4>2
    <3> QED
      BY <2>1, <3>1, <3>2, <3>3, <3>5 DEF Reads
  <2> QED
    BY <1>44, <2>1, OrderServed DEF ServeError, Serve
<1>45. CASE UNCHANGED vars
  <2>1. ASSUME NEW n \in Nat, NEW p \in Seq(Payloads), Reads(n, p) PROVE Reads(n, p)'
    <3>1. Ahead' => Ahead
      BY <1>45 DEF vars, runner, Ahead
    <3> QED
      BY <1>45, <2>1, <3>1, ReadsKept DEF vars, callVars, server
  <2> QED
    BY <1>45, <2>1, OrderServed DEF vars, runnerSide
<1> QED
  BY <1>1, <1>2, <1>3, <1>4, <1>5, <1>6, <1>7, <1>8, <1>9, <1>10, <1>11, <1>12, <1>13,
     <1>14, <1>15, <1>16, <1>17, <1>18, <1>19, <1>20, <1>21, <1>22, <1>23, <1>24, <1>25,
     <1>26, <1>27, <1>28, <1>29, <1>30, <1>31, <1>32, <1>33, <1>34, <1>35, <1>36, <1>37,
     <1>38, <1>39, <1>40, <1>41, <1>42, <1>43, <1>44, <1>45 DEF Next, RunnerStep,
     RequestSteps, ReaderSteps, ResponseSteps, AssertsSteps, ErrorSteps, FinishSteps,
     CallStep, ServerStep, Done

-----------------------------------------------------------------------------
(* Why such a run fails.                                                   *)

\* The messages do not begin as the sections expect, whatever is still to come.
Refuted ==
    LET expected == Expectations(doc)
    IN  \/ ended /\ Len(expected) > Len(served)
        \/ \E m \in DOMAIN expected : m <= Len(served) /\ expected[m] # served[m]

Blamed ==
    /\ Compared /\ ~transport_failure
    /\ failure_reasons # {} /\ failure_reasons \subseteq {"mismatch", "no message"}
    /\ settings.http => last_error = NoError

CauseInv == Blamed => Refuted

\* Nor can a message that comes later help.
LEMMA RefutedStays ==
    ASSUME TypeInv, Refuted, doc' = doc, ~ended, NEW v \in Payloads, served' = Append(served, v)
    PROVE  Refuted'
<1>1. Len(served) \in Nat /\ served \in Seq(Payloads) /\ Expectations(doc)' = Expectations(doc)
  BY UnreadTypes DEF Expectations
<1>2. /\ DOMAIN Expectations(doc) = 1..Len(Expectations(doc)) /\ Len(Expectations(doc)) \in Nat
  BY BeforeType DEF TypeInv
<1>3. Len(served') >= Len(served) /\ Len(served') \in Nat /\ \A j \in 1..Len(served) : served'[j] = served[j]
  BY <1>1, AppendProperties
<1>4. PICK m \in DOMAIN Expectations(doc) : m <= Len(served) /\ Expectations(doc)[m] # served[m]
  BY DEF Refuted
<1>5. m <= Len(served') /\ Expectations(doc)[m] # served'[m]
  BY <1>1, <1>2, <1>3, <1>4
<1> QED
  BY <1>1, <1>4, <1>5 DEF Refuted

\* A step that adds nothing to what such a run is blamed for.
LEMMA CauseKept ==
    ASSUME TypeInv, CauseInv, UNCHANGED <<doc, settings, served>>, ended => ended',
           transport_failure => transport_failure', last_error' = last_error,
           \/ failure_reasons' = failure_reasons
           \/ ~(failure_reasons' \subseteq {"mismatch", "no message"})
           \/ transport_failure'
    PROVE  CauseInv'
<1> SUFFICES ASSUME Blamed' PROVE Refuted'
  BY DEF CauseInv
<1>1. Blamed
  BY DEF Blamed, Compared, Judging, Streamlined, ResponsesOnly, DrainsOnce
<1>2. Refuted
  BY <1>1 DEF CauseInv
<1>3. Expectations(doc)' = Expectations(doc)
  BY DEF Expectations
<1> QED
  BY <1>2, <1>3 DEF Refuted

\* A run that judges an error or asserts is not blamed so.
LEMMA CauseNever ==
    ASSUME TypeInv, pc \in Within, Section.type \in {"ASSERTS", "ERROR"}, doc' = doc
    PROVE  CauseInv'
BY SectionAt DEF CauseInv, Blamed, Compared, Streamlined, ResponsesOnly, DrainsOnce

\* A run that is blamed now, and was not before, had not failed yet.
LEMMA BlamedFirst ==
    ASSUME TypeInv, CauseInv, Blamed', ~Refuted, UNCHANGED <<doc, settings, transport_failure>>,
           failure_reasons \subseteq failure_reasons', last_error' = NoError => last_error = NoError
    PROVE  Holding
<1>1. Compared /\ ~transport_failure /\ failure_reasons \subseteq {"mismatch", "no message"}
  BY DEF Blamed, Compared, Judging, Streamlined, ResponsesOnly, DrainsOnce
<1>2. settings.http => last_error = NoError
  BY DEF Blamed
<1> QED
  BY <1>1, <1>2 DEF CauseInv, Blamed, Holding

\* A message that is not the expected one.
LEMMA CauseMessage ==
    TypeInv /\ StreamInv /\ AnswerInv /\ OrderInv /\ CauseInv /\ ResponseMessage => CauseInv'
<1> SUFFICES ASSUME TypeInv, StreamInv, AnswerInv, OrderInv, CauseInv, ResponseMessage, Blamed'
             PROVE  Refuted'
  BY DEF CauseInv
<1>1. /\ wire # <<>> /\ Head(wire).kind = "msg" /\ Consume /\ Expecting
      /\ UNCHANGED <<doc, settings, transport_failure, last_error, served, ended>>
      /\ failure_reasons \subseteq failure_reasons'
      /\ Head(wire).val = Head(todo) => failure_reasons' = failure_reasons
  BY DEF ResponseMessage, Expecting, Arrived, Failed, Consume
<1>2. Expectations(doc)' = Expectations(doc)
  BY <1>1 DEF Expectations
<1> SUFFICES ASSUME ~Refuted PROVE Refuted'
  BY <1>1, <1>2 DEF Refuted
<1>3. Holding
  BY <1>1, BlamedFirst
<1>4. Head(wire).val # Head(todo)
  BY <1>1, <1>3 DEF Holding, Blamed
<1>5. PICK n \in Nat, p \in Seq(Payloads) :
         LET m == n - Len(p)
         IN  /\ n = Position /\ p = todo /\ p # <<>>
             /\ Agrees(n, p) /\ Outstanding(m) /\ m \in Nat
             /\ m + 1 \in DOMAIN Expectations(doc) /\ Expectations(doc)[m + 1] = Head(p)
  BY <1>1, <1>3, NotLost, ExpectedNext
<1>6. (n - Len(p)) + 1 <= Len(served) /\ Head(wire).val = served[(n - Len(p)) + 1]
  BY <1>1, <1>5, OutstandingTake
<1> QED
  BY <1>1, <1>2, <1>4, <1>5, <1>6 DEF Refuted

\* The stream gives no further message.
LEMMA CauseEnds ==
    TypeInv /\ StreamInv /\ AnswerInv /\ OrderInv /\ CauseInv /\ ResponseEnds => CauseInv'
<1> SUFFICES ASSUME TypeInv, StreamInv, AnswerInv, OrderInv, CauseInv, ResponseEnds, Blamed'
             PROVE  Refuted'
  BY DEF CauseInv
<1>1. /\ Expecting /\ UNCHANGED <<doc, settings, transport_failure, served, ended>>
      /\ failure_reasons \subseteq failure_reasons'
      /\ (wire # <<>> /\ Head(wire).kind # "msg") \/ (wire = <<>> /\ ended)
      /\ last_error' = NoError => last_error = NoError
      /\ wire # <<>> /\ Head(wire).kind = "err" => last_error' # NoError
  <2>1. /\ Expecting /\ UNCHANGED <<doc, settings, transport_failure>>
        /\ failure_reasons \subseteq failure_reasons'
        /\ Arrived("trailers") \/ Arrived("err") \/ Exhausted
    BY DEF ResponseEnds, FailedIfJudging, Failed
  <2>2. UNCHANGED <<served, ended>>
    BY DEF ResponseEnds, Consume, server
  <2>3. /\ Arrived("err") => last_error' # NoError
        /\ ~Arrived("err") => last_error' = last_error
    <3>1. Arrived("err") => last_error' = [kind |-> "text", val |-> Head(wire).val]
      BY DEF ResponseEnds
    <3>2. ~Arrived("err") => last_error' = last_error
      BY DEF ResponseEnds
    <3>3. [kind |-> "text", val |-> Head(wire).val] # NoError
      BY DEF NoError
    <3> QED
      BY <3>1, <3>2, <3>3
  <2>4. stream
    BY <2>1 DEF Expecting, AnswerInv
  <2> QED
    BY <2>1, <2>2, <2>3, <2>4 DEF Arrived, Exhausted
<1>2. Expectations(doc)' = Expectations(doc)
  BY <1>1 DEF Expectations
<1> SUFFICES ASSUME ~Refuted PROVE Refuted'
  BY <1>1, <1>2 DEF Refuted
<1>3. Holding
  BY <1>1, BlamedFirst
<1>4. ~Lost
  <2>1. CASE wire # <<>> /\ Head(wire).kind # "err"
    BY <2>1, NotLost
  <2>2. CASE wire # <<>> /\ Head(wire).kind = "err"
    BY <1>1, <2>2 DEF Lost, Blamed
  <2>3. CASE wire = <<>>
    BY <2>3 DEF Lost
  <2> QED
    BY <2>1, <2>2, <2>3
<1>5. PICK n \in Nat, p \in Seq(Payloads) :
         LET m == n - Len(p)
         IN  /\ n = Position /\ p = todo /\ p # <<>>
             /\ Agrees(n, p) /\ Outstanding(m) /\ m \in Nat
             /\ m + 1 \in DOMAIN Expectations(doc) /\ Expectations(doc)[m + 1] = Head(p)
  BY <1>1, <1>3, <1>4, ExpectedNext
<1>6. ended /\ n - Len(p) = Len(served)
  <2>1. CASE wire # <<>> /\ Head(wire).kind # "msg"
    BY <1>5, <2>1, OutstandingSkip
  <2>2. CASE wire = <<>> /\ ended
    <3>1. Len(wire) = 0 /\ Len(served) \in Nat
      BY <2>2, EmptySeq, UnreadTypes
    <3> QED
      BY <1>5, <2>2, <3>1 DEF Outstanding
  <2> QED
    BY <1>1, <2>1, <2>2
<1>7. Len(Expectations(doc)) > Len(served)
  BY <1>5, <1>6, BeforeType, UnreadTypes DEF TypeInv
<1> QED
  BY <1>1, <1>2, <1>6, <1>7 DEF Refuted

\* Every step of the runner, the call and the server keeps it.
LEMMA CauseNext ==
    TypeInv /\ StreamInv /\ AnswerInv /\ OrderInv /\ CauseInv /\ [Next]_vars => CauseInv'
<1> SUFFICES ASSUME TypeInv, StreamInv, AnswerInv, OrderInv, CauseInv, [Next]_vars PROVE CauseInv'
  OBVIOUS
<1>1. ASSUME Start PROVE CauseInv'
  BY <1>1, CauseKept DEF Start, AnswerInv, Failed, server
<1>2. ASSUME SkipSection PROVE CauseInv'
  BY <1>2, CauseKept DEF SkipSection, server
<1>3. ASSUME EnterSection PROVE CauseInv'
  BY <1>3, CauseKept DEF EnterSection, server, verdict
<1>4. ASSUME UnresolvedRequest PROVE CauseInv'
  BY <1>4, CauseKept DEF UnresolvedRequest, server
<1>5. ASSUME SendRequest PROVE CauseInv'
  BY <1>5, CauseKept DEF SendRequest, server
<1>6. ASSUME SendFails PROVE CauseInv'
  BY <1>6, CauseKept DEF SendFails, server
<1>7. ASSUME RequestSent PROVE CauseInv'
  BY <1>7, CauseKept DEF RequestSent, server, verdict
<1>8. ASSUME DeferResponse PROVE CauseInv'
  BY <1>8, CauseKept DEF DeferResponse, server
<1>9. ASSUME EnterReader PROVE CauseInv'
  BY <1>9, CauseKept DEF EnterReader, server, verdict
<1>10. ASSUME StreamReady PROVE CauseInv'
  BY <1>10, CauseKept DEF StreamReady, server, verdict
<1>11. ASSUME StreamStartFails PROVE CauseInv'
  BY <1>11, CauseKept DEF StreamStartFails, server
<1>12. ASSUME NoStream PROVE CauseInv'
  BY <1>12, CauseKept DEF NoStream, server
<1>13. ASSUME StartResponse PROVE CauseInv'
  BY <1>13, CauseKept DEF StartResponse, server
<1>14. ASSUME ResponseMessage PROVE CauseInv'
  BY <1>14, CauseMessage
<1>15. ASSUME ResponseEnds PROVE CauseInv'
  BY <1>15, CauseEnds
<1>16. ASSUME ResponseTimeout PROVE CauseInv'
  BY <1>16, CauseKept DEF ResponseTimeout, server
<1>17. ASSUME ResponseComplete PROVE CauseInv'
  BY <1>17, CauseKept DEF ResponseComplete, server, verdict
<1>18. ASSUME DrainMessage PROVE CauseInv'
  BY <1>18, CauseKept DEF DrainMessage, Consume
<1>19. ASSUME DrainEnds PROVE CauseInv'
  <2>1. UNCHANGED <<served, ended>>
    BY <1>19 DEF DrainEnds, Consume, server
  <2> QED
    BY <1>19, <2>1, CauseKept DEF DrainEnds, verdict
<1>20. ASSUME AttachResponse PROVE CauseInv'
  <2>1. CASE Compared'
    <3>1. ~Attaches(doc, i)
      BY <1>20, <2>1, SectionAt DEF AttachResponse, Within, Compared, Streamlined, ResponsesOnly, DrainsOnce
    <3>2. failure_reasons' = failure_reasons \/ "no attached ASSERTS" \in failure_reasons'
      BY <1>20, <3>1 DEF AttachResponse, Failed
    <3> QED
      BY <1>20, <3>2, CauseKept DEF AttachResponse, server
  <2> QED
    BY <2>1 DEF CauseInv, Blamed
<1>21. ASSUME AssertOnError PROVE CauseInv'
  BY <1>21, CauseNever DEF AssertOnError, Asserting, Within
<1>22. ASSUME AssertWithoutStream PROVE CauseInv'
  BY <1>22, CauseNever DEF AssertWithoutStream, Asserting, Within
<1>23. ASSUME AssertOnItem PROVE CauseInv'
  BY <1>23, CauseNever DEF AssertOnItem, Asserting, Within
<1>24. ASSUME AssertAtEnd PROVE CauseInv'
  BY <1>24, CauseNever DEF AssertAtEnd, Asserting, Within
<1>25. ASSUME AssertTimeout PROVE CauseInv'
  BY <1>25, CauseNever DEF AssertTimeout, Asserting, Within
<1>26. ASSUME Extract PROVE CauseInv'
  <2>1. failure_reasons' = failure_reasons \/ "extraction" \in failure_reasons'
    BY <1>26 DEF Extract, Failed
  <2> QED
    BY <1>26, <2>1, CauseKept DEF Extract, server
<1>27. ASSUME ErrorAtStart PROVE CauseInv'
  BY <1>27, CauseNever DEF ErrorAtStart, Within
<1>28. ASSUME ErrorReceived PROVE CauseInv'
  BY <1>28, CauseNever DEF ErrorReceived, ExpectingError, Within
<1>29. ASSUME ErrorNotReceived PROVE CauseInv'
  BY <1>29, CauseNever DEF ErrorNotReceived, ExpectingError, Within
<1>30. ASSUME ErrorTimeout PROVE CauseInv'
  BY <1>30, CauseNever DEF ErrorTimeout, ExpectingError, Within
<1>31. ASSUME FinishSections PROVE CauseInv'
  BY <1>31, CauseKept DEF FinishSections, server, verdict
<1>32. ASSUME FinalAwait PROVE CauseInv'
  <2>1. failure_reasons' = failure_reasons \/ "stream start" \in failure_reasons'
    BY <1>32 DEF FinalAwait, Failed
  <2> QED
    BY <1>32, <2>1, CauseKept DEF FinalAwait, server
<1>33. ASSUME FinalDrain PROVE CauseInv'
  BY <1>33, CauseKept DEF FinalDrain, Consume
<1>34. ASSUME FinalDrainEnds PROVE CauseInv'
  <2>1. failure_reasons' = failure_reasons \/ "timeout" \in failure_reasons'
    BY <1>34 DEF FinalDrainEnds, Failed
  <2> QED
    BY <1>34, <2>1, CauseKept DEF FinalDrainEnds, server
<1>35. ASSUME GiveVerdict PROVE CauseInv'
  BY <1>35, CauseKept DEF GiveVerdict, server
<1>36. ASSUME PullRequest PROVE CauseInv'
  BY <1>36, CauseKept DEF PullRequest, runnerSide, verdict, server
<1>37. ASSUME NEW code \in Codes \cup {NoStatus}, CallFails(code) PROVE CauseInv'
  BY <1>37, CauseKept DEF CallFails, runnerSide, verdict
<1>38. ASSUME HeadersArrive PROVE CauseInv'
  BY <1>38, CauseKept DEF HeadersArrive, runnerSide, verdict, server
<1>39. ASSUME CallSucceeds PROVE CauseInv'
  BY <1>39, CauseKept DEF CallSucceeds, runnerSide, verdict
<1>40. ASSUME DropRequests PROVE CauseInv'
  BY <1>40, CauseKept DEF DropRequests, runnerSide, verdict, server
<1>41. ASSUME NEW v \in Payloads, ServeMessage(v) PROVE CauseInv'
  <2> SUFFICES ASSUME Blamed' PROVE Refuted'
    BY DEF CauseInv
  <2>1. /\ UNCHANGED <<doc, settings, transport_failure, failure_reasons, last_error>>
        /\ ~ended /\ served' = Append(served, v)
    BY <1>41 DEF ServeMessage, Serving, Serve, runnerSide, verdict
  <2>2. Refuted
    BY <2>1 DEF CauseInv, Blamed, Compared, Judging, Streamlined, ResponsesOnly, DrainsOnce
  <2> QED
    BY <2>1, <2>2, RefutedStays
<1>42. ASSUME ServeTrailers PROVE CauseInv'
  BY <1>42, CauseKept DEF ServeTrailers, Serve, runnerSide, verdict
<1>43. ASSUME ServeEnd PROVE CauseInv'
  BY <1>43, CauseKept DEF ServeEnd, Serve, runnerSide, verdict
<1>44. ASSUME NEW code \in Codes, ServeError(code) PROVE CauseInv'
  BY <1>44, CauseKept DEF ServeError, Serve, runnerSide, verdict
<1>45. CASE UNCHANGED vars
  BY <1>45, CauseKept DEF vars, verdict, server
<1> QED
  BY <1>1, <1>2, <1>3, <1>4, <1>5, <1>6, <1>7, <1>8, <1>9, <1>10, <1>11, <1>12, <1>13,
     <1>14, <1>15, <1>16, <1>17, <1>18, <1>19, <1>20, <1>21, <1>22, <1>23, <1>24, <1>25,
     <1>26, <1>27, <1>28, <1>29, <1>30, <1>31, <1>32, <1>33, <1>34, <1>35, <1>36, <1>37,
     <1>38, <1>39, <1>40, <1>41, <1>42, <1>43, <1>44, <1>45 DEF Next, RunnerStep,
     RequestSteps, ReaderSteps, ResponseSteps, AssertsSteps, ErrorSteps, FinishSteps,
     CallStep, ServerStep, Done

\* In every run of a document that checks the stream with RESPONSE sections alone, the
\* verdict is that of comparing what they expect with how the server's messages begin:
\* no order of sends, reads, deferrals, repetitions, drains and timeouts lets a pass
\* through on other messages, or fails without a cause in them.
THEOREM VerdictFollowsStreamCorrect == Spec => []VerdictFollowsStream
<1> DEFINE Inv == TypeInv /\ StreamInv /\ AnswerInv /\ LedgerInv /\ OrderInv /\ CauseInv
<1>1. Init => Inv
  <2> SUFFICES ASSUME Init PROVE Inv
    OBVIOUS
  <2>1. TypeInv /\ LedgerInv
    BY TypeInit, LedgerInit
  <2>2. StreamInv /\ AnswerInv /\ CauseInv
    BY DEF Init, StreamInv, AnswerInv, CauseInv, Blamed, NoResult
  <2>3. /\ Len(doc) \in Nat /\ i - 1 = 0 /\ pc = "start" /\ Position = 0 /\ Pending = <<>>
    <3>1. Len(doc) \in Nat /\ i - 1 = 0 /\ pc = "start"
      BY <2>1, DocType DEF TypeInv, Init
    <3>2. Position = Before(0)
      BY <3>1 DEF Position, Within
    <3> QED
      BY <2>1, <3>1, <3>2, BeforeType DEF TypeInv, Pending, Init
  <2>4. Reads(0, <<>>)
    <3>1. Len(<<>>) = 0 /\ DOMAIN <<>> = {} /\ Len(Expectations(doc)) \in Nat
      BY <2>1, EmptySeq, BeforeType DEF TypeInv
    <3>2. served = <<>> /\ wire = <<>> /\ ~ended
      BY DEF Init
    <3> QED
      BY <3>1, <3>2 DEF Reads, Agrees, Outstanding
  <2>5. InPlace
    BY <2>3 DEF Init, InPlace, Within, Receiving
  <2> QED
    BY <2>1, <2>2, <2>3, <2>4, <2>5 DEF OrderInv
<1>2. Inv /\ [Next]_vars => Inv'
  BY TypeNext, StreamNext, AnswerNext, LedgerNext, OrderNext, CauseNext
<1>3. Inv => PassedInOrder
  <2> SUFFICES ASSUME Inv, CleanPass, Streamlined(doc),
                      settings.http => deferred_bidi_expectations = <<>>
               PROVE  MatchesPrefix(Expectations(doc), served)
    BY DEF PassedInOrder
  <2>1. Holding /\ pc = "done" /\ Concluding
    BY DEF CleanPass, Holding, Compared, Finished, Concluding
  <2>2. PICK n \in Nat, p \in Seq(Payloads) : n = Position /\ p = Pending /\ Reads(n, p)
    BY <2>1, AtPlace
  <2>3. n = Len(Expectations(doc)) /\ p = <<>>
    BY <2>1, <2>2 DEF Position, Pending, Within, LedgerInv
  <2>4. n - Len(p) = n
    BY <2>3, EmptySeq
  <2> QED
    BY <2>2, <2>3, <2>4, BeforeType, UnreadTypes DEF Reads, Agrees, MatchesPrefix, TypeInv
<1>4. Inv => FailedForCause
  <2> SUFFICES ASSUME Inv, Blamed PROVE ~MatchesPrefix(Expectations(doc), served)
    BY DEF FailedForCause, Blamed, Compared
  <2> QED
    BY BeforeType, UnreadTypes DEF CauseInv, Refuted, MatchesPrefix, TypeInv
<1>5. Inv => VerdictFollowsStream
  BY <1>3, <1>4 DEF VerdictFollowsStream
<1> HIDE DEF Inv
<1> QED
  BY <1>1, <1>2, <1>5, PTL DEF Spec

=============================================================================
