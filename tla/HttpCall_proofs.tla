--------------------------- MODULE HttpCall_proofs ---------------------------
(***************************************************************************)
(* Proofs about HttpCall: calls and answers of every kind and length,      *)
(* bodies cut anywhere.                                                    *)
(*                                                                         *)
(* The invariant is about the body while it is read.  What was taken off   *)
(* the buffer is a number of whole frames, so that the next byte is the    *)
(* first of a head; the messages are those that can be read in these       *)
(* frames; and the error and the trailers are still empty or, at the end   *)
(* of a stream, those of its last frame.  A body that came whole and was   *)
(* read as frames leaves nothing in the buffer, and then the messages are  *)
(* all there are.  The rest is what each way to end a call makes of it.    *)
(*                                                                         *)
(* Offset, Legible and Delivered are recursive functions: that they are    *)
(* what their definitions say is proved by SetInduction, as is what they   *)
(* come to.                                                                *)
(***************************************************************************)
EXTENDS HttpCall, SequenceTheorems, WellFoundedInduction, TLAPS

-----------------------------------------------------------------------------
(* Recursive functions                                                     *)

\* A set of numbers that holds 0, and with each number the next, holds them all.
LEMMA SetInduction ==
    ASSUME NEW S, 0 \in S, \A n \in Nat : n \in S => n + 1 \in S
    PROVE  \A n \in Nat : n \in S
<1> SUFFICES ASSUME NEW n \in Nat, n \notin S PROVE FALSE
  OBVIOUS
<1> DEFINE out == Nat \ S
<1>1. out \subseteq Nat /\ out # {}
  OBVIOUS
<1> HIDE DEF out
<1>2. PICK m \in out : \A k \in out : ~(<<k, m>> \in OpToRel(<, Nat))
  BY <1>1, NatLessThanWellFounded, WFMin, Zenon
<1>3. \A k \in out : ~(k < m)
  BY <1>1, <1>2, Zenon DEF OpToRel
<1>4. m # 0 /\ m \in Nat
  BY <1>2, <1>1 DEF out
<1>5. m - 1 \in Nat /\ m - 1 < m /\ (m - 1) + 1 = m
  BY <1>4
<1>6. m - 1 \in S
  BY <1>3, <1>5 DEF out
<1> QED
  BY <1>2, <1>5, <1>6 DEF out

\* The first frames of a body have a length.
LEMMA OffsetExists ==
    ASSUME NEW n \in Nat
    PROVE  \E g : g = [k \in 0..n |-> IF k = 0 THEN 0 ELSE g[k - 1] + FrameSize(answer.frames[k])]
<1> DEFINE value(g, k) == IF k = 0 THEN 0 ELSE g[k - 1] + FrameSize(answer.frames[k])
           S == {m \in Nat : \E g : g = [k \in 0..m |-> value(g, k)]}
<1>1. 0 \in S
  <2> DEFINE g == [k \in 0..0 |-> 0]
  <2>1. g = [k \in 0..0 |-> value(g, k)]
    OBVIOUS
  <2> QED
    BY <2>1
<1>2. ASSUME NEW m \in Nat, m \in S PROVE m + 1 \in S
  <2>1. PICK g : g = [k \in 0..m |-> value(g, k)]
    BY <1>2
  <2> DEFINE h == [k \in 0..(m + 1) |-> IF k = m + 1 THEN g[m] + FrameSize(answer.frames[m + 1]) ELSE g[k]]
  <2>2. ASSUME NEW k \in 0..(m + 1) PROVE h[k] = value(h, k)
    <3>1. CASE k = m + 1
      BY <3>1
    <3>2. CASE k \in 0..m
      <4>1. h[k] = g[k] /\ (k # 0 => h[k - 1] = g[k - 1])
        BY <3>2
      <4>2. g[k] = value(g, k)
        BY <2>1, <3>2
      <4> QED
        BY <4>1, <4>2
    <3> QED
      BY <3>1, <3>2
  <2>3. h = [k \in 0..(m + 1) |-> value(h, k)]
    BY <2>2
  <2> HIDE DEF h
  <2> QED
    BY <2>3
<1>3. n \in S
  <2> HIDE DEF S
  <2> QED
    BY <1>1, <1>2, SetInduction
<1> QED
  BY <1>3

\* The first frames of a body have their messages.
LEMMA LegibleExists ==
    ASSUME NEW n \in Nat
    PROVE  \E g : g = [k \in 0..n |->
                        IF k = 0 THEN <<>>
                        ELSE IF IsData(answer.frames[k]) /\ Readable(answer.frames[k])
                        THEN Append(g[k - 1], answer.frames[k]) ELSE g[k - 1]]
<1> DEFINE next(s, k) == IF IsData(answer.frames[k]) /\ Readable(answer.frames[k])
                         THEN Append(s, answer.frames[k]) ELSE s
           value(g, k) == IF k = 0 THEN <<>> ELSE next(g[k - 1], k)
           S == {m \in Nat : \E g : g = [k \in 0..m |-> value(g, k)]}
<1> HIDE DEF next
<1>1. 0 \in S
  <2> DEFINE g == [k \in 0..0 |-> <<>>]
  <2>1. g = [k \in 0..0 |-> value(g, k)]
    OBVIOUS
  <2> QED
    BY <2>1
<1>2. ASSUME NEW m \in Nat, m \in S PROVE m + 1 \in S
  <2>1. PICK g : g = [k \in 0..m |-> value(g, k)]
    BY <1>2
  <2> DEFINE h == [k \in 0..(m + 1) |-> IF k = m + 1 THEN next(g[m], m + 1) ELSE g[k]]
  <2>2. ASSUME NEW k \in 0..(m + 1) PROVE h[k] = value(h, k)
    <3>1. CASE k = m + 1
      BY <3>1
    <3>2. CASE k \in 0..m
      <4>1. h[k] = g[k] /\ (k # 0 => h[k - 1] = g[k - 1])
        BY <3>2
      <4>2. g[k] = value(g, k)
        BY <2>1, <3>2
      <4> QED
        BY <4>1, <4>2
    <3> QED
      BY <3>1, <3>2
  <2>3. h = [k \in 0..(m + 1) |-> value(h, k)]
    BY <2>2
  <2> HIDE DEF h
  <2> QED
    BY <2>3
<1>3. n \in S
  <2> HIDE DEF S
  <2> QED
    BY <1>1, <1>2, SetInduction
<1> QED
  BY <1>3 DEF next

\* The first items of a stream have their messages.
AreMessages(g, stream, n) ==
    g = [k \in 0..n |-> IF k = 0 THEN <<>>
                        ELSE IF "message" \in DOMAIN stream[k]
                        THEN Append(g[k - 1], stream[k].message) ELSE g[k - 1]]

LEMMA MessagesExist ==
    ASSUME NEW stream, NEW n \in Nat
    PROVE  \E g : AreMessages(g, stream, n)
<1> DEFINE next(s, k) == IF "message" \in DOMAIN stream[k] THEN Append(s, stream[k].message) ELSE s
           value(g, k) == IF k = 0 THEN <<>> ELSE next(g[k - 1], k)
           S == {m \in Nat : \E g : g = [k \in 0..m |-> value(g, k)]}
<1> HIDE DEF next
<1>1. 0 \in S
  <2> DEFINE g == [k \in 0..0 |-> <<>>]
  <2>1. g = [k \in 0..0 |-> value(g, k)]
    OBVIOUS
  <2> QED
    BY <2>1
<1>2. ASSUME NEW m \in Nat, m \in S PROVE m + 1 \in S
  <2>1. PICK g : g = [k \in 0..m |-> value(g, k)]
    BY <1>2
  <2> DEFINE h == [k \in 0..(m + 1) |-> IF k = m + 1 THEN next(g[m], m + 1) ELSE g[k]]
  <2>2. ASSUME NEW k \in 0..(m + 1) PROVE h[k] = value(h, k)
    <3>1. CASE k = m + 1
      BY <3>1
    <3>2. CASE k \in 0..m
      <4>1. h[k] = g[k] /\ (k # 0 => h[k - 1] = g[k - 1])
        BY <3>2
      <4>2. g[k] = value(g, k)
        BY <2>1, <3>2
      <4> QED
        BY <4>1, <4>2
    <3> QED
      BY <3>1, <3>2
  <2>3. h = [k \in 0..(m + 1) |-> value(h, k)]
    BY <2>2
  <2> HIDE DEF h
  <2> QED
    BY <2>3
<1>3. n \in S
  <2> HIDE DEF S
  <2> QED
    BY <1>1, <1>2, SetInduction
<1> QED
  BY <1>3 DEF next, AreMessages

-----------------------------------------------------------------------------
(* Types                                                                   *)

Typed == call \in Calls /\ answer \in Answers

LEMMA AnswerTypes ==
    ASSUME Typed
    PROVE  /\ call \in Call /\ answer \in Answer
           /\ answer.frames \in Seq(Frame) /\ Len(answer.frames) \in Nat
           /\ DOMAIN answer.frames = 1..Len(answer.frames)
           /\ \A i \in 1..Len(answer.frames) : answer.frames[i] \in Frame
           /\ \A i \in 1..Len(answer.frames) : FrameSize(answer.frames[i]) \in Nat
           /\ HeadSize \in Nat \ {0}
           /\ \A f \in Frame : f.size \in Nat /\ f.status \in Status /\ f.name \in STRING /\ f.last \in BOOLEAN
           /\ answer.error_body \in Status /\ answer.header_status \in Status
           /\ answer.http_ok \in BOOLEAN /\ answer.framed \in BOOLEAN
<1>1. call \in Call /\ answer \in Answer /\ HeadSize \in Nat \ {0}
  BY HttpAssumption DEF Typed
<1>2. answer.frames \in Seq(Frame)
  BY <1>1 DEF Answer
<1>3. Len(answer.frames) \in Nat /\ DOMAIN answer.frames = 1..Len(answer.frames)
  BY <1>2, LenProperties
<1>4. \A i \in 1..Len(answer.frames) : answer.frames[i] \in Frame
  BY <1>2, ElementOfSeq
<1>5. \A f \in Frame : f.size \in Nat /\ f.status \in Status /\ f.name \in STRING /\ f.last \in BOOLEAN
  BY DEF Frame
<1>6. \A i \in 1..Len(answer.frames) : FrameSize(answer.frames[i]) \in Nat
  BY <1>1, <1>4, <1>5 DEF FrameSize
<1> QED
  BY <1>1, <1>2, <1>3, <1>4, <1>5, <1>6 DEF Answer

\* What the assumption says of this answer.
LEMMA AnswerAssumption ==
    ASSUME Typed
    PROVE  /\ ~answer.framed => Len(answer.frames) = 1 /\ ~answer.frames[1].last
           /\ \A i \in 1..Len(answer.frames) :
                /\ answer.frames[i].name # Torn
                /\ answer.frames[i].size = 0 => answer.frames[i].status = {}
           /\ \A i, j \in 1..Len(answer.frames) :
                ~answer.frames[i].last /\ ~answer.frames[j].last
                /\ answer.frames[i].name = answer.frames[j].name
                    => answer.frames[i].status = answer.frames[j].status
<1>1. DOMAIN answer.frames = 1..Len(answer.frames)
  BY AnswerTypes
<1> QED
  BY <1>1, HttpAssumption DEF Typed

-----------------------------------------------------------------------------
(* The bytes and the messages of the first frames                          *)

LEMMA OffsetStep ==
    ASSUME Typed
    PROVE  /\ Offset[0] = 0
           /\ \A k \in 1..Len(answer.frames) : Offset[k] = Offset[k - 1] + FrameSize(answer.frames[k])
<1> DEFINE N == Len(answer.frames)
           g == Offset
<1>1. N \in Nat
  BY AnswerTypes
<1>2. g = [k \in 0..N |-> IF k = 0 THEN 0 ELSE g[k - 1] + FrameSize(answer.frames[k])]
  BY <1>1, OffsetExists DEF Offset
<1> HIDE DEF g
<1>3. g[0] = 0 /\ \A k \in 1..N : g[k] = g[k - 1] + FrameSize(answer.frames[k])
  BY <1>1, <1>2
<1> QED
  BY <1>3 DEF g

LEMMA OffsetType ==
    ASSUME Typed
    PROVE  \A k \in 0..Len(answer.frames) : Offset[k] \in Nat
<1> DEFINE N == Len(answer.frames)
           S == {k \in Nat : k <= N => Offset[k] \in Nat}
<1>1. N \in Nat
  BY AnswerTypes
<1>2. 0 \in S
  BY OffsetStep
<1>3. ASSUME NEW k \in Nat, k \in S PROVE k + 1 \in S
  <2> SUFFICES ASSUME k + 1 <= N PROVE Offset[k + 1] \in Nat
    OBVIOUS
  <2>1. k + 1 \in 1..N /\ (k + 1) - 1 = k /\ k <= N
    BY <1>1
  <2>2. Offset[k] \in Nat /\ FrameSize(answer.frames[k + 1]) \in Nat
    BY <1>3, <2>1, AnswerTypes
  <2>3. Offset[k + 1] = Offset[k] + FrameSize(answer.frames[k + 1])
    BY <2>1, OffsetStep
  <2> QED
    BY <2>2, <2>3
<1>4. \A k \in Nat : k \in S
  <2> HIDE DEF S
  <2> QED
    BY <1>2, <1>3, SetInduction
<1> QED
  BY <1>1, <1>4

\* More frames have no fewer bytes.
LEMMA OffsetGrows ==
    ASSUME Typed, NEW i \in 0..Len(answer.frames), NEW j \in i..Len(answer.frames)
    PROVE  Offset[i] <= Offset[j]
<1> DEFINE N == Len(answer.frames)
           S == {k \in Nat : i + k <= N => Offset[i] <= Offset[i + k]}
<1>1. N \in Nat /\ i \in Nat /\ j \in Nat
  BY AnswerTypes
<1>2. 0 \in S
  <2>1. i + 0 = i /\ Offset[i] \in Nat
    BY <1>1, OffsetType
  <2> QED
    BY <2>1
<1>3. ASSUME NEW k \in Nat, k \in S PROVE k + 1 \in S
  <2> SUFFICES ASSUME i + (k + 1) <= N PROVE Offset[i] <= Offset[i + (k + 1)]
    OBVIOUS
  <2>1. i + (k + 1) \in 1..N /\ (i + (k + 1)) - 1 = i + k /\ i + k \in 0..N
    BY <1>1
  <2>2. /\ Offset[i] <= Offset[i + k] /\ Offset[i] \in Nat /\ Offset[i + k] \in Nat
        /\ FrameSize(answer.frames[i + (k + 1)]) \in Nat
    BY <1>3, <2>1, AnswerTypes, OffsetType
  <2>3. Offset[i + (k + 1)] = Offset[i + k] + FrameSize(answer.frames[i + (k + 1)])
    BY <2>1, OffsetStep
  <2> QED
    BY <2>2, <2>3
<1>4. \A k \in Nat : k \in S
  <2> HIDE DEF S
  <2> QED
    BY <1>2, <1>3, SetInduction
<1>5. j - i \in Nat /\ i + (j - i) = j /\ j <= N
  BY <1>1
<1>6. j - i \in S
  BY <1>4, <1>5
<1> QED
  BY <1>5, <1>6

LEMMA LegibleStep ==
    ASSUME Typed
    PROVE  /\ Legible[0] = <<>>
           /\ \A k \in 1..Len(answer.frames) :
                Legible[k] = IF IsData(answer.frames[k]) /\ Readable(answer.frames[k])
                             THEN Append(Legible[k - 1], answer.frames[k]) ELSE Legible[k - 1]
<1> DEFINE N == Len(answer.frames)
           next(s, k) == IF IsData(answer.frames[k]) /\ Readable(answer.frames[k])
                         THEN Append(s, answer.frames[k]) ELSE s
           g == Legible
<1>1. N \in Nat
  BY AnswerTypes
<1>2. g = [k \in 0..N |-> IF k = 0 THEN <<>> ELSE next(g[k - 1], k)]
  BY <1>1, LegibleExists DEF Legible
<1> HIDE DEF g, next
<1>3. g[0] = <<>> /\ \A k \in 1..N : g[k] = next(g[k - 1], k)
  BY <1>1, <1>2
<1> QED
  BY <1>3 DEF g, next

\* A frame of the answer with a message that can be read.
IsLegible(f) == \E i \in 1..Len(answer.frames) : f = answer.frames[i] /\ IsData(f) /\ Readable(f)

LEMMA LegibleType ==
    ASSUME Typed
    PROVE  \A k \in 0..Len(answer.frames) :
                /\ Legible[k] \in Seq(Frame)
                /\ \A i \in 1..Len(Legible[k]) : IsLegible(Legible[k][i])
<1> DEFINE N == Len(answer.frames)
           Right(s) == s \in Seq(Frame) /\ \A i \in 1..Len(s) : IsLegible(s[i])
           S == {k \in Nat : k <= N => Right(Legible[k])}
<1>1. N \in Nat
  BY AnswerTypes
<1>2. 0 \in S
  <2>1. Right(<<>>)
    OBVIOUS
  <2> QED
    BY <2>1, LegibleStep
<1>3. ASSUME NEW k \in Nat, k \in S PROVE k + 1 \in S
  <2> SUFFICES ASSUME k + 1 <= N PROVE Right(Legible[k + 1])
    OBVIOUS
  <2> DEFINE f == answer.frames[k + 1]
             s == Legible[k]
  <2>1. k + 1 \in 1..N /\ (k + 1) - 1 = k /\ k <= N
    BY <1>1
  <2>2. Right(s) /\ f \in Frame
    BY <1>3, <2>1, AnswerTypes
  <2>3. Legible[k + 1] = IF IsData(f) /\ Readable(f) THEN Append(s, f) ELSE s
    BY <2>1, LegibleStep
  <2>4. ASSUME IsData(f) /\ Readable(f) PROVE Right(Append(s, f))
    <3>1. IsLegible(f)
      BY <2>1, <2>4 DEF IsLegible
    <3> HIDE DEF f, s
    <3>2. /\ Append(s, f) \in Seq(Frame) /\ Len(Append(s, f)) = Len(s) + 1 /\ Len(s) \in Nat
          /\ \A i \in 1..Len(s) : Append(s, f)[i] = s[i]
          /\ Append(s, f)[Len(s) + 1] = f
      BY <2>2, AppendProperties, LenProperties
    <3>3. \A i \in 1..(Len(s) + 1) : i \in 1..Len(s) \/ i = Len(s) + 1
      BY <3>2
    <3>4. \A i \in 1..Len(Append(s, f)) : IsLegible(Append(s, f)[i])
      BY <2>2, <3>1, <3>2, <3>3
    <3> QED
      BY <3>2, <3>4
  <2> QED
    BY <2>2, <2>3, <2>4
<1>4. \A k \in Nat : k \in S
  <2> HIDE DEF S
  <2> QED
    BY <1>2, <1>3, SetInduction
<1> QED
  BY <1>1, <1>4

\* A sequence that agrees with the beginning of another is a prefix of it.
LEMMA PrefixOf ==
    ASSUME NEW T, NEW s \in Seq(T), NEW t \in Seq(T), Len(s) <= Len(t),
           \A i \in 1..Len(s) : s[i] = t[i]
    PROVE  IsPrefix(s, t)
<1>1. Len(s) \in Nat /\ Len(t) \in Nat
  BY LenProperties
<1>2. SubSeq(s, 1, Len(s)) = SubSeq(t, 1, Len(s))
  OBVIOUS
<1> QED
  BY <1>1, <1>2 DEF IsPrefix

LEMMA NamesOf ==
    ASSUME NEW fs \in Seq(Frame)
    PROVE  /\ Names(fs) \in Seq(STRING) /\ Len(Names(fs)) = Len(fs) /\ Len(fs) \in Nat
           /\ \A i \in 1..Len(fs) : Names(fs)[i] = fs[i].name
           /\ \A f \in Frame : Names(Append(fs, f)) = Append(Names(fs), f.name)
<1> DEFINE n == Len(fs)
<1>1. n \in Nat /\ DOMAIN fs = 1..n /\ \A i \in 1..n : fs[i] \in Frame
  BY LenProperties, ElementOfSeq
<1>2. \A f \in Frame : f.name \in STRING
  BY DEF Frame
<1>3. Names(fs) \in [1..n -> STRING]
  BY <1>1, <1>2 DEF Names
<1>4. Names(fs) \in Seq(STRING) /\ Len(Names(fs)) = n
  BY <1>1, <1>3
<1>5. \A i \in 1..n : Names(fs)[i] = fs[i].name
  BY <1>1 DEF Names
<1>6. ASSUME NEW f \in Frame PROVE Names(Append(fs, f)) = Append(Names(fs), f.name)
  <2> DEFINE longer == Append(fs, f)
  <2>1. /\ Len(longer) = n + 1 /\ DOMAIN longer = 1..(n + 1)
        /\ \A i \in 1..n : longer[i] = fs[i]
        /\ longer[n + 1] = f
    BY <1>1, AppendProperties
  <2> HIDE DEF longer
  <2>2. Names(longer) = [i \in 1..(n + 1) |-> longer[i].name]
    BY <2>1 DEF Names
  <2> DEFINE s == Names(fs)
             t == Append(s, f.name)
  <2>3. /\ DOMAIN t = 1..(n + 1)
        /\ \A i \in 1..n : t[i] = s[i]
        /\ t[n + 1] = f.name /\ t = [i \in 1..(n + 1) |-> t[i]]
    <3>1. s \in Seq(STRING) /\ Len(s) = n /\ f.name \in STRING
      BY <1>2, <1>4
    <3> HIDE DEF s
    <3> QED
      BY <3>1, <1>1, AppendProperties
  <2> HIDE DEF t
  <2>4. \A i \in 1..(n + 1) : t[i] = longer[i].name
    <3> SUFFICES ASSUME NEW i \in 1..(n + 1) PROVE t[i] = longer[i].name
      OBVIOUS
    <3>1. CASE i \in 1..n
      BY <1>5, <2>1, <2>3, <3>1 DEF s
    <3>2. CASE i = n + 1
      BY <2>1, <2>3, <3>2
    <3> QED
      BY <1>1, <3>1, <3>2
  <2>5. Names(longer) = t
    BY <2>2, <2>3, <2>4
  <2> QED
    BY <2>5 DEF longer, t, s
<1> QED
  BY <1>1, <1>4, <1>5, <1>6

\* What was read of the first frames is a prefix of what can be read of all, and no part
\* of a message.
LEMMA LegiblePrefix ==
    ASSUME Typed, NEW k \in 0..Len(answer.frames)
    PROVE  /\ Names(Legible[k]) \in Seq(STRING)
           /\ IsPrefix(Names(Legible[k]), Names(legible))
           /\ Torn \notin ToSet(Names(Legible[k]))
<1> DEFINE N == Len(answer.frames)
           s == Legible[k]
           Extends(t) == Len(s) <= Len(t) /\ \A i \in 1..Len(s) : s[i] = t[i]
           S == {d \in Nat : k + d <= N => Extends(Legible[k + d])}
<1>1. N \in Nat /\ k \in Nat /\ N - k \in Nat /\ k + (N - k) = N /\ N \in 0..N
  BY AnswerTypes
<1>2. s \in Seq(Frame) /\ Len(s) \in Nat /\ legible \in Seq(Frame)
  BY <1>1, LegibleType, LenProperties DEF legible
<1>3. 0 \in S
  <2>1. k + 0 = k
    BY <1>1
  <2> QED
    BY <1>2, <2>1
<1>4. ASSUME NEW d \in Nat, d \in S PROVE d + 1 \in S
  <2> SUFFICES ASSUME k + (d + 1) <= N PROVE Extends(Legible[k + (d + 1)])
    OBVIOUS
  <2> DEFINE t == Legible[k + d]
             f == answer.frames[k + (d + 1)]
  <2>1. k + (d + 1) \in 1..N /\ (k + (d + 1)) - 1 = k + d /\ k + d \in 0..N /\ k + d <= N
    BY <1>1
  <2>2. Extends(t) /\ t \in Seq(Frame) /\ f \in Frame
    BY <1>4, <2>1, LegibleType, AnswerTypes
  <2>3. Legible[k + (d + 1)] = IF IsData(f) /\ Readable(f) THEN Append(t, f) ELSE t
    BY <2>1, LegibleStep
  <2>4. Extends(Append(t, f))
    <3> HIDE DEF t, f, s
    <3>1. /\ Len(Append(t, f)) = Len(t) + 1 /\ Len(t) \in Nat
          /\ \A i \in 1..Len(t) : Append(t, f)[i] = t[i]
      BY <2>2, AppendProperties, LenProperties
    <3>2. \A i \in 1..Len(s) : i \in 1..Len(t)
      BY <1>2, <2>2, <3>1
    <3> QED
      BY <1>2, <2>2, <3>1, <3>2
  <2> QED
    BY <2>2, <2>3, <2>4
<1>5. \A d \in Nat : d \in S
  <2> HIDE DEF S
  <2> QED
    BY <1>3, <1>4, SetInduction
<1>6. Extends(legible)
  <2>1. N - k \in S
    BY <1>1, <1>5
  <2> QED
    BY <1>1, <2>1 DEF legible
<1>7. Names(s) \in Seq(STRING) /\ Names(legible) \in Seq(STRING)
      /\ Len(Names(s)) = Len(s) /\ Len(Names(legible)) = Len(legible)
      /\ (\A i \in 1..Len(s) : Names(s)[i] = s[i].name)
      /\ (\A i \in 1..Len(legible) : Names(legible)[i] = legible[i].name)
  BY <1>2, NamesOf
<1>8. IsPrefix(Names(s), Names(legible))
  <2>1. Len(legible) \in Nat
    BY <1>2, LenProperties
  <2>2. \A i \in 1..Len(s) : i \in 1..Len(legible)
    BY <1>2, <1>6, <2>1
  <2>3. \A i \in 1..Len(Names(s)) : Names(s)[i] = Names(legible)[i]
    BY <1>6, <1>7, <2>2
  <2>4. Len(Names(s)) <= Len(Names(legible))
    BY <1>6, <1>7
  <2> QED
    BY <1>7, <2>3, <2>4, PrefixOf
<1>9. Torn \notin ToSet(Names(s))
  <2> SUFFICES ASSUME NEW i \in DOMAIN Names(s), Names(s)[i] = Torn PROVE FALSE
    BY DEF ToSet
  <2>1. i \in 1..Len(s)
    BY <1>7
  <2>2. IsLegible(s[i]) /\ s[i].name = Torn
    BY <1>7, <2>1, LegibleType
  <2> QED
    BY <2>2, AnswerAssumption DEF IsLegible
<1> QED
  BY <1>7, <1>8, <1>9

-----------------------------------------------------------------------------
(* The items of a stream                                                   *)

LEMMA WiderSeq ==
    ASSUME NEW A, NEW B, A \subseteq B, NEW s \in Seq(A)
    PROVE  s \in Seq(B)
<1>1. Len(s) \in Nat /\ s \in [1..Len(s) -> A]
  OBVIOUS
<1>2. s \in [1..Len(s) -> B]
  BY <1>1
<1> QED
  BY <1>1, <1>2

LEMMA DeliveredStep ==
    ASSUME Len(items') \in Nat
    PROVE  /\ (Delivered[0] = <<>>)'
           /\ \A k \in 1..Len(items') :
                Delivered'[k] = IF "message" \in DOMAIN items'[k]
                                THEN Append(Delivered'[k - 1], items'[k].message) ELSE Delivered'[k - 1]
<1> DEFINE N == Len(items')
           next(s, k) == IF "message" \in DOMAIN items'[k] THEN Append(s, items'[k].message) ELSE s
           g == Delivered'
<1>1. g = [k \in 0..N |-> IF k = 0 THEN <<>> ELSE next(g[k - 1], k)]
  <2>1. \E h : AreMessages(h, items', N)
    BY MessagesExist
  <2>2. g = CHOOSE h : AreMessages(h, items', N)
    BY DEF Delivered, AreMessages
  <2> HIDE DEF g
  <2>3. AreMessages(g, items', N)
    BY <2>1, <2>2
  <2> QED
    BY <2>3 DEF AreMessages
<1> HIDE DEF g, next
<1>2. g[0] = <<>> /\ \A k \in 1..N : g[k] = next(g[k - 1], k)
  BY <1>1
<1> QED
  BY <1>2 DEF g, next

\* An error is an item alone.
LEMMA ErrorItem ==
    ASSUME NEW m, NEW t, NEW e, e # {}, items' = convert_result(m, t, e)
    PROVE  delivered' = <<>> /\ failed' = {(CHOOSE x \in e : TRUE).code}
<1> DEFINE code == (CHOOSE x \in e : TRUE).code
           item == [error |-> code]
<1>1. items' = <<item>>
  BY DEF convert_result
<1>2. Len(items') = 1 /\ items'[1] = item /\ DOMAIN items' = {1}
  BY <1>1
<1>3. DOMAIN item = {"error"} /\ item.error = code
  OBVIOUS
<1> HIDE DEF item
<1>4. delivered' = <<>>
  <2>1. (Delivered[0] = <<>>)' /\ Delivered'[1] = Delivered'[1 - 1]
    BY <1>2, <1>3, DeliveredStep
  <2> QED
    BY <1>2, <2>1 DEF delivered
<1>5. failed' = {code}
  <2>1. ToSet(items') = {item}
    BY <1>2 DEF ToSet
  <2>2. {y \in ToSet(items') : "error" \in DOMAIN y} = {item}
    BY <1>3, <2>1
  <2>3. failed' = {x.error : x \in {y \in ToSet(items') : "error" \in DOMAIN y}}
    BY DEF failed
  <2> QED
    BY <1>3, <2>2, <2>3
<1> QED
  BY <1>4, <1>5 DEF code

\* Without one the items are the messages and, after them, the trailers.
LEMMA MessageItems ==
    ASSUME NEW T, NEW m \in Seq(T), NEW t, items' = convert_result(m, t, {})
    PROVE  delivered' = m /\ failed' = {}
<1> DEFINE n == Len(m)
           rest == IF t.any THEN <<[trailers |-> t.status]>> ELSE <<>>
           Closing == {[trailers |-> t.status]}
           wrapped == [i \in DOMAIN m |-> [message |-> m[i]]]
<1>1. n \in Nat /\ DOMAIN m = 1..n /\ \A i \in 1..n : m[i] \in T
  BY LenProperties, ElementOfSeq
<1>2. items' = wrapped \o rest
  BY DEF convert_result
<1>3. wrapped \in Seq([message : T]) /\ Len(wrapped) = n /\ \A i \in 1..n : wrapped[i] = [message |-> m[i]]
  <2>1. wrapped \in [1..n -> [message : T]]
    BY <1>1
  <2> QED
    BY <1>1, <2>1
<1>4. /\ Len(rest) \in {0, 1} /\ DOMAIN rest = 1..Len(rest) /\ rest \in Seq(Closing)
      /\ \A i \in 1..Len(rest) : rest[i] = [trailers |-> t.status]
  <2>1. CASE t.any
    BY <2>1
  <2>2. CASE ~t.any
    BY <2>2
  <2> QED
    BY <2>1, <2>2
<1>5. \A i \in 1..n : [message |-> m[i]].message = m[i] /\ DOMAIN [message |-> m[i]] = {"message"}
  OBVIOUS
<1>6. DOMAIN [trailers |-> t.status] = {"trailers"}
  OBVIOUS
<1>7. Len(items') = n + Len(rest) /\ Len(items') \in Nat /\ DOMAIN items' = 1..(n + Len(rest))
      /\ (\A i \in 1..n : items'[i] = [message |-> m[i]])
      /\ (\A i \in (n + 1)..Len(items') : items'[i] = [trailers |-> t.status])
  <2> HIDE DEF rest, wrapped
  <2> DEFINE U == [message : T] \cup Closing
  <2>0. wrapped \in Seq(U) /\ rest \in Seq(U)
    <3>1. [message : T] \subseteq U /\ Closing \subseteq U
      OBVIOUS
    <3> HIDE DEF U, Closing
    <3>2. wrapped \in Seq(U)
      BY <1>3, <3>1, WiderSeq
    <3>3. rest \in Seq(U)
      BY <1>4, <3>1, WiderSeq
    <3> QED
      BY <3>2, <3>3
  <2> HIDE DEF U
  <2>1. /\ wrapped \o rest \in Seq(U) /\ Len(wrapped \o rest) = n + Len(rest)
        /\ \A i \in 1..(n + Len(rest)) : (wrapped \o rest)[i] = IF i <= n THEN wrapped[i] ELSE rest[i - n]
    <3>1. \A s1, s2 \in Seq(U) :
            /\ s1 \o s2 \in Seq(U) /\ Len(s1 \o s2) = Len(s1) + Len(s2)
            /\ \A i \in 1..(Len(s1) + Len(s2)) : (s1 \o s2)[i] = IF i <= Len(s1) THEN s1[i] ELSE s2[i - Len(s1)]
      BY ConcatProperties
    <3>2. Len(wrapped) = n
      BY <1>3
    <3> HIDE DEF n
    <3> QED
      BY <2>0, <3>1, <3>2
  <2>2. Len(items') = n + Len(rest) /\ Len(items') \in Nat /\ DOMAIN items' = 1..(n + Len(rest))
    BY <1>1, <1>2, <1>4, <2>1
  <2>3. \A i \in 1..n : items'[i] = [message |-> m[i]]
    BY <1>1, <1>2, <1>3, <1>4, <2>1
  <2>4. ASSUME NEW i \in (n + 1)..Len(items') PROVE items'[i] = [trailers |-> t.status]
    <3>1. i - n \in 1..Len(rest) /\ i \in 1..(n + Len(rest)) /\ ~(i <= n)
      BY <1>1, <1>4, <2>2
    <3> QED
      BY <1>2, <1>4, <2>1, <3>1
  <2> QED
    BY <2>2, <2>3, <2>4
<1> HIDE DEF rest, wrapped
<1> DEFINE D == Delivered'
<1>8. /\ D[0] = <<>>
      /\ \A k \in 1..Len(items') :
            D[k] = IF "message" \in DOMAIN items'[k] THEN Append(D[k - 1], items'[k].message) ELSE D[k - 1]
  BY <1>7, DeliveredStep
<1> HIDE DEF D
<1> DEFINE S == {k \in Nat : k <= n => D[k] = SubSeq(m, 1, k)}
<1>9. 0 \in S
  <2>1. SubSeq(m, 1, 0) = <<>>
    BY <1>1
  <2> QED
    BY <1>8, <2>1
<1>10. ASSUME NEW k \in Nat, k \in S PROVE k + 1 \in S
  <2> SUFFICES ASSUME k + 1 <= n PROVE D[k + 1] = SubSeq(m, 1, k + 1)
    OBVIOUS
  <2>1. k + 1 \in 1..n /\ k + 1 \in 1..Len(items') /\ (k + 1) - 1 = k /\ k <= n
    BY <1>1, <1>4, <1>7
  <2>2. items'[k + 1] = [message |-> m[k + 1]]
    BY <1>7, <2>1
  <2>3. D[k + 1] = Append(D[k], m[k + 1])
    BY <1>5, <1>8, <2>1, <2>2
  <2>4. D[k] = SubSeq(m, 1, k)
    BY <1>10, <2>1
  <2>5. Append(SubSeq(m, 1, k), m[k + 1]) = SubSeq(m, 1, k + 1)
    BY <1>1, <2>1
  <2> QED
    BY <2>3, <2>4, <2>5
<1>11. D[n] = m
  <2>1. \A k \in Nat : k \in S
    <3> HIDE DEF S
    <3> QED
      BY <1>9, <1>10, SetInduction
  <2>2. SubSeq(m, 1, n) = m
    BY <1>1
  <2> QED
    BY <1>1, <2>1, <2>2
<1>12. D[Len(items')] = m
  <2>1. CASE Len(rest) = 0
    BY <1>7, <1>11, <2>1
  <2>2. CASE Len(rest) = 1
    <3>1. Len(items') = n + 1 /\ n + 1 \in 1..Len(items') /\ n + 1 \in (n + 1)..Len(items') /\ (n + 1) - 1 = n
      BY <1>1, <1>7, <2>2
    <3>2. items'[n + 1] = [trailers |-> t.status]
      BY <1>7, <3>1
    <3>3. "message" \notin DOMAIN items'[n + 1]
      BY <1>6, <3>2
    <3> QED
      BY <1>8, <1>11, <3>1, <3>3
  <2> QED
    BY <1>4, <2>1, <2>2
<1>13. failed' = {}
  <2>1. ASSUME NEW y \in ToSet(items') PROVE "error" \notin DOMAIN y
    <3>1. PICK i \in 1..Len(items') : y = items'[i]
      BY <1>7 DEF ToSet
    <3>2. i \in 1..n \/ i \in (n + 1)..Len(items')
      BY <1>1, <1>4, <1>7
    <3>3. CASE i \in 1..n
      <4>1. y = [message |-> m[i]]
        BY <1>7, <3>1, <3>3
      <4>2. DOMAIN y = {"message"}
        BY <4>1
      <4> QED
        BY <4>2
    <3>4. CASE i \in (n + 1)..Len(items')
      BY <1>6, <1>7, <3>1, <3>4
    <3> QED
      BY <3>2, <3>3, <3>4
  <2>2. failed' = {x.error : x \in {y \in ToSet(items') : "error" \in DOMAIN y}}
    BY DEF failed
  <2> QED
    BY <2>1, <2>2
<1> QED
  BY <1>12, <1>13 DEF delivered, D

-----------------------------------------------------------------------------
(* What a call ends with                                                   *)

LEMMA Same ==
    ASSUME UNCHANGED <<call, answer>>
    PROVE  /\ path' = path /\ encoding' = encoding /\ collects' = collects /\ reads_frames' = reads_frames
           /\ Offset' = Offset /\ body_size' = body_size
           /\ Legible' = Legible /\ legible' = legible
           /\ Stream' = Stream /\ AsAsked' = AsAsked
           /\ ends' = ends /\ said' = said /\ SaidInFull' = SaidInFull
<1>1. needs_collect' = needs_collect /\ mode_of_call' = mode_of_call
  BY DEF needs_collect, mode_of_call
<1>2. path' = path
  BY <1>1 DEF path
<1>3. encoding' = encoding
  BY <1>2 DEF encoding
<1>4. collects' = collects /\ reads_frames' = reads_frames
  BY <1>2, <1>3 DEF collects, reads_frames
<1>5. Offset' = Offset
  BY DEF Offset, FrameSize
<1>6. body_size' = body_size
  BY <1>5 DEF body_size
<1>7. \A f : IsData(f)' = IsData(f) /\ Readable(f)' = Readable(f)
  BY <1>3 DEF IsData, Readable
<1>8. Legible' = Legible
  BY <1>7 DEF Legible
<1>9. legible' = legible
  BY <1>8 DEF legible
<1>10. Stream' = Stream
  BY DEF Stream
<1>11. AsAsked' = AsAsked
  BY <1>2, <1>3, <1>9, <1>10 DEF AsAsked, raw
<1>12. ends' = ends
  BY DEF ends
<1>13. said' = said
  BY <1>2, <1>12 DEF said
<1>14. SaidInFull' = SaidInFull
  BY <1>2, <1>3, <1>9, <1>12 DEF SaidInFull
<1> QED
  BY <1>2, <1>3, <1>4, <1>5, <1>6, <1>8, <1>9, <1>10, <1>11, <1>12, <1>13, <1>14

Codes(e) == {x.code : x \in e}

\* The messages m are as DeliveredAsSent has them, if the call ends with them and with no
\* error.
Good(m, e) ==
    answer.http_ok /\ e = {} =>
        \/ m = <<Torn>> /\ ~(whole /\ AsAsked)
        \/ /\ Torn \notin ToSet(m)
           /\ IsPrefix(m, Names(legible))
           /\ whole /\ AsAsked => m = Names(legible)

\* The error e is as StatusSurvives has it.
Told(e) ==
    whole /\ path # "multi" /\ (answer.http_ok => AsAsked) =>
        Codes(e) = IF said # {} /\ SaidInFull THEN Last(legible).status ELSE said

\* A status is one at most, whoever says it.
LEMMA OneStatus ==
    ASSUME Typed, whole, path # "multi", answer.http_ok => AsAsked
    PROVE  /\ \A x, y \in said : x = y
           /\ legible # <<>> => \A x, y \in Last(legible).status : x = y
<1>1. legible # <<>> => Last(legible) \in Frame
  <2>1. legible \in Seq(Frame)
    BY AnswerTypes, LegibleType DEF legible
  <2> QED
    BY <2>1 DEF Last
<1>2. \A s \in Status : \A x, y \in s : x = y
  BY DEF Status
<1>3. ASSUME answer.http_ok PROVE \A f, g \in ends : f = g
  <2>1. \A i \in 1..Len(answer.frames) : answer.frames[i].last => i = Len(answer.frames)
    <3>1. CASE Stream
      BY <3>1, AnswerTypes DEF Stream
    <3>2. CASE ~answer.framed
      BY <3>2, AnswerTypes, AnswerAssumption
    <3>3. CASE answer.frames = <<>>
      BY <3>3
    <3> QED
      BY <1>3, <3>1, <3>2, <3>3 DEF AsAsked
  <2> QED
    BY <2>1, AnswerTypes DEF ends, ToSet
<1>4. \A f \in ends : f.status \in Status
  BY AnswerTypes DEF ends, ToSet
<1>5. \A x, y \in said : x = y
  <2>1. CASE ~answer.http_ok
    BY <1>2, <2>1, AnswerTypes DEF said
  <2>2. CASE answer.http_ok
    <3>1. CASE ends = {}
      BY <1>2, <2>2, <3>1, AnswerTypes DEF said, NotOK
    <3>2. CASE ends # {}
      <4>1. PICK f \in ends : \A g \in ends : g = f
        BY <1>3, <2>2, <3>2
      <4>2. UNION {g.status : g \in ends} = f.status
        BY <4>1
      <4>3. said = NotOK(f.status)
        BY <2>2, <3>2, <4>2 DEF said
      <4> QED
        BY <1>2, <1>4, <4>3 DEF NotOK
    <3> QED
      BY <3>1, <3>2
  <2> QED
    BY <2>1, <2>2
<1> QED
  BY <1>1, <1>2, <1>5, AnswerTypes

LEMMA EmptyPrefix ==
    ASSUME Typed
    PROVE  /\ Names(legible) \in Seq(STRING) /\ IsPrefix(<<>>, Names(legible))
           /\ Torn \notin ToSet(<<>>)
<1> DEFINE all == Names(legible)
<1>1. legible \in Seq(Frame)
  BY AnswerTypes, LegibleType DEF legible
<1>2. all \in Seq(STRING)
  BY <1>1, NamesOf
<1> HIDE DEF all
<1>3. Len(all) \in Nat /\ Len(<<>>) = 0 /\ SubSeq(<<>>, 1, 0) = <<>> /\ SubSeq(all, 1, 0) = <<>>
  BY <1>2, LenProperties
<1>4. IsPrefix(<<>>, all)
  BY <1>3 DEF IsPrefix
<1>5. ToSet(<<>>) = {}
  BY DEF ToSet
<1> QED
  BY <1>2, <1>4, <1>5 DEF all

\* A call that ends with messages and an error that are right makes both properties true.
LEMMA Finished ==
    ASSUME Typed, NEW m \in Seq(STRING \cup {Torn}), NEW t, NEW e,
           Finish(m, t, e), Good(m, e), Told(e)
    PROVE  DeliveredAsSent' /\ StatusSurvives'
<1>1. /\ UNCHANGED <<call, answer, received>>
      /\ items' = convert_result(m, t, e)
  BY DEF Finish
<1>2. /\ path' = path /\ AsAsked' = AsAsked /\ legible' = legible /\ said' = said
      /\ SaidInFull' = SaidInFull /\ whole' = whole
  BY <1>1, Same DEF whole
<1>3. CASE e # {}
  <2>1. delivered' = <<>> /\ failed' = {(CHOOSE x \in e : TRUE).code}
    BY <1>1, <1>3, ErrorItem
  <2>2. DeliveredAsSent'
    BY <1>2, <2>1, EmptyPrefix DEF DeliveredAsSent
  <2>3. StatusSurvives'
    <3> SUFFICES ASSUME whole, path # "multi", answer.http_ok => AsAsked
                 PROVE  failed' = IF said # {} /\ SaidInFull THEN Last(legible).status ELSE said
      BY <1>1, <1>2 DEF StatusSurvives
    <3> DEFINE S == IF said # {} /\ SaidInFull THEN Last(legible).status ELSE said
               c == (CHOOSE x \in e : TRUE).code
    <3>1. Codes(e) = S
      BY DEF Told
    <3>2. \A x, y \in S : x = y
      BY OneStatus DEF SaidInFull
    <3>3. c \in Codes(e)
      BY <1>3 DEF Codes
    <3> HIDE DEF S, c
    <3>4. S = {c}
      BY <3>1, <3>2, <3>3
    <3> QED
      BY <2>1, <3>4 DEF S, c
  <2> QED
    BY <2>2, <2>3
<1>4. CASE e = {}
  <2>1. delivered' = m /\ failed' = {}
    BY <1>1, <1>4, MessageItems
  <2>2. DeliveredAsSent'
    BY <1>1, <1>2, <1>4, <2>1 DEF DeliveredAsSent, Good
  <2>3. Codes(e) = {}
    BY <1>4 DEF Codes
  <2>4. StatusSurvives'
    BY <1>1, <1>2, <2>1, <2>3 DEF StatusSurvives, Told
  <2> QED
    BY <2>2, <2>4
<1> QED
  BY <1>3, <1>4

\* A failure of the transport delivers nothing; it has to be right that the call failed.
LEMMA Failed ==
    ASSUME Typed, Fail, ended => Told({Error(Unknown, FALSE)})
    PROVE  DeliveredAsSent' /\ StatusSurvives'
<1>1. CASE ended
  <2>1. Good(<<>>, {Error(Unknown, FALSE)})
    BY DEF Good
  <2>2. <<>> \in Seq(STRING \cup {Torn})
    OBVIOUS
  <2> QED
    BY <1>1, <2>1, <2>2, Finished DEF Fail
<1>2. CASE ~ended
  <2>1. ended' = ended
    BY DEF Fail, Finish
  <2> QED
    BY <1>2, <2>1 DEF DeliveredAsSent, StatusSurvives, Answered
<1> QED
  BY <1>1, <1>2

-----------------------------------------------------------------------------
(* The invariant                                                           *)

\* As long as no end was read, there is nothing of it.
NoEnd == (\A i \in 1..popped : ~answer.frames[i].last) => trailers = NoTrailers /\ error = {}

\* What is left of the end of a stream: its status, in the frame or in the headers.
EndRead ==
    Stream /\ popped = Len(answer.frames) =>
        LET f == Last(answer.frames)
        IN  IF call.protocol = "grpc_web"
            THEN /\ trailers = [any |-> TRUE, status |-> f.status]
                 /\ error = {Error(code, f.details) : code \in NotOK(f.status)}
            ELSE IF f.size = 0
            THEN error = {Error(code, FALSE) : code \in NotOK(answer.header_status)}
            ELSE error = {Error(code, f.details) : code \in f.status}

Body ==
    /\ received \in 0..body_size /\ popped \in 0..Len(answer.frames)
    /\ popped > 0 => answer.http_ok /\ answer.framed /\ reads_frames
    /\ answer.http_ok => Offset[popped] <= received
    /\ collects /\ ~ended => popped = 0
    /\ messages = Names(Legible[popped])
    /\ NoEnd /\ EndRead

IInv ==
    /\ Typed /\ (answer.text => path = "web")
    /\ pc \in {"start", "send"} => ~ended
    /\ pc # "done" => Body
    /\ DeliveredAsSent /\ StatusSurvives

-----------------------------------------------------------------------------
(* Before the answer is in                                                 *)

\* Nothing was taken off the buffer: nothing was read.
LEMMA NothingRead ==
    ASSUME Typed, Body, popped = 0
    PROVE  messages = <<>> /\ trailers = NoTrailers /\ error = {}
<1>1. Names(<<>>) = <<>>
  BY DEF Names
<1>2. messages = <<>>
  BY <1>1, LegibleStep DEF Body
<1>3. \A i \in 1..popped : FALSE
  OBVIOUS
<1> QED
  BY <1>2, <1>3 DEF Body, NoEnd

LEMMA BodySize ==
    ASSUME Typed
    PROVE  body_size \in Nat /\ (answer.http_ok => body_size = Offset[Len(answer.frames)])
BY AnswerTypes, OffsetType DEF body_size

LEMMA InitInvariant == Init => IInv
<1> SUFFICES ASSUME Init PROVE IInv
  OBVIOUS
<1> USE DEF Init
<1>1. Typed
  BY DEF Typed
<1>2. /\ Len(answer.frames) \in Nat /\ Offset[0] = 0 /\ Legible[0] = <<>> /\ body_size \in Nat
  BY <1>1, AnswerTypes, OffsetStep, LegibleStep, BodySize
<1>3. Names(<<>>) = <<>>
  BY DEF Names
<1>4. ~(Stream /\ popped = Len(answer.frames))
  BY <1>1, AnswerTypes DEF Stream
<1>5. Body
  <2>1. NoEnd /\ EndRead
    BY <1>4 DEF NoEnd, EndRead
  <2>2. received \in 0..body_size /\ popped \in 0..Len(answer.frames)
    BY <1>2
  <2>3. Offset[popped] = 0 /\ Legible[popped] = <<>>
    BY <1>2
  <2> QED
    BY <1>3, <2>1, <2>2, <2>3 DEF Body
<1> QED
  BY <1>1, <1>5 DEF IInv, DeliveredAsSent, StatusSurvives, Answered

\* What the invariant says of the call and of its answer does not change.
LEMMA SameCall ==
    ASSUME IInv, UNCHANGED <<call, answer>>
    PROVE  Typed' /\ (answer.text => path = "web")'
BY Same DEF IInv, Typed

\* A step that takes no frame and reads the body no shorter.
LEMMA BodyKept ==
    ASSUME Typed, Body, UNCHANGED <<call, answer, parsed>>,
           received' \in 0..body_size,
           received' >= received \/ popped = 0,
           ended' \/ ended' = ended
    PROVE  Body'
<1> USE DEF parsed
<1>1. /\ Offset' = Offset /\ Legible' = Legible /\ body_size' = body_size /\ Stream' = Stream
      /\ collects' = collects /\ reads_frames' = reads_frames
  BY Same
<1>2. NoEnd' /\ EndRead'
  BY <1>1 DEF Body, NoEnd, EndRead
<1>3. answer.http_ok => Offset[popped] <= received'
  <2>1. CASE popped = 0
    BY <2>1, OffsetStep, BodySize
  <2>2. CASE received' >= received
    <3>1. answer.http_ok => Offset[popped] \in Nat
      BY OffsetType DEF Body
    <3> QED
      BY <2>2, <3>1, BodySize DEF Body
  <2> QED
    BY <2>1, <2>2
<1>4. messages' = (Names(Legible[popped]))'
  BY <1>1 DEF Body, Names
<1>5. collects /\ ~ended' => popped = 0
  BY DEF Body
<1>6. popped \in 0..Len(answer.frames) /\ (popped > 0 => answer.http_ok /\ answer.framed /\ reads_frames)
  BY DEF Body
<1> QED
  BY <1>1, <1>2, <1>3, <1>4, <1>5, <1>6 DEF Body

\* A call that goes on has delivered nothing yet.
LEMMA GoesOn ==
    ASSUME IInv, pc' # "done", UNCHANGED <<call, answer>>, Body', pc' \in {"start", "send"} => ~ended'
    PROVE  IInv'
<1>1. Typed' /\ (answer.text => path = "web")'
  BY SameCall
<1>2. DeliveredAsSent' /\ StatusSurvives'
  BY DEF DeliveredAsSent, StatusSurvives, Answered
<1> QED
  BY <1>1, <1>2 DEF IInv

\* A call that has ended keeps what it ended with.
LEMMA Ends ==
    ASSUME IInv, pc' = "done", UNCHANGED <<call, answer>>, DeliveredAsSent', StatusSurvives'
    PROVE  IInv'
<1>1. Typed' /\ (answer.text => path = "web")'
  BY SameCall
<1> QED
  BY <1>1 DEF IInv

LEMMA StartInvariant == ASSUME IInv, Start PROVE IInv'
<1>1. ~ended /\ Typed /\ Body /\ pc = "start"
  BY DEF IInv, Start
<1>2. ASSUME NEW m, NEW t, NEW e, Finish(m, t, e) PROVE IInv'
  <2>1. pc' = "done" /\ UNCHANGED <<call, answer>> /\ ended' = ended
    BY <1>2 DEF Finish
  <2>2. DeliveredAsSent' /\ StatusSurvives'
    BY <1>1, <2>1 DEF DeliveredAsSent, StatusSurvives, Answered
  <2> QED
    BY <2>1, <2>2, Ends
<1>3. ASSUME pc' = "send", UNCHANGED <<call, answer, received, ended, parsed, items>> PROVE IInv'
  <2>1. Body'
    BY <1>1, <1>3, BodyKept, BodySize DEF Body
  <2> QED
    BY <1>1, <1>3, <2>1, GoesOn
<1> QED
  BY <1>2, <1>3 DEF Start, Fail

LEMMA SendInvariant == ASSUME IInv, Send PROVE IInv'
<1>1. ~ended /\ Typed /\ Body /\ pc = "send"
  BY DEF IInv, Send
<1>2. ASSUME Fail PROVE IInv'
  <2>1. pc' = "done" /\ UNCHANGED <<call, answer>>
    BY <1>2 DEF Fail, Finish
  <2> QED
    BY <1>1, <1>2, <2>1, Failed, Ends
<1>3. ASSUME pc' = "body", UNCHANGED <<call, answer, received, ended, parsed, items>> PROVE IInv'
  <2>1. Body'
    BY <1>1, <1>3, BodyKept, BodySize DEF Body
  <2> QED
    BY <1>1, <1>3, <2>1, GoesOn
<1> QED
  BY <1>2, <1>3 DEF Send

LEMMA ChunkInvariant == ASSUME IInv, Chunk PROVE IInv'
<1>1. Typed /\ Body /\ pc = "body" /\ UNCHANGED <<call, answer, pc, ended, parsed, items>>
  BY DEF IInv, Chunk
<1>2. received' \in 0..body_size /\ received' >= received
  BY <1>1, BodySize DEF Chunk, Body
<1>3. Body'
  BY <1>1, <1>2, BodyKept
<1> QED
  BY <1>1, <1>3, GoesOn

LEMMA BodyEndsInvariant == ASSUME IInv, BodyEnds PROVE IInv'
<1>1. Typed /\ Body /\ pc = "body" /\ ~ended /\ ended' /\ UNCHANGED <<call, answer, pc, parsed, items>>
  BY DEF IInv, BodyEnds
<1>2. received' \in 0..body_size
  BY <1>1, BodySize DEF BodyEnds, Body
<1>3. received' >= received \/ popped = 0
  <2>1. answer.text => popped = 0
    BY <1>1 DEF Body, collects
  <2> QED
    BY <1>1, <2>1, BodySize DEF BodyEnds, Body
<1>4. Body'
  BY <1>1, <1>2, <1>3, BodyKept
<1> QED
  BY <1>1, <1>4, GoesOn

LEMMA BodyBreaksInvariant == ASSUME IInv, BodyBreaks PROVE IInv'
<1>1. Typed /\ ~ended /\ Fail
  BY DEF IInv, BodyBreaks
<1>2. pc' = "done" /\ UNCHANGED <<call, answer>>
  BY <1>1 DEF Fail, Finish
<1> QED
  BY <1>1, <1>2, Failed, Ends

-----------------------------------------------------------------------------
(* A frame                                                                 *)

\* A frame taken adds its message, if it has one that can be read.
LEMMA FrameRead ==
    ASSUME Typed, answer.framed, NEW f \in Frame, buffered >= FrameSize(f),
           IF call.protocol = "grpc_web" THEN WebFrame(f) ELSE ConnectFrame(f)
    PROVE  messages' = IF IsData(f) /\ Readable(f) THEN Append(messages, f.name) ELSE messages
<1>1. /\ call.protocol \in {"grpc_web", "connect"} /\ f.size \in Nat /\ encoding \in {"json", "proto"}
  BY AnswerTypes DEF Call, encoding
<1>2. \A es : Read(f, es) = IF f.reads \cap es # {} THEN Append(messages, f.name) ELSE messages
  BY DEF Read
<1>3. CASE call.protocol = "grpc_web"
  <2>1. IsData(f) <=> ~f.last
    BY <1>3 DEF IsData
  <2>2. Readable(f) <=> f.reads \cap {encoding} # {}
    BY <1>3 DEF Readable
  <2>3. WebFrame(f)
    BY <1>3
  <2>4. CASE f.last
    BY <2>1, <2>3, <2>4 DEF WebFrame
  <2>5. CASE ~f.last
    BY <1>2, <2>1, <2>2, <2>3, <2>5 DEF WebFrame
  <2> QED
    BY <2>4, <2>5
<1>4. CASE call.protocol = "connect"
  <2>1. IsData(f) <=> ~f.last \/ (f.size > 0 /\ "json" \notin f.reads)
    BY <1>4 DEF IsData
  <2>2. Readable(f) <=> f.reads \cap {encoding, "json"} # {}
    BY <1>4 DEF Readable
  <2>3. ConnectFrame(f)
    BY <1>4
  <2>4. CASE f.last /\ f.size = 0
    BY <1>1, <2>1, <2>3, <2>4 DEF ConnectFrame
  <2>5. CASE f.last /\ f.size > 0 /\ "json" \in f.reads
    BY <1>1, <2>1, <2>3, <2>5 DEF ConnectFrame
  <2>6. CASE f.last /\ f.size > 0 /\ "json" \notin f.reads
    <3>1. messages' = Read(f, {encoding})
      <4>1. ~(f.size = 0) /\ f.last /\ "json" \notin f.reads
        BY <1>1, <2>6
      <4> QED
        BY <2>3, <4>1, Zenon DEF ConnectFrame
    <3>2. Readable(f) <=> f.reads \cap {encoding} # {}
      BY <2>2, <2>6
    <3> QED
      BY <1>2, <2>1, <2>6, <3>1, <3>2
  <2>7. CASE ~f.last
    <3>1. messages' = Read(f, {encoding, "json"})
      BY <2>3, <2>7 DEF ConnectFrame
    <3> QED
      BY <1>2, <2>1, <2>2, <2>7, <3>1
  <2> QED
    BY <1>1, <2>4, <2>5, <2>6, <2>7
<1> QED
  BY <1>1, <1>3, <1>4

LEMMA PopFrameInvariant == ASSUME IInv, PopFrame PROVE IInv'
<1> DEFINE N == Len(answer.frames)
           f == answer.frames[popped + 1]
<1>1. /\ Typed /\ Body /\ pc = "body" /\ may_pop /\ popped' = popped + 1
      /\ UNCHANGED <<call, answer, pc, received, ended, items>>
  BY DEF IInv, PopFrame
<1>2. N \in Nat /\ popped \in 0..N /\ \A i \in 1..N : answer.frames[i] \in Frame
  BY <1>1, AnswerTypes DEF Body
<1>3. /\ answer.http_ok /\ answer.framed /\ reads_frames /\ popped < N /\ frame_complete(f)
      /\ next_frame = {f} /\ (collects => ended)
  BY <1>1 DEF may_pop, next_frame
<1>4. IF call.protocol = "grpc_web" THEN WebFrame(f) ELSE ConnectFrame(f)
  BY <1>3 DEF PopFrame
<1>5. popped + 1 \in 1..N /\ (popped + 1) - 1 = popped /\ f \in Frame
  BY <1>2, <1>3
<1>6. FrameSize(f) = HeadSize + f.size /\ f.size \in Nat /\ HeadSize \in Nat
  BY <1>1, <1>3, <1>5, AnswerTypes DEF FrameSize
<1>7. Offset[popped + 1] <= received
  <2>1. Offset[popped + 1] = Offset[popped] + FrameSize(f)
    BY <1>1, <1>5, OffsetStep
  <2>2. Offset[popped] \in Nat /\ received \in Nat
    BY <1>1, <1>2, OffsetType, BodySize DEF Body
  <2>3. received - Offset[popped] >= HeadSize + f.size
    BY <1>3 DEF frame_complete, buffered
  <2> QED
    BY <1>6, <2>1, <2>2, <2>3
<1>8. messages' = Names(Legible[popped + 1])
  <2>1. messages' = IF IsData(f) /\ Readable(f) THEN Append(messages, f.name) ELSE messages
    <3>1. buffered >= FrameSize(f)
      BY <1>3, <1>6 DEF frame_complete
    <3> QED
      BY <1>1, <1>3, <1>4, <1>5, <3>1, FrameRead
  <2>2. Legible[popped + 1] = IF IsData(f) /\ Readable(f) THEN Append(Legible[popped], f) ELSE Legible[popped]
    BY <1>1, <1>5, LegibleStep
  <2>3. messages = Names(Legible[popped]) /\ Legible[popped] \in Seq(Frame)
    BY <1>1, <1>2, LegibleType DEF Body
  <2>4. Names(Append(Legible[popped], f)) = Append(Names(Legible[popped]), f.name)
    BY <1>5, <2>3, NamesOf
  <2> QED
    BY <2>1, <2>2, <2>3, <2>4
<1>9. ~f.last => UNCHANGED <<trailers, error>>
  BY <1>4 DEF WebFrame, ConnectFrame
<1>10. (\A i \in 1..(popped + 1) : ~answer.frames[i].last) => trailers' = NoTrailers /\ error' = {}
  <2> SUFFICES ASSUME \A i \in 1..(popped + 1) : ~answer.frames[i].last
               PROVE  trailers' = NoTrailers /\ error' = {}
    OBVIOUS
  <2>1. ~f.last /\ \A i \in 1..popped : ~answer.frames[i].last
    BY <1>2
  <2> QED
    BY <1>1, <1>9, <2>1 DEF Body, NoEnd
<1>11. ASSUME Stream, popped + 1 = N
       PROVE  IF call.protocol = "grpc_web"
              THEN /\ trailers' = [any |-> TRUE, status |-> f.status]
                   /\ error' = {Error(code, f.details) : code \in NotOK(f.status)}
              ELSE IF f.size = 0
              THEN error' = {Error(code, FALSE) : code \in NotOK(answer.header_status)}
              ELSE error' = {Error(code, f.details) : code \in f.status}
  <2>1. f = Last(answer.frames) /\ f.last
    BY <1>1, <1>2, <1>5, <1>11, AnswerTypes DEF Stream, Last
  <2>2. trailers = NoTrailers /\ error = {}
    <3>1. \A i \in 1..popped : ~answer.frames[i].last
      BY <1>1, <1>2, <1>11, AnswerTypes DEF Stream
    <3> QED
      BY <1>1, <3>1 DEF Body, NoEnd
  <2>3. CASE call.protocol = "grpc_web"
    <3>1. f.status # {} /\ WebFrame(f)
      BY <1>4, <1>11, <2>1, <2>3 DEF Stream
    <3>2. trailers' = [any |-> TRUE, status |-> f.status]
      BY <2>1, <2>2, <3>1 DEF WebFrame, NoTrailers
    <3>3. error' = IF NotOK(f.status) = {} THEN {} ELSE {Error(code, f.details) : code \in NotOK(f.status)}
      BY <2>1, <2>2, <3>1 DEF WebFrame
    <3> QED
      BY <2>3, <3>2, <3>3
  <2>4. CASE call.protocol # "grpc_web" /\ f.size = 0
    <3>1. error' = IF NotOK(answer.header_status) = {} THEN {}
                   ELSE {Error(code, FALSE) : code \in NotOK(answer.header_status)}
      <4>1. f.last /\ f.size = 0 /\ ~(f.size > 0) /\ ConnectFrame(f)
        BY <1>4, <1>6, <2>1, <2>4
      <4>2. error' = IF NotOK(answer.header_status) = {} THEN error
                     ELSE {Error(code, FALSE) : code \in NotOK(answer.header_status)}
        BY <4>1, Zenon DEF ConnectFrame
      <4> QED
        BY <2>2, <4>2
    <3> QED
      BY <2>4, <3>1
  <2>5. CASE call.protocol # "grpc_web" /\ f.size # 0
    <3>1. "json" \in f.reads
      BY <1>11, <2>1, <2>5 DEF Stream
    <3>2. error' = IF f.status = {} THEN {} ELSE {Error(code, f.details) : code \in f.status}
      BY <1>4, <1>6, <2>1, <2>2, <2>5, <3>1 DEF ConnectFrame
    <3> QED
      BY <2>5, <3>2
  <2> QED
    BY <2>3, <2>4, <2>5
<1>12. Body'
  <2>1. /\ Offset' = Offset /\ Legible' = Legible /\ body_size' = body_size /\ Stream' = Stream
        /\ collects' = collects /\ reads_frames' = reads_frames
    BY <1>1, Same
  <2>2. NoEnd'
    BY <1>1, <1>10 DEF NoEnd
  <2>3. EndRead'
    <3> SUFFICES ASSUME Stream, popped + 1 = N PROVE EndRead'
      BY <1>1, <2>1 DEF EndRead
    <3>1. f = Last(answer.frames)
      BY <1>1, <1>2, AnswerTypes DEF Last
    <3> HIDE DEF f
    <3> QED
      BY <1>1, <1>11, <3>1 DEF EndRead
  <2>4. messages' = (Names(Legible[popped]))'
    BY <1>1, <1>8, <2>1 DEF Names
  <2>5. popped' \in 0..N /\ received' = received /\ received \in 0..body_size
    BY <1>1, <1>2, <1>5 DEF Body
  <2>6. answer.http_ok' /\ answer.framed' /\ (collects => ended')
    BY <1>1, <1>3
  <2> QED
    BY <1>1, <1>3, <1>7, <2>1, <2>2, <2>3, <2>4, <2>5, <2>6 DEF Body
<1> QED
  BY <1>1, <1>12, GoesOn

-----------------------------------------------------------------------------
(* The answer                                                              *)

\* What was read so far: in the order sent, whatever comes after.
LEMMA SoFar ==
    ASSUME Typed, Body
    PROVE  /\ messages \in Seq(STRING \cup {Torn})
           /\ Torn \notin ToSet(messages) /\ IsPrefix(messages, Names(legible))
<1>1. messages = Names(Legible[popped]) /\ popped \in 0..Len(answer.frames)
  BY DEF Body
<1>2. /\ messages \in Seq(STRING)
      /\ Torn \notin ToSet(messages) /\ IsPrefix(messages, Names(legible))
  BY <1>1, LegiblePrefix
<1>3. STRING \subseteq STRING \cup {Torn}
  OBVIOUS
<1> QED
  BY <1>2, <1>3, WiderSeq

\* A body that came whole and was read as frames has been read to its end.
LEMMA WholeRead ==
    ASSUME Typed, Body, AllRead, answer.http_ok, answer.framed, reads_frames, whole
    PROVE  /\ popped = Len(answer.frames) /\ buffered = 0
           /\ messages = Names(legible)
<1> DEFINE N == Len(answer.frames)
           f == answer.frames[popped + 1]
<1>1. /\ N \in Nat /\ popped \in 0..N /\ received = Offset[N] /\ Offset[N] \in Nat
      /\ Offset[popped] \in Nat
  <2>1. N \in Nat /\ popped \in 0..N /\ N \in 0..N
    BY AnswerTypes DEF Body
  <2> QED
    BY <2>1, BodySize, OffsetType DEF whole
<1>2. ASSUME popped # N PROVE FALSE
  <2>1. popped + 1 \in 1..N /\ popped + 1 \in 0..N /\ N \in (popped + 1)..N /\ (popped + 1) - 1 = popped
    BY <1>1, <1>2
  <2>2. f \in Frame /\ f.size \in Nat /\ HeadSize \in Nat /\ FrameSize(f) = HeadSize + f.size
    BY <2>1, AnswerTypes DEF FrameSize
  <2>3. Offset[popped + 1] = Offset[popped] + FrameSize(f) /\ Offset[popped + 1] <= Offset[N]
    BY <2>1, OffsetStep, OffsetGrows
  <2>4. buffered >= HeadSize + f.size /\ buffered >= HeadSize
    <3>1. PICK x, y, z, h : x = Offset[popped] /\ y = Offset[N] /\ z = f.size /\ h = HeadSize
      OBVIOUS
    <3>2. x \in Nat /\ y \in Nat /\ z \in Nat /\ h \in Nat /\ x + (h + z) <= y
      BY <1>1, <2>2, <2>3, <3>1
    <3>3. buffered = y - x
      BY <1>1, <3>1 DEF buffered
    <3>4. y - x >= h + z /\ y - x >= h
      BY <3>2
    <3> QED
      BY <3>1, <3>3, <3>4
  <2>5. next_frame = {f}
    BY <1>1, <2>1, <2>4 DEF next_frame, frame_complete
  <2> QED
    BY <2>5 DEF AllRead, may_pop
<1>3. popped = N
  BY <1>2
<1>4. buffered = 0
  BY <1>1, <1>3 DEF buffered
<1> QED
  BY <1>3, <1>4 DEF Body, legible

\* The protocol and the mode of a call leave it one way to go.
LEMMA Paths ==
    ASSUME Typed
    PROVE  /\ path \in {"multi", "web", "unary", "stream"}
           /\ path = "web" => call.protocol = "grpc_web"
           /\ path \in {"unary", "stream"} => call.protocol = "connect"
           /\ encoding \in {"json", "proto"}
           /\ path = "multi" => encoding = "json"
           /\ path \in {"multi", "web", "stream"} /\ answer.http_ok => reads_frames
           /\ path = "unary" /\ answer.http_ok => (reads_frames <=> encoding = "json")
<1>1. call.protocol \in {"connect", "grpc_web"}
  BY AnswerTypes DEF Call
<1>2. path \in {"multi", "web", "unary", "stream"}
  BY DEF path
<1>3. path = "web" => call.protocol = "grpc_web"
  BY DEF path
<1>4. path \in {"unary", "stream"} => call.protocol = "connect"
  BY <1>1 DEF path
<1>5. encoding \in {"json", "proto"} /\ (path = "multi" => encoding = "json")
  BY DEF encoding
<1> QED
  BY <1>2, <1>3, <1>4, <1>5 DEF reads_frames

\* The message of an unframed body.
LEMMA RawMessage ==
    ASSUME Typed, answer.http_ok, ~answer.framed
    PROVE  /\ Names(legible) = IF encoding \in raw.reads THEN <<raw.name>> ELSE <<>>
           /\ raw.name \in STRING /\ raw.name # Torn /\ raw \in Frame
           /\ ends = {} /\ said = NotOK(answer.header_status)
<1>1. Len(answer.frames) = 1 /\ ~raw.last /\ raw = answer.frames[1] /\ raw \in Frame
  BY AnswerTypes, AnswerAssumption DEF raw
<1>2. raw.name \in STRING /\ raw.name # Torn
  BY <1>1, AnswerTypes, AnswerAssumption
<1>3. Readable(raw) <=> encoding \in raw.reads
  BY DEF Readable
<1>4. legible = IF encoding \in raw.reads THEN <<raw>> ELSE <<>>
  <2>1. Legible[0] = <<>> /\ Legible[1] = IF IsData(raw) /\ Readable(raw) THEN Append(Legible[1 - 1], raw) ELSE Legible[1 - 1]
    BY <1>1, LegibleStep
  <2>2. IsData(raw)
    BY <1>1 DEF IsData
  <2>3. Append(<<>>, raw) = <<raw>> /\ 1 - 1 = 0
    OBVIOUS
  <2>4. legible = Legible[1]
    BY <1>1 DEF legible
  <2>5. Legible[1] = IF encoding \in raw.reads THEN Append(Legible[0], raw) ELSE Legible[0]
    BY <1>3, <2>1, <2>2, <2>3
  <2> QED
    BY <2>1, <2>3, <2>4, <2>5
<1>5. Names(<<raw>>) = <<raw.name>> /\ Names(<<>>) = <<>>
  BY DEF Names
<1>6. ends = {}
  BY <1>1, AnswerTypes DEF ends, ToSet
<1>7. said = NotOK(answer.header_status)
  BY <1>6 DEF said
<1> QED
  BY <1>1, <1>2, <1>4, <1>5, <1>6, <1>7

\* What an unframed body is read as is its message, or it was no unframed body that came
\* whole.
LEMMA UnframedRight ==
    ASSUME Typed, answer.http_ok, NEW m \in Unframed
    PROVE  /\ m \in Seq(STRING \cup {Torn})
           /\ m = <<>> \/ m = <<Torn>> \/ (~answer.framed /\ whole /\ m = <<raw.name>> /\ encoding \in raw.reads)
           /\ ~answer.framed /\ whole => m = Names(legible)
           /\ m = <<Torn>> => encoding = "proto" /\ ~(~answer.framed /\ whole)
           /\ m # <<>> /\ answer.framed => received = 0
<1>1. CASE ~answer.framed /\ whole
  <2>1. m = IF encoding \in raw.reads THEN <<raw.name>> ELSE <<>>
    BY <1>1 DEF Unframed
  <2>2. raw.name \in STRING /\ raw.name # Torn /\ m = Names(legible)
    BY <1>1, <2>1, RawMessage
  <2>3. <<raw.name>> # <<Torn>> /\ <<>> # <<Torn>>
    BY <2>2
  <2>4. m \in Seq(STRING \cup {Torn})
    <3>1. m = <<>> \/ m = <<raw.name>>
      BY <2>1
    <3>2. \A S : \A x \in S : <<x>> \in Seq(S)
      OBVIOUS
    <3>3. raw.name \in STRING \cup {Torn} /\ <<>> \in Seq(STRING \cup {Torn})
      BY <2>2
    <3>4. <<raw.name>> \in Seq(STRING \cup {Torn})
      BY <3>2, <3>3
    <3> QED
      BY <3>1, <3>3, <3>4
  <2>5. m # <<Torn>> /\ (m # <<>> => m = <<raw.name>> /\ encoding \in raw.reads)
    BY <2>1, <2>3
  <2> QED
    BY <1>1, <2>2, <2>4, <2>5
<1>2. CASE ~(~answer.framed /\ whole)
  <2>1. m = <<>> \/ (m = <<Torn>> /\ encoding # "json" /\ (received = 0 \/ ~answer.framed))
    BY <1>2 DEF Unframed
  <2>2. <<>> \in Seq(STRING \cup {Torn}) /\ <<Torn>> \in Seq(STRING \cup {Torn})
    OBVIOUS
  <2>3. m \in Seq(STRING \cup {Torn})
    BY <2>1, <2>2
  <2>4. encoding # "json" => encoding = "proto"
    BY Paths
  <2>5. m # <<>> => m = <<Torn>> /\ encoding = "proto" /\ (answer.framed => received = 0)
    BY <2>1, <2>4
  <2>6. <<Torn>> # <<>>
    OBVIOUS
  <2> QED
    BY <1>2, <2>3, <2>5, <2>6
<1> QED
  BY <1>1, <1>2

\* The errors made of a status have its codes.
LEMMA CodesOf ==
    ASSUME NEW S, NEW d
    PROVE  Codes({Error(code, d) : code \in S}) = S
<1> DEFINE e == {Error(code, d) : code \in S}
<1>1. \A code : Error(code, d).code = code
  BY DEF Error
<1>2. ASSUME NEW c \in S PROVE c \in Codes(e)
  <2>1. Error(c, d) \in e /\ Error(c, d).code = c
    BY <1>1, <1>2
  <2> QED
    BY <2>1 DEF Codes
<1>3. ASSUME NEW c \in Codes(e) PROVE c \in S
  <2>1. PICK x \in e : c = x.code
    BY DEF Codes
  <2>2. PICK code \in S : x = Error(code, d)
    BY <2>1
  <2> QED
    BY <1>1, <2>1, <2>2
<1> QED
  BY <1>2, <1>3

LEMMA HttpErrorInvariant == ASSUME IInv, HttpError PROVE IInv'
<1>1. Typed /\ ended /\ path # "multi" /\ ~answer.http_ok
  BY DEF IInv, HttpError, AllRead
<1>2. CASE path # "web" /\ answer.error_body # {} /\ whole
  <2> DEFINE e == {Error(code, FALSE) : code \in answer.error_body}
  <2>1. Finish(<<>>, NoTrailers, e)
    BY <1>2 DEF HttpError
  <2>2. Good(<<>>, e)
    BY <1>1 DEF Good
  <2>3. Codes(e) = answer.error_body
    BY CodesOf
  <2>4. Told(e)
    BY <1>1, <1>2, <2>3 DEF Told, said, SaidInFull
  <2>5. <<>> \in Seq(STRING \cup {Torn})
    OBVIOUS
  <2> HIDE DEF e
  <2>6. DeliveredAsSent' /\ StatusSurvives'
    BY <1>1, <2>1, <2>2, <2>4, <2>5, Finished
  <2> QED
    BY <2>1, <2>6, Ends DEF Finish
<1>3. CASE ~(path # "web" /\ answer.error_body # {} /\ whole)
  <2>1. Fail
    BY <1>3 DEF HttpError
  <2>2. Codes({Error(Unknown, FALSE)}) = {Unknown}
    BY DEF Codes, Error
  <2>3. Told({Error(Unknown, FALSE)})
    BY <1>1, <1>3, <2>2 DEF Told, said, SaidInFull
  <2> QED
    BY <1>1, <2>1, <2>3, Failed, Ends DEF Fail, Finish
<1> QED
  BY <1>2, <1>3

\* The end of a whole stream is the error, and the status of no other frame counts.
LEMMA StreamStatus ==
    ASSUME Typed, Body, AllRead, answer.http_ok, reads_frames, whole, Stream
    PROVE  LET f == Last(answer.frames)
           IN  /\ f \in Frame /\ f \in ToSet(answer.frames)
               /\ call.protocol = "grpc_web" =>
                    /\ trailers = [any |-> TRUE, status |-> f.status]
                    /\ error = {Error(code, f.details) : code \in NotOK(f.status)}
                    /\ ends = {f} /\ said = NotOK(f.status) /\ f.status # {}
               /\ call.protocol = "connect" => Codes(error) = said
<1> DEFINE N == Len(answer.frames)
           f == Last(answer.frames)
<1>1. popped = N /\ N \in Nat \ {0} /\ N \in 1..N /\ DOMAIN answer.frames = 1..N
  BY WholeRead, AnswerTypes DEF Stream
<1>2. f = answer.frames[N] /\ f \in Frame /\ f.last /\ f \in ToSet(answer.frames)
  BY <1>1, AnswerTypes DEF Last, Stream, ToSet
<1>3. ends = IF f.status = {} THEN {} ELSE {f}
  <2>1. \A g \in ToSet(answer.frames) : g.last => g = f
    BY <1>1, <1>2 DEF Stream, ToSet
  <2> QED
    BY <1>2, <2>1 DEF ends
<1>4. UNION {g.status : g \in {f}} = f.status
  OBVIOUS
<1>5. said = NotOK(IF f.status # {} THEN f.status ELSE answer.header_status)
  <2>1. CASE f.status = {}
    BY <1>3, <2>1 DEF said
  <2>2. CASE f.status # {}
    BY <1>3, <1>4, <2>2 DEF said
  <2> QED
    BY <2>1, <2>2
<1>6. \A S, d : Codes({Error(code, d) : code \in S}) = S
  BY CodesOf
<1>7. EndRead
  BY DEF Body
<1>8. ASSUME call.protocol = "grpc_web"
      PROVE  /\ trailers = [any |-> TRUE, status |-> f.status]
             /\ error = {Error(code, f.details) : code \in NotOK(f.status)}
             /\ ends = {f} /\ said = NotOK(f.status) /\ f.status # {}
  <2>1. f.status # {}
    BY <1>8 DEF Stream
  <2> QED
    BY <1>1, <1>3, <1>5, <1>7, <1>8, <2>1 DEF EndRead
<1>9. ASSUME call.protocol = "connect"
      PROVE  Codes(error) = said
  <2>1. CASE f.size = 0
    <3>1. f.status = {}
      BY <1>1, <1>2, <2>1, AnswerAssumption
    <3>2. error = {Error(code, FALSE) : code \in NotOK(answer.header_status)}
      BY <1>1, <1>7, <1>9, <2>1 DEF EndRead
    <3> QED
      BY <1>5, <1>6, <3>1, <3>2
  <2>2. CASE f.size # 0
    <3>1. error = {Error(code, f.details) : code \in f.status}
      BY <1>1, <1>7, <1>9, <2>2 DEF EndRead
    <3>2. OK \notin f.status /\ answer.header_status = {}
      BY <1>9, <2>2 DEF Stream
    <3>3. NotOK(f.status) = f.status /\ NotOK({}) = {}
      BY <3>2 DEF NotOK
    <3>4. said = f.status
      BY <1>5, <3>2, <3>3
    <3> QED
      BY <1>6, <3>1, <3>4
  <2> QED
    BY <2>1, <2>2
<1> QED
  BY <1>2, <1>8, <1>9

LEMMA StreamAnswerInvariant == ASSUME IInv, StreamAnswer PROVE IInv'
<1>1. /\ Typed /\ Body /\ ended /\ AllRead /\ path = "stream" /\ answer.http_ok /\ reads_frames
      /\ call.protocol = "connect"
  BY Paths DEF IInv, StreamAnswer, AllRead
<1>2. PICK m \in connect_unframed_fallback : Finish(m, trailers, error)
  BY DEF StreamAnswer
<1>3. whole /\ AsAsked => Stream /\ answer.framed /\ popped = Len(answer.frames) /\ buffered = 0 /\ messages = Names(legible)
  BY <1>1, WholeRead DEF AsAsked, Stream
<1>4. m = messages \/ (m = <<Torn>> /\ ~(whole /\ AsAsked)) \/ (m = <<>> /\ ~(whole /\ AsAsked))
  <2>1. HeadSize \in Nat \ {0}
    BY <1>1, AnswerTypes
  <2>2. buffered >= HeadSize => ~(whole /\ AsAsked)
    BY <1>3, <2>1
  <2> QED
    BY <2>2 DEF connect_unframed_fallback
<1>5. m \in Seq(STRING \cup {Torn})
  <2>1. <<>> \in Seq(STRING \cup {Torn}) /\ <<Torn>> \in Seq(STRING \cup {Torn})
    OBVIOUS
  <2> QED
    BY <1>1, <1>4, <2>1, SoFar
<1>6. Good(m, error)
  <2>1. Names(legible) \in Seq(STRING) /\ IsPrefix(<<>>, Names(legible)) /\ Torn \notin ToSet(<<>>)
    BY <1>1, EmptyPrefix
  <2> QED
    BY <1>1, <1>3, <1>4, <2>1, SoFar DEF Good
<1>7. Told(error)
  <2> SUFFICES ASSUME whole, AsAsked PROVE Codes(error) = said
    BY <1>1 DEF Told, SaidInFull
  <2> QED
    BY <1>1, <1>3, StreamStatus
<1>8. DeliveredAsSent' /\ StatusSurvives'
  BY <1>1, <1>2, <1>5, <1>6, <1>7, Finished
<1> QED
  BY <1>2, <1>8, Ends DEF Finish

\* Without its error a test gets the messages as they were.
LEMMA EnrichKeeps ==
    ASSUME NEW m \in Seq(STRING \cup {Torn}), NEW e
    PROVE  /\ enrich(m, e).messages \in Seq(STRING \cup {Torn})
           /\ enrich(m, e).error = {} => enrich(m, e).messages = m /\ e = {}
<1> DEFINE T == STRING \cup {Torn}
           like == looks_like_status(Last(m))
           S == UNION {f.status : f \in like}
<1>1. CASE \E x \in e : ~x.details /\ m # <<>> /\ like # {}
  <2>1. enrich(m, e) = [messages |-> Front(m), error |-> {Error(code, TRUE) : code \in S}]
    BY <1>1 DEF enrich
  <2>2. \A U : \A t \in Seq(U) : t # <<>> => Front(t) \in Seq(U)
    BY DEF Front
  <2>3. Front(m) \in Seq(T)
    BY <1>1, <2>2
  <2>4. S # {}
    <3>1. PICK f \in like : TRUE
      BY <1>1
    <3>2. f.status # {}
      BY <3>1 DEF looks_like_status
    <3> QED
      BY <3>1, <3>2
  <2>5. {Error(code, TRUE) : code \in S} # {}
    BY <2>4
  <2> DEFINE told == {Error(code, TRUE) : code \in S}
  <2>6. enrich(m, e) = [messages |-> Front(m), error |-> told]
    BY <2>1
  <2>7. told # {}
    BY <2>5
  <2> HIDE DEF told
  <2>8. enrich(m, e).messages = Front(m) /\ enrich(m, e).error = told
    BY <2>6
  <2> QED
    BY <2>3, <2>7, <2>8
<1>2. CASE ~\E x \in e : ~x.details /\ m # <<>> /\ like # {}
  <2>1. enrich(m, e) = [messages |-> m, error |-> e]
    BY <1>2 DEF enrich
  <2> QED
    BY <2>1
<1> QED
  BY <1>1, <1>2

\* The last message that can be read looks like a status exactly if it is one: messages of
\* one name have the same bytes.
LEMMA LastLegible ==
    ASSUME Typed, call.protocol = "grpc_web", legible # <<>>
    PROVE  LET like == looks_like_status(Last(legible).name)
           IN  /\ Names(legible) # <<>> /\ Last(Names(legible)) = Last(legible).name
               /\ like # {} <=> Last(legible).status # {}
               /\ like # {} => UNION {f.status : f \in like} = Last(legible).status
<1> DEFINE N == Len(answer.frames)
           L == Len(legible)
           f == Last(legible)
           like == looks_like_status(f.name)
<1>1. legible \in Seq(Frame) /\ \A i \in 1..L : IsLegible(legible[i])
  <2>1. N \in 0..N
    BY AnswerTypes
  <2> QED
    BY <2>1, LegibleType DEF legible
<1>2. L \in 1..L /\ f = legible[L] /\ f \in Frame
  BY <1>1 DEF Last
<1>3. PICK i \in 1..N : f = answer.frames[i] /\ IsData(f)
  BY <1>1, <1>2 DEF IsLegible
<1>4. ~f.last
  BY <1>3 DEF IsData
<1>5. f \in ToSet(answer.frames)
  BY <1>3, AnswerTypes DEF ToSet
<1>6. \A g \in like : g.status = f.status
  <2>1. TAKE g \in like
  <2>2. PICK j \in 1..N : g = answer.frames[j]
    BY AnswerTypes DEF looks_like_status, ToSet
  <2>3. ~g.last /\ g.name = f.name
    BY DEF looks_like_status
  <2> QED
    BY <1>3, <1>4, <2>2, <2>3, AnswerAssumption
<1>7. \A g \in like : g.status # {}
  BY DEF looks_like_status
<1>8. f.status # {} => f \in like
  BY <1>4, <1>5 DEF looks_like_status
<1>9. Names(legible) # <<>> /\ Last(Names(legible)) = f.name
  <2>1. Names(legible) \in Seq(STRING) /\ Len(Names(legible)) = L /\ Names(legible)[L] = f.name
    BY <1>1, <1>2, NamesOf
  <2> QED
    BY <1>2, <2>1 DEF Last
<1> HIDE DEF like, f, L
<1>10. like # {} => UNION {g.status : g \in like} = f.status
  BY <1>6
<1>11. like # {} <=> f.status # {}
  BY <1>6, <1>7, <1>8
<1> QED
  BY <1>9, <1>10, <1>11 DEF like, f

LEMMA MultiAnswerInvariant == ASSUME IInv, MultiAnswer PROVE IInv'
<1> DEFINE rich == IF call.protocol = "grpc_web" THEN enrich(messages, error)
                   ELSE [messages |-> messages, error |-> error]
<1>1. Typed /\ Body /\ ended /\ AllRead /\ path = "multi"
  BY DEF IInv, MultiAnswer, AllRead
<1>2. Finish(rich.messages, trailers, rich.error)
  BY DEF MultiAnswer
<1>3. /\ messages \in Seq(STRING \cup {Torn})
      /\ Torn \notin ToSet(messages) /\ IsPrefix(messages, Names(legible))
  BY <1>1, SoFar
<1>4. rich.messages \in Seq(STRING \cup {Torn}) /\ (rich.error = {} => rich.messages = messages)
  <2>1. CASE call.protocol = "grpc_web"
    <3>1. rich = enrich(messages, error)
      BY <2>1
    <3> QED
      BY <1>3, <3>1, EnrichKeeps
  <2>2. CASE call.protocol # "grpc_web"
    <3>1. rich = [messages |-> messages, error |-> error]
      BY <2>2
    <3> QED
      BY <1>3, <3>1
  <2> QED
    BY <2>1, <2>2
<1> HIDE DEF rich
<1>5. answer.http_ok /\ whole /\ AsAsked => messages = Names(legible)
  <2> SUFFICES ASSUME answer.http_ok, whole, AsAsked PROVE messages = Names(legible)
    OBVIOUS
  <2>1. Stream /\ answer.framed
    BY <1>1 DEF AsAsked, Stream
  <2> QED
    BY <1>1, <2>1, WholeRead, Paths
<1>6. Good(rich.messages, rich.error)
  BY <1>3, <1>4, <1>5 DEF Good
<1>7. Told(rich.error)
  BY <1>1 DEF Told
<1>8. DeliveredAsSent' /\ StatusSurvives'
  BY <1>1, <1>2, <1>4, <1>6, <1>7, Finished
<1> QED
  BY <1>2, <1>8, Ends DEF Finish

LEMMA UnaryAnswerInvariant == ASSUME IInv, UnaryAnswer PROVE IInv'
<1>1. Typed /\ Body /\ ended /\ AllRead /\ path = "unary" /\ answer.http_ok
  BY DEF IInv, UnaryAnswer, AllRead
<1>2. PICK m \in Unframed :
        \/ /\ m # <<>>
           /\ Finish(m, NoTrailers, {Error(code, FALSE) : code \in NotOK(answer.header_status)})
        \/ m = <<>> /\ (messages # <<>> \/ error # {}) /\ Finish(messages, trailers, error)
        \/ m = <<>> /\ messages = <<>> /\ error = {} /\ Fail
  BY DEF UnaryAnswer
<1>3. /\ m \in Seq(STRING \cup {Torn})
      /\ m = <<>> \/ m = <<Torn>> \/ (~answer.framed /\ whole)
      /\ ~answer.framed /\ whole => m = Names(legible)
      /\ m = <<Torn>> => encoding = "proto" /\ ~(~answer.framed /\ whole)
  BY <1>1, UnframedRight
\* An answer in the form asked for is its message or, in JSON, a stream.
<1>4. ASSUME whole, AsAsked
      PROVE  \/ ~answer.framed /\ m = Names(legible) /\ m # <<>> /\ said = NotOK(answer.header_status)
             \/ /\ answer.framed /\ encoding = "json" /\ Stream /\ reads_frames
                /\ messages = Names(legible) /\ messages # <<>>
  <2>1. CASE ~answer.framed /\ encoding \in raw.reads
    <3>1. Names(legible) = <<raw.name>> /\ said = NotOK(answer.header_status)
      BY <1>1, <2>1, RawMessage
    <3> QED
      BY <1>3, <1>4, <2>1, <3>1
  <2>2. CASE encoding = "json" /\ Stream /\ legible # <<>>
    <3>1. answer.framed /\ reads_frames
      BY <1>1, <2>2, Paths DEF Stream
    <3>2. messages = Names(legible)
      BY <1>1, <1>4, <3>1, WholeRead
    <3>3. Names(legible) # <<>>
      <4>1. legible \in Seq(Frame)
        BY <1>1, LegibleType, AnswerTypes DEF legible
      <4> QED
        BY <2>2, <4>1, NamesOf
    <3> QED
      BY <2>2, <3>1, <3>2, <3>3
  <2> QED
    BY <1>1, <1>4, <2>1, <2>2 DEF AsAsked
<1>5. CASE /\ m # <<>>
           /\ Finish(m, NoTrailers, {Error(code, FALSE) : code \in NotOK(answer.header_status)})
  <2> DEFINE e == {Error(code, FALSE) : code \in NotOK(answer.header_status)}
  <2>1. Good(m, e)
    <3>1. CASE ~answer.framed /\ whole
      <4>1. m = Names(legible) /\ m # <<Torn>>
        BY <1>3, <3>1
      <4>2. /\ Names(legible) = IF encoding \in raw.reads THEN <<raw.name>> ELSE <<>>
            /\ raw.name # Torn
        BY <1>1, <3>1, RawMessage
      <4>3. m = <<raw.name>>
        BY <1>5, <4>1, <4>2
      <4>4. Torn \notin ToSet(m)
        BY <4>2, <4>3 DEF ToSet
      <4>5. IsPrefix(m, Names(legible))
        <5>1. m \in Seq(STRING \cup {Torn}) /\ Len(m) <= Len(m)
          BY <1>3
        <5>2. IsPrefix(m, m)
          BY <5>1, PrefixOf
        <5> QED
          BY <4>1, <5>2
      <4> QED
        BY <4>1, <4>4, <4>5 DEF Good
    <3>2. CASE ~(~answer.framed /\ whole)
      <4>1. m = <<Torn>> /\ encoding = "proto"
        BY <1>3, <1>5, <3>2
      <4>2. ~(whole /\ AsAsked)
        BY <1>4, <3>2, <4>1
      <4> QED
        BY <4>1, <4>2 DEF Good
    <3> QED
      BY <3>1, <3>2
  <2>2. Told(e)
    <3> SUFFICES ASSUME whole, AsAsked PROVE Codes(e) = said
      BY <1>1 DEF Told, SaidInFull
    <3>1. m = <<Torn>> \/ ~answer.framed
      BY <1>3, <1>5
    <3>2. said = NotOK(answer.header_status)
      BY <1>3, <1>4, <3>1
    <3> QED
      BY <3>2, CodesOf
  <2> HIDE DEF e
  <2>3. Finish(m, NoTrailers, e)
    BY <1>5 DEF e
  <2>4. DeliveredAsSent' /\ StatusSurvives'
    BY <1>1, <1>3, <2>1, <2>2, <2>3, Finished
  <2> QED
    BY <2>3, <2>4, Ends DEF Finish
<1>6. CASE m = <<>> /\ (messages # <<>> \/ error # {}) /\ Finish(messages, trailers, error)
  <2>1. /\ messages \in Seq(STRING \cup {Torn})
        /\ Torn \notin ToSet(messages) /\ IsPrefix(messages, Names(legible))
    BY <1>1, SoFar
  <2>2. Good(messages, error)
    BY <1>4, <1>6, <2>1 DEF Good
  <2>3. Told(error)
    <3> SUFFICES ASSUME whole, AsAsked PROVE Codes(error) = said
      BY <1>1 DEF Told, SaidInFull
    <3>1. Stream /\ reads_frames
      BY <1>4, <1>6
    <3>2. call.protocol = "connect"
      BY <1>1, Paths
    <3> QED
      BY <1>1, <3>1, <3>2, StreamStatus
  <2>4. DeliveredAsSent' /\ StatusSurvives'
    BY <1>1, <1>6, <2>1, <2>2, <2>3, Finished
  <2> QED
    BY <1>6, <2>4, Ends DEF Finish
<1>7. CASE m = <<>> /\ messages = <<>> /\ error = {} /\ Fail
  <2>1. ~(whole /\ AsAsked)
    BY <1>4, <1>7
  <2>2. Told({Error(Unknown, FALSE)})
    BY <1>1, <2>1 DEF Told
  <2> QED
    BY <1>1, <1>7, <2>2, Failed, Ends DEF Fail, Finish
<1> QED
  BY <1>2, <1>5, <1>6, <1>7

\* What a call over gRPC-Web ends with, once the headers of the response were asked.
with_headers == WithHeaderTrailers(trailers, error)
Rich(m) == IF encoding = "json" THEN enrich(m, with_headers.error)
           ELSE [messages |-> m, error |-> with_headers.error]

\* Without a status in the body it is that of the headers.
LEMMA HeaderStatus ==
    ASSUME trailers = NoTrailers, error = {}
    PROVE  /\ Codes(with_headers.error) = NotOK(answer.header_status)
           /\ with_headers.error = {Error(code, answer.header_details) : code \in NotOK(answer.header_status)}
<1> DEFINE h == answer.header_status
           e == {Error(code, answer.header_details) : code \in NotOK(h)}
<1>1. header_status_of(trailers) = h
  BY DEF header_status_of, NoTrailers
<1>2. NotOK(h) = {} => e = {}
  OBVIOUS
<1>3. h = {} => NotOK(h) = {}
  BY DEF NotOK
<1>4. with_headers.error = e
  <2>1. CASE h = {}
    <3>1. with_headers = [trailers |-> trailers, error |-> error]
      BY <1>1, <2>1 DEF with_headers, WithHeaderTrailers
    <3> QED
      BY <1>2, <1>3, <2>1, <3>1
  <2>2. CASE h # {}
    <3>1. with_headers.error = IF NotOK(h) = {} THEN error ELSE e
      BY <1>1, <2>2 DEF with_headers, WithHeaderTrailers
    <3> QED
      BY <1>2, <3>1
  <2> QED
    BY <2>1, <2>2
<1> QED
  BY <1>4, CodesOf

\* With one there it stays.
LEMMA BodyStatus ==
    ASSUME trailers.status # {}
    PROVE  with_headers.error = error
BY DEF with_headers, WithHeaderTrailers, header_status_of

\* What the answer over gRPC-Web is read as: the frames that were taken or, if none was, the
\* body itself.
LEMMA WebMessages ==
    ASSUME Typed, Body, AllRead, path = "web", answer.http_ok, NEW m \in unframed_fallback
    PROVE  /\ m \in Seq(STRING \cup {Torn})
           /\ \/ m = <<Torn>> /\ ~(whole /\ AsAsked)
              \/ Torn \notin ToSet(m) /\ IsPrefix(m, Names(legible))
           /\ whole /\ AsAsked => m = Names(legible)
<1>1. /\ messages \in Seq(STRING \cup {Torn})
      /\ Torn \notin ToSet(messages) /\ IsPrefix(messages, Names(legible))
  BY SoFar
<1>2. reads_frames
  BY Paths
<1>3. Names(legible) \in Seq(STRING)  /\ IsPrefix(<<>>, Names(legible)) /\ Torn \notin ToSet(<<>>)
  BY EmptyPrefix
<1>4. whole /\ answer.framed => messages = Names(legible)
  BY <1>2, WholeRead
<1>5. CASE /\ messages = <<>> /\ received > 0 /\ m \in Unframed
  <2>1. /\ m \in Seq(STRING \cup {Torn})
        /\ m = <<>> \/ m = <<Torn>> \/ (~answer.framed /\ whole)
        /\ ~answer.framed /\ whole => m = Names(legible)
        /\ m = <<Torn>> => ~(~answer.framed /\ whole)
        /\ m # <<>> /\ answer.framed => received = 0
    BY <1>5, UnframedRight
  <2>2. m # <<>> => ~answer.framed
    BY <1>5, <2>1
  <2>3. CASE ~answer.framed /\ whole
    <3>1. /\ Names(legible) = IF encoding \in raw.reads THEN <<raw.name>> ELSE <<>>
          /\ raw.name # Torn
      BY <2>3, RawMessage
    <3>2. m = <<>> \/ m = <<raw.name>>
      BY <2>1, <2>3, <3>1
    <3>3. Torn \notin ToSet(m)
      BY <3>1, <3>2 DEF ToSet
    <3>4. IsPrefix(m, m)
      <4>1. Len(m) <= Len(m)
        BY <2>1
      <4> QED
        BY <2>1, <4>1, PrefixOf
    <3> QED
      BY <2>1, <2>3, <3>3, <3>4
  <2>4. CASE ~answer.framed /\ ~whole
    BY <1>3, <2>1, <2>4
  <2>5. CASE answer.framed
    BY <1>3, <1>4, <1>5, <2>1, <2>2, <2>5
  <2> QED
    BY <2>3, <2>4, <2>5
<1>6. CASE m = messages /\ ~(messages = <<>> /\ ~trailers.any /\ encoding = "proto" /\ received > 0)
  <2>1. ASSUME whole, AsAsked, ~answer.framed PROVE FALSE
    <3>1. popped = 0
      BY <2>1, AnswerTypes DEF Body
    <3>2. messages = <<>> /\ ~trailers.any
      BY <3>1, NothingRead DEF NoTrailers
    <3>3. encoding = "proto" /\ raw.size > 0
      BY <2>1 DEF AsAsked, Stream
    <3>4. received > 0
      <4>1. Len(answer.frames) = 1 /\ raw = answer.frames[1] /\ raw.size \in Nat
        BY <2>1, AnswerAssumption, AnswerTypes DEF raw
      <4>2. Offset[1] = Offset[0] + FrameSize(raw) /\ Offset[0] = 0
        BY <4>1, OffsetStep
      <4>3. FrameSize(raw) = raw.size
        BY <2>1, <4>1 DEF FrameSize
      <4>4. received = Offset[1]
        BY <2>1, <4>1, BodySize DEF whole
      <4> QED
        BY <3>3, <4>1, <4>2, <4>3, <4>4
    <3> QED
      BY <1>6, <3>2, <3>3, <3>4
  <2> QED
    BY <1>1, <1>4, <1>6, <2>1
<1> QED
  BY <1>5, <1>6 DEF unframed_fallback

\* The status of a whole stream: that of its end or, if that has no details and the last
\* message says it in full, that message's.
LEMMA WebStreamTold ==
    ASSUME Typed, Body, AllRead, path = "web", answer.http_ok, whole, AsAsked, Stream,
           NEW m, m = Names(legible)
    PROVE  Codes(Rich(m).error) =
               IF said # {} /\ SaidInFull THEN Last(legible).status ELSE said
<1> DEFINE f == Last(answer.frames)
<1>1. /\ trailers = [any |-> TRUE, status |-> f.status]
      /\ error = {Error(code, f.details) : code \in NotOK(f.status)}
      /\ ends = {f} /\ said = NotOK(f.status) /\ f.status # {}
  BY Paths, StreamStatus
<1> HIDE DEF f
<1>2. with_headers.error = error
  BY <1>1, BodyStatus
<1>3. Codes(error) = said
  BY <1>1, CodesOf
<1>4. CASE encoding # "json"
  BY <1>2, <1>3, <1>4 DEF Rich, SaidInFull
<1>5. CASE encoding = "json"
  <2>1. Rich(m) = enrich(m, error)
    BY <1>2, <1>5 DEF Rich
  <2> DEFINE like == looks_like_status(Last(m))
             full == (\E x \in error : ~x.details /\ m # <<>> /\ like # {})
  <2>2. SaidInFull <=> ~f.details /\ legible # <<>> /\ Last(legible).status # {}
    BY <1>1, <1>5 DEF SaidInFull
  <2>3. (\E x \in error : ~x.details) <=> said # {} /\ ~f.details
    <3>1. \A code : Error(code, f.details).details = f.details
      BY DEF Error
    <3>2. \A x \in error : x.details = f.details
      BY <1>1, <3>1
    <3>3. \A code \in said : Error(code, f.details) \in error
      BY <1>1
    <3>4. error # {} <=> said # {}
      BY <1>1
    <3> QED
      BY <3>2, <3>4
  <2>4. legible # <<>> => /\ m # <<>> /\ (like # {} <=> Last(legible).status # {})
                          /\ like # {} => UNION {g.status : g \in like} = Last(legible).status
    BY LastLegible, Paths
  <2>5. legible = <<>> => m = <<>>
    BY DEF Names
  <2>6. full <=> said # {} /\ SaidInFull
    BY <2>2, <2>3, <2>4, <2>5
  <2>7. CASE full
    <3> DEFINE S == UNION {g.status : g \in like}
               e == {Error(code, TRUE) : code \in S}
    <3>1. Rich(m).error = e
      <4>1. enrich(m, error) = [messages |-> Front(m), error |-> e]
        BY <2>7 DEF enrich
      <4> HIDE DEF e
      <4> QED
        BY <2>1, <4>1
    <3>2. S = Last(legible).status
      BY <2>4, <2>5, <2>7
    <3>3. Codes(Rich(m).error) = Last(legible).status
      <4> HIDE DEF S
      <4>1. Codes(e) = S
        BY CodesOf
      <4> HIDE DEF e
      <4> QED
        BY <3>1, <3>2, <4>1
    <3> QED
      BY <2>6, <2>7, <3>3
  <2>8. CASE ~full
    <3>1. Rich(m).error = error
      BY <2>1, <2>8 DEF enrich
    <3> QED
      BY <1>3, <2>6, <2>8, <3>1
  <2> QED
    BY <2>7, <2>8
<1> QED
  BY <1>4, <1>5

LEMMA WebTold ==
    ASSUME Typed, Body, AllRead, path = "web", answer.http_ok, NEW m \in unframed_fallback
    PROVE  Told(Rich(m).error)
<1> SUFFICES ASSUME whole, AsAsked
             PROVE  Codes(Rich(m).error) =
                        IF said # {} /\ SaidInFull THEN Last(legible).status ELSE said
  BY DEF Told
<1>1. m = Names(legible)
  BY WebMessages
<1>2. CASE Stream
  BY <1>1, <1>2, WebStreamTold
<1>3. CASE ~answer.framed /\ encoding = "proto"
  <2>1. popped = 0
    BY <1>3, AnswerTypes DEF Body
  <2>2. Codes(with_headers.error) = NotOK(answer.header_status)
    BY <2>1, NothingRead, HeaderStatus
  <2>3. Rich(m).error = with_headers.error /\ ~SaidInFull
    BY <1>3 DEF Rich, SaidInFull
  <2> QED
    BY <1>3, <2>2, <2>3, RawMessage
<1>4. CASE answer.framed /\ answer.frames = <<>>
  <2>1. Len(answer.frames) = 0 /\ popped = 0
    BY <1>4, AnswerTypes DEF Body
  <2>2. Codes(with_headers.error) = NotOK(answer.header_status)
    BY <2>1, NothingRead, HeaderStatus
  <2>3. legible = <<>>
    BY <2>1, LegibleStep DEF legible
  <2>4. m = <<>>
    BY <1>1, <2>3 DEF Names
  <2>5. enrich(m, with_headers.error) = [messages |-> m, error |-> with_headers.error]
    BY <2>4 DEF enrich
  <2>6. Rich(m).error = with_headers.error
    BY <2>5 DEF Rich
  <2>7. ~SaidInFull
    BY <2>3 DEF SaidInFull
  <2>8. said = NotOK(answer.header_status)
    <3>1. ends = {}
      BY <1>4 DEF ends, ToSet
    <3> QED
      BY <3>1 DEF said
  <2> QED
    BY <2>2, <2>6, <2>7, <2>8
<1> QED
  BY <1>2, <1>3, <1>4 DEF AsAsked

LEMMA WebAnswerInvariant == ASSUME IInv, WebAnswer PROVE IInv'
<1>1. Typed /\ Body /\ ended /\ AllRead /\ path = "web" /\ answer.http_ok
  BY DEF IInv, WebAnswer, AllRead
<1>2. PICK m \in unframed_fallback : Finish(Rich(m).messages, with_headers.trailers, Rich(m).error)
  BY DEF WebAnswer, Rich, with_headers
<1>3. /\ m \in Seq(STRING \cup {Torn})
      /\ \/ m = <<Torn>> /\ ~(whole /\ AsAsked)
         \/ Torn \notin ToSet(m) /\ IsPrefix(m, Names(legible))
      /\ whole /\ AsAsked => m = Names(legible)
  BY <1>1, WebMessages
<1>4. Rich(m).messages \in Seq(STRING \cup {Torn}) /\ (Rich(m).error = {} => Rich(m).messages = m)
  <2>1. CASE encoding = "json"
    <3>1. Rich(m) = enrich(m, with_headers.error)
      BY <2>1 DEF Rich
    <3> QED
      BY <1>3, <3>1, EnrichKeeps
  <2>2. CASE encoding # "json"
    BY <1>3, <2>2 DEF Rich
  <2> QED
    BY <2>1, <2>2
<1>5. Good(Rich(m).messages, Rich(m).error)
  BY <1>3, <1>4 DEF Good
<1>6. Told(Rich(m).error)
  BY <1>1, WebTold
<1>7. DeliveredAsSent' /\ StatusSurvives'
  BY <1>1, <1>2, <1>4, <1>5, <1>6, Finished
<1> QED
  BY <1>2, <1>7, Ends DEF Finish

-----------------------------------------------------------------------------
(* The theorems                                                            *)

LEMMA Stutter == ASSUME IInv, UNCHANGED vars PROVE IInv'
<1>1. /\ UNCHANGED <<call, answer>> /\ UNCHANGED <<pc, received, ended, items>>
      /\ UNCHANGED <<popped, messages, trailers, error>>
  BY DEF vars, parsed
<1>2. Typed' /\ (answer.text => path = "web")'
  BY <1>1, SameCall
<1>3. Body => Body'
  BY <1>1, Same DEF Body, NoEnd, EndRead, Names
<1>4. delivered' = delivered /\ failed' = failed /\ whole' = whole /\ Answered' = Answered
  BY <1>1, Same DEF delivered, Delivered, failed, whole, Answered
<1>5. DeliveredAsSent' /\ StatusSurvives'
  BY <1>1, <1>4, Same DEF IInv, DeliveredAsSent, StatusSurvives, Names
<1> QED
  BY <1>1, <1>2, <1>3, <1>5 DEF IInv

LEMMA Invariance == IInv /\ [Next]_vars => IInv'
<1> SUFFICES ASSUME IInv, [Next]_vars PROVE IInv'
  OBVIOUS
<1>1. CASE Start
  BY <1>1, StartInvariant
<1>2. CASE Send
  BY <1>2, SendInvariant
<1>3. CASE Chunk
  BY <1>3, ChunkInvariant
<1>4. CASE BodyEnds
  BY <1>4, BodyEndsInvariant
<1>5. CASE BodyBreaks
  BY <1>5, BodyBreaksInvariant
<1>6. CASE PopFrame
  BY <1>6, PopFrameInvariant
<1>7. CASE HttpError
  BY <1>7, HttpErrorInvariant
<1>8. CASE WebAnswer
  BY <1>8, WebAnswerInvariant
<1>9. CASE StreamAnswer
  BY <1>9, StreamAnswerInvariant
<1>10. CASE UnaryAnswer
  BY <1>10, UnaryAnswerInvariant
<1>11. CASE MultiAnswer
  BY <1>11, MultiAnswerInvariant
<1>12. CASE Done \/ UNCHANGED vars
  BY <1>12, Stutter DEF Done
<1> QED
  BY <1>1, <1>2, <1>3, <1>4, <1>5, <1>6, <1>7, <1>8, <1>9, <1>10, <1>11, <1>12 DEF Next

LEMMA AlwaysIInv == Spec => []IInv
BY InitInvariant, Invariance, PTL DEF Spec

\* However an answer is framed, encoded and cut into chunks, and wherever it ends, a test
\* sees the server's messages in their order and no others: the decoders of
\* src/grpc/web.rs, their fallbacks and the end they make of a body.
THEOREM DeliveredAsSentCorrect == Spec => []DeliveredAsSent
<1>1. IInv => DeliveredAsSent
  BY DEF IInv
<1> QED
  BY <1>1, AlwaysIInv, PTL

\* The status of a call of one request reaches the test, whether it came in the end of the
\* body, in the headers of the response, as an HTTP error or in full in the last message.
THEOREM StatusSurvivesCorrect == Spec => []StatusSurvives
<1>1. IInv => StatusSurvives
  BY DEF IInv
<1> QED
  BY <1>1, AlwaysIInv, PTL

=============================================================================
