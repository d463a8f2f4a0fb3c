------------------------- MODULE YamlDecoder_proofs -------------------------
(***************************************************************************)
(* Proofs about the streaming decoder, for every stream, every chunking of *)
(* it and every frame cap: the documents it cuts are those of the whole    *)
(* stream, nothing is lost, and the resumed scan never passes a boundary.  *)
(*                                                                         *)
(* The argument rests on one fact (Lift): away from the end of the buffer, *)
(* and everywhere once the stream has ended, the buffer and the stream     *)
(* agree on what is a marker.  With the scan invariant it makes the marker *)
(* found in the buffer the first boundary after `head`.                    *)
(***************************************************************************)
EXTENDS YamlDecoder, SequenceTheorems, TLAPS

-----------------------------------------------------------------------------
(* The inductive invariant.                                                *)

\* At the end of the stream the buffer reaches to its end.
EofSeesAll == mode = "eof" => fed = Len(stream)

\* The scan stays in the buffer.
ScannedInBuffer == head + scanned <= fed

\* The buffer starts where a document starts, or is empty for good.
HeadIsBoundary == head \in Boundary \cup {0, Len(stream)}

FramesBeforeHead == \A n \in DOMAIN frames : frames[n].end <= head

IInv ==
  /\ TypeOK /\ EofSeesAll /\ ScannedInBuffer /\ HeadIsBoundary
  /\ ScannedIsFinal /\ FramesBeforeHead
  /\ FramesAreDocuments /\ NothingLost /\ RefusedNearLimit

-----------------------------------------------------------------------------
(* The buffer and the stream.                                              *)

\* The buffer is the stream between head and fed.
LEMMA SrcFacts ==
  ASSUME TypeOK
  PROVE  /\ Len(src) = fed - head
         /\ \A k \in 1 .. fed - head : src[k] = stream[head + k]
         /\ Len(stream) \in Nat /\ head \in Nat /\ fed \in Nat
         /\ head <= fed /\ fed <= Len(stream)
<1>1. stream \in Seq(Byte) /\ fed \in 0 .. Len(stream) /\ head \in 0 .. fed
  BY DEF TypeOK
<1>2. Len(stream) \in Nat /\ head \in Nat /\ fed \in Nat /\ head <= fed /\ fed <= Len(stream)
  BY <1>1
<1>3. \A i \in head + 1 .. fed : stream[i] \in Byte
  BY <1>1, <1>2
<1>4. /\ Len(src) = IF head + 1 <= fed THEN fed - (head + 1) + 1 ELSE 0
      /\ \A i \in 1 .. fed - (head + 1) + 1 : src[i] = stream[head + 1 + i - 1]
  BY <1>2, <1>3, SubSeqProperties DEF src
<1>. QED
  BY <1>2, <1>4

\* Where the byte after a `---` is in the buffer, or the stream has ended,
\* the buffer and the stream agree on whether it is a marker.
LEMMA Lift ==
  ASSUME TypeOK, NEW i \in Nat, i >= 1,
         \/ i + 3 < Len(src)
         \/ i + 3 = Len(src) /\ fed = Len(stream)
  PROVE  is_doc_marker_at(src, i) <=> is_doc_marker_at(stream, head + i)
<1>1. /\ Len(src) = fed - head
      /\ \A k \in 1 .. fed - head : src[k] = stream[head + k]
      /\ Len(stream) \in Nat /\ head \in Nat /\ fed \in Nat
      /\ head <= fed /\ fed <= Len(stream)
  BY SrcFacts
<1>2. \A k \in 1 .. 3 : src[i + k] = stream[head + i + k]
  <2>1. ASSUME NEW k \in 1 .. 3 PROVE src[i + k] = stream[head + (i + k)]
    BY <1>1, SMTT(30)
  <2>2. ASSUME NEW k \in 1 .. 3 PROVE head + (i + k) = head + i + k
    BY <1>1
  <2>. QED BY <2>1, <2>2
<1>3. src[i] = stream[head + i]
  BY <1>1
<1>4. i + 3 = Len(src) <=> head + i + 3 = Len(stream)
  BY <1>1
<1>5. i + 3 # Len(src) => src[i + 4] = stream[head + i + 4]
  <2>1. i + 3 # Len(src) => i + 4 \in 1 .. fed - head
    BY <1>1
  <2>2. head + (i + 4) = head + i + 4
    BY <1>1
  <2>. QED BY <1>1, <2>1, <2>2
<1>6. i + 3 <= Len(src) /\ head + i + 3 <= Len(stream) /\ i # 0 /\ head + i # 0
  BY <1>1
<1>. QED
  BY <1>2, <1>3, <1>4, <1>5, <1>6 DEF is_doc_marker_at

\* The boundaries of the stream.
LEMMA BoundaryFacts ==
  ASSUME TypeOK, NEW p
  PROVE  p \in Boundary <=> p \in Nat /\ p >= 1 /\ is_doc_marker_at(stream, p)
<1>1. Len(stream) \in Nat
  BY SrcFacts
<1>2. ASSUME p \in Nat, is_doc_marker_at(stream, p) PROVE p <= Len(stream)
  <2>1. p + 3 <= Len(stream)
    BY <1>2 DEF is_doc_marker_at
  <2>. QED BY <1>1, <1>2, <2>1
<1>. QED
  BY <1>1, <1>2 DEF Boundary, Markers

\* A boundary the scan has not passed and that can be decided is found.
LEMMA BoundaryIsFound ==
  ASSUME IInv, NEW at_eof \in BOOLEAN, at_eof => fed = Len(stream),
         NEW p \in Boundary, head < p,
         p - head + 3 < Len(src) \/ (at_eof /\ p - head + 3 = Len(src))
  PROVE  p - head \in StreamingMarkers(src, ResumeAt, at_eof)
<1>1. TypeOK /\ ScannedInBuffer /\ ScannedIsFinal
  BY DEF IInv
<1>2. /\ Len(src) = fed - head /\ Len(stream) \in Nat /\ head \in Nat /\ fed \in Nat
      /\ head <= fed /\ fed <= Len(stream) /\ scanned \in Nat
  BY <1>1, SrcFacts DEF TypeOK
<1>3. p \in Nat /\ is_doc_marker_at(stream, p)
  BY <1>1, BoundaryFacts
<1>4. ResumeAt = scanned
  BY <1>1, <1>2 DEF ResumeAt, ScannedInBuffer
<1>5. p - head >= scanned /\ p - head >= 1 /\ p - head \in Nat
  BY <1>1, <1>2, <1>3 DEF ScannedIsFinal
<1>6. head + (p - head) = p
  BY <1>2, <1>3
<1>7. is_doc_marker_at(src, p - head)
  BY <1>1, <1>2, <1>3, <1>5, <1>6, Lift
<1>8. p - head <= Len(src) /\ (at_eof \/ (p - head) + 3 # Len(src))
  BY <1>2, <1>5
<1>9. p - head \in Markers(src, IF ResumeAt = 0 THEN 1 ELSE ResumeAt)
  BY <1>2, <1>4, <1>5, <1>7, <1>8 DEF Markers
<1>. QED
  BY <1>8, <1>9 DEF StreamingMarkers

\* The marker decode_step cuts at is the first boundary after head.
LEMMA FoundIsBoundary ==
  ASSUME IInv, NEW at_eof \in BOOLEAN, at_eof => fed = Len(stream),
         NEW end, IsLeast(end, StreamingMarkers(src, ResumeAt, at_eof))
  PROVE  /\ end \in Nat /\ end >= 1 /\ end + 3 <= Len(src)
         /\ head + end \in Boundary
         /\ \A p \in Boundary : head < p => head + end <= p
<1>1. TypeOK /\ ScannedInBuffer
  BY DEF IInv
<1>2. /\ Len(src) = fed - head /\ Len(stream) \in Nat /\ head \in Nat /\ fed \in Nat
      /\ head <= fed /\ fed <= Len(stream) /\ scanned \in Nat
  BY <1>1, SrcFacts DEF TypeOK
<1>3. ResumeAt \in Nat
  BY <1>2 DEF ResumeAt
<1>4. /\ end \in StreamingMarkers(src, ResumeAt, at_eof)
      /\ \A j \in StreamingMarkers(src, ResumeAt, at_eof) : end <= j
  BY DEF IsLeast
<1>5. /\ end \in Markers(src, IF ResumeAt = 0 THEN 1 ELSE ResumeAt)
      /\ at_eof \/ end + 3 # Len(src)
  BY <1>4 DEF StreamingMarkers
<1>6. end \in Nat /\ end >= 1 /\ is_doc_marker_at(src, end)
  BY <1>2, <1>3, <1>5 DEF Markers
<1>7. end + 3 <= Len(src)
  BY <1>6 DEF is_doc_marker_at
<1>8. is_doc_marker_at(stream, head + end)
  BY <1>1, <1>2, <1>5, <1>6, <1>7, Lift
<1>9. head + end \in Boundary
  BY <1>1, <1>2, <1>6, <1>8, BoundaryFacts
<1>10. ASSUME NEW p \in Boundary, head < p PROVE head + end <= p
  <2>1. p \in Nat
    BY <1>1, BoundaryFacts
  <2>2. CASE p - head + 3 < Len(src) \/ (at_eof /\ p - head + 3 = Len(src))
    <3>1. p - head \in StreamingMarkers(src, ResumeAt, at_eof)
      BY <1>10, <2>2, BoundaryIsFound
    <3>. QED BY <1>2, <1>4, <1>6, <2>1, <3>1
  <2>3. CASE ~(p - head + 3 < Len(src) \/ (at_eof /\ p - head + 3 = Len(src)))
    BY <1>2, <1>5, <1>6, <1>7, <2>1, <2>3
  <2>. QED BY <2>2, <2>3
<1>. QED
  BY <1>6, <1>7, <1>9, <1>10

\* When nothing is found, a boundary after head is at the undecided tail.
LEMMA NoneIsFinal ==
  ASSUME IInv, NEW at_eof \in BOOLEAN, at_eof => fed = Len(stream), NoBoundary(at_eof),
         NEW p \in Boundary, head < p
  PROVE  ~at_eof /\ p - head + 3 >= Len(src)
<1>1. TypeOK
  BY DEF IInv
<1>2. /\ Len(src) = fed - head /\ Len(stream) \in Nat /\ head \in Nat /\ fed \in Nat
      /\ head <= fed /\ fed <= Len(stream)
  BY <1>1, SrcFacts
<1>3. p \in Nat /\ p + 3 <= Len(stream)
  BY <1>1, BoundaryFacts DEF is_doc_marker_at
<1>4. ~(p - head + 3 < Len(src) \/ (at_eof /\ p - head + 3 = Len(src)))
  BY BoundaryIsFound DEF NoBoundary
<1>. QED
  BY <1>2, <1>3, <1>4

-----------------------------------------------------------------------------
(* Steps that split nothing off.                                           *)

\* A step that moves neither head nor the frames keeps the invariant, if
\* the scan has passed no boundary and a refusal is for cause.
LEMMA StillStep ==
  ASSUME IInv, stream' = stream, head' = head, frames' = frames,
         fed' \in fed .. Len(stream),
         scanned' \in Nat, head + scanned' <= fed',
         \A p \in Boundary : ~(head < p /\ p < head + scanned'),
         mode' \in Mode, mode' = "eof" => fed' = Len(stream),
         RefusedNearLimit'
  PROVE  IInv'
<1>1. TypeOK'
  <2>1. fed \in Nat /\ Len(stream) \in Nat /\ head \in 0 .. fed
    BY SrcFacts DEF IInv
  <2>2. fed' \in 0 .. Len(stream) /\ head \in 0 .. fed'
    BY <2>1
  <2>. QED BY <2>2 DEF IInv, TypeOK
<1>2. Boundary' = Boundary
  BY DEF Boundary
<1>3. EofSeesAll' /\ ScannedInBuffer'
  BY DEF EofSeesAll, ScannedInBuffer
<1>4. HeadIsBoundary' /\ ScannedIsFinal'
  BY <1>2 DEF IInv, HeadIsBoundary, ScannedIsFinal
<1>5. FramesBeforeHead' /\ FramesAreDocuments'
  BY <1>2 DEF IInv, FramesBeforeHead, FramesAreDocuments
<1>6. NothingLost'
  BY DEF IInv, NothingLost
<1>. QED
  BY <1>1, <1>3, <1>4, <1>5, <1>6 DEF IInv

-----------------------------------------------------------------------------
(* Steps that split a document, or whitespace, off the buffer.             *)

\* What splitting `end` bytes off needs: the cut is at the first boundary
\* after head, or at the end of the stream when there is none.
CutAt(end) ==
  /\ end \in Nat /\ end >= 1 /\ end <= Len(src)
  /\ head + end \in Boundary \cup {Len(stream)}
  /\ \A p \in Boundary : ~(head < p /\ p < head + end)

\* The two ends of a document split off earlier.
LEMMA FrameFields ==
  ASSUME frames \in Seq([start : Nat, end : Nat])
  PROVE  \A n \in DOMAIN frames : frames[n].start \in Nat /\ frames[n].end \in Nat
<1>1. \A S : frames \in Seq(S) => \A n \in DOMAIN frames : frames[n] \in S
  OBVIOUS
<1>2. \A n \in DOMAIN frames : frames[n] \in [start : Nat, end : Nat]
  BY <1>1, Zenon
<1>. QED
  BY <1>2

\* A step that splits a document or whitespace off keeps the invariant.
LEMMA CutStep ==
  ASSUME IInv, NEW end, CutAt(end),
         stream' = stream, fed' = fed, head' = head + end, scanned' = 0,
         mode' \in Mode, mode' # "refused", mode' = "eof" => mode = "eof",
         \/ frames' = Append(frames, [start |-> head, end |-> head + end])
         \/ frames' = frames /\ Blank(SubSeq(src, 1, end))
  PROVE  IInv'
<1>1. /\ Len(src) = fed - head /\ Len(stream) \in Nat /\ head \in Nat /\ fed \in Nat
      /\ head <= fed /\ fed <= Len(stream)
      /\ \A k \in 1 .. fed - head : src[k] = stream[head + k]
  BY SrcFacts DEF IInv
<1>2. end \in Nat /\ end >= 1 /\ head + end <= fed
  BY <1>1 DEF CutAt
<1>3. Boundary' = Boundary
  BY DEF Boundary
<1>4. frames \in Seq([start : Nat, end : Nat])
  BY DEF IInv, TypeOK
<1>5. TypeOK'
  <2>1. [start |-> head, end |-> head + end] \in [start : Nat, end : Nat]
    BY <1>1, <1>2
  <2>2. frames' \in Seq([start : Nat, end : Nat])
    <3>1. \A S, e : frames \in Seq(S) /\ e \in S => Append(frames, e) \in Seq(S)
      OBVIOUS
    <3>. QED BY <1>4, <2>1, <3>1, Zenon
  <2>3. head' \in 0 .. fed' /\ scanned' \in Nat
    BY <1>1, <1>2
  <2>. QED BY <2>2, <2>3 DEF IInv, TypeOK
<1>6. EofSeesAll'
  BY DEF IInv, EofSeesAll
<1>7. ScannedInBuffer'
  BY <1>1, <1>2 DEF ScannedInBuffer
<1>8. HeadIsBoundary'
  BY <1>3 DEF CutAt, HeadIsBoundary
<1>9. ScannedIsFinal'
  <2>1. ASSUME NEW p \in Boundary PROVE ~(head' < p /\ p < head' + scanned')
    <3>1. p \in Nat
      BY BoundaryFacts DEF IInv
    <3>. QED BY <1>1, <1>2, <3>1
  <2>. QED BY <1>3, <2>1 DEF ScannedIsFinal
<1>10. RefusedNearLimit'
  BY DEF RefusedNearLimit
<1>11. CASE frames' = Append(frames, [start |-> head, end |-> head + end])
  <2>1. /\ Len(frames) \in Nat /\ DOMAIN frames = 1 .. Len(frames)
        /\ Len(frames') = Len(frames) + 1
        /\ DOMAIN frames' = 1 .. Len(frames) + 1
        /\ \A n \in DOMAIN frames : frames'[n] = frames[n]
        /\ frames'[Len(frames) + 1] = [start |-> head, end |-> head + end]
    BY <1>4, <1>11
  <2>2. \A n \in DOMAIN frames' : n \in DOMAIN frames \/ n = Len(frames) + 1
    BY <2>1
  <2>3. \A n \in DOMAIN frames : frames[n].start \in Nat /\ frames[n].end \in Nat
    BY <1>4, FrameFields
  <2>4. FramesBeforeHead'
    <3>1. ASSUME NEW n \in DOMAIN frames PROVE frames'[n].end <= head'
      <4>1. frames[n].end <= head
        BY DEF IInv, FramesBeforeHead
      <4>. QED BY <1>1, <1>2, <2>1, <2>3, <4>1
    <3>2. frames'[Len(frames) + 1].end <= head'
      BY <1>1, <1>2, <2>1
    <3>. QED BY <2>2, <3>1, <3>2 DEF FramesBeforeHead
  <2>5. FramesAreDocuments'
    <3>1. head \in Boundary \cup {0}
      BY <1>1, <1>2 DEF IInv, HeadIsBoundary
    <3>2. /\ head < head + end
          /\ head + end \in Boundary \cup {Len(stream)}
          /\ \A p \in Boundary : ~(head < p /\ p < head + end)
      BY <1>1, <1>2 DEF CutAt
    <3>3. ASSUME NEW n \in DOMAIN frames'
          PROVE  LET f == frames'[n] IN
                 /\ f.start < f.end
                 /\ f.start \in Boundary \cup {0}
                 /\ f.end \in Boundary \cup {Len(stream)}
                 /\ \A p \in Boundary : ~(f.start < p /\ p < f.end)
      <4>1. CASE n \in DOMAIN frames
        BY <2>1, <4>1 DEF IInv, FramesAreDocuments
      <4>2. CASE n = Len(frames) + 1
        BY <2>1, <3>1, <3>2, <4>2
      <4>. QED BY <2>2, <4>1, <4>2
    <3>. QED BY <1>3, <3>3 DEF FramesAreDocuments
  <2>6. NothingLost'
    <3>1. ASSUME NEW n \in 1 .. Len(frames') - 1 PROVE frames'[n].end <= frames'[n + 1].start
      <4>1. CASE n = Len(frames)
        <5>1. n \in DOMAIN frames
          BY <2>1, <4>1
        <5>2. frames[n].end <= head
          BY <5>1 DEF IInv, FramesBeforeHead
        <5>. QED BY <2>1, <4>1, <5>1, <5>2
      <4>2. CASE n # Len(frames)
        <5>1. n \in 1 .. Len(frames) - 1 /\ n \in DOMAIN frames /\ n + 1 \in DOMAIN frames
          <6>1. n \in Nat /\ 1 <= n /\ n <= Len(frames)
            BY <2>1
          <6>2. n <= Len(frames) - 1
            <7>1. \A a, b \in Nat : a <= b /\ a # b => a <= b - 1
              OBVIOUS
            <7>. QED BY <2>1, <4>2, <6>1, <7>1, Zenon
          <6>. QED BY <2>1, <6>1, <6>2
        <5>2. frames[n].end <= frames[n + 1].start
          BY <5>1 DEF IInv, NothingLost
        <5>. QED BY <2>1, <5>1, <5>2
      <4>. QED BY <4>1, <4>2
    <3>2. ASSUME NEW i \in 1 .. head'
          PROVE  \/ stream'[i] \in Whitespace
                 \/ \E n \in DOMAIN frames' : frames'[n].start < i /\ i <= frames'[n].end
      <4>1. CASE i <= head
        <5>1. i \in 1 .. head
          BY <1>1, <1>2, <4>1
        <5>2. \/ stream[i] \in Whitespace
              \/ \E n \in DOMAIN frames : frames[n].start < i /\ i <= frames[n].end
          BY <5>1 DEF IInv, NothingLost
        <5>3. \A n \in DOMAIN frames : n \in DOMAIN frames'
          BY <2>1
        <5>. QED BY <2>1, <5>2, <5>3
      <4>2. CASE i > head
        <5>1. i <= head + end /\ Len(frames) + 1 \in DOMAIN frames'
          BY <1>1, <1>2, <2>1
        <5>. QED BY <2>1, <4>2, <5>1
      <4>. QED BY <1>1, <1>2, <4>1, <4>2
    <3>. QED BY <3>1, <3>2 DEF NothingLost
  <2>. QED
    BY <1>5, <1>6, <1>7, <1>8, <1>9, <1>10, <2>4, <2>5, <2>6 DEF IInv
<1>12. CASE frames' = frames /\ Blank(SubSeq(src, 1, end))
  <2>1. \A n \in DOMAIN frames : frames[n].start \in Nat /\ frames[n].end \in Nat
    BY <1>4, FrameFields
  <2>2. FramesBeforeHead'
    <3>1. ASSUME NEW n \in DOMAIN frames PROVE frames[n].end <= head + end
      <4>1. frames[n].end <= head
        BY DEF IInv, FramesBeforeHead
      <4>. QED BY <1>1, <1>2, <2>1, <4>1
    <3>. QED BY <1>12, <3>1 DEF FramesBeforeHead
  <2>3. FramesAreDocuments'
    BY <1>3, <1>12 DEF IInv, FramesAreDocuments
  <2>4. \A k \in 1 .. end : stream[head + k] \in Whitespace
    <3>1. src \in Seq(Byte) /\ \A i \in 1 .. end : src[i] \in Byte
      <4>1. stream \in Seq(Byte) /\ \A i \in head + 1 .. fed : stream[i] \in Byte
        BY <1>1 DEF IInv, TypeOK
      <4>2. src \in Seq(Byte)
        BY <1>1, <4>1, SubSeqProperties DEF src
      <4>. QED BY <1>1, <1>2, <4>2
    <3>2. /\ Len(SubSeq(src, 1, end)) = end
          /\ \A i \in 1 .. end : SubSeq(src, 1, end)[i] = src[i]
      BY <1>1, <1>2, <3>1, SubSeqProperties
    <3>3. \A i \in 1 .. end : src[i] \in Whitespace
      BY <1>2, <1>12, <3>2 DEF Blank
    <3>4. \A k \in 1 .. end : k \in 1 .. fed - head
      BY <1>1, <1>2
    <3>. QED BY <1>1, <3>3, <3>4
  <2>5. NothingLost'
    <3>1. ASSUME NEW i \in 1 .. head + end
          PROVE  \/ stream[i] \in Whitespace
                 \/ \E n \in DOMAIN frames : frames[n].start < i /\ i <= frames[n].end
      <4>1. CASE i <= head
        <5>1. i \in 1 .. head
          BY <1>1, <1>2, <4>1
        <5>. QED BY <5>1 DEF IInv, NothingLost
      <4>2. CASE i > head
        <5>1. i - head \in 1 .. end /\ head + (i - head) = i
          BY <1>1, <1>2, <4>2
        <5>. QED BY <2>4, <5>1
      <4>. QED BY <1>1, <1>2, <4>1, <4>2
    <3>. QED BY <1>12, <3>1 DEF IInv, NothingLost
  <2>. QED
    BY <1>5, <1>6, <1>7, <1>8, <1>9, <1>10, <2>2, <2>3, <2>5 DEF IInv
<1>. QED
  BY <1>11, <1>12

-----------------------------------------------------------------------------
(* The steps.                                                              *)

\* The decoder starts in the invariant.
LEMMA InitInv == Init => IInv
<1>. SUFFICES ASSUME Init PROVE IInv
  OBVIOUS
<1>1. stream \in Seq(Byte) /\ Len(stream) \in Nat
  BY DecoderAssumption DEF Init
<1>2. fed = 0 /\ head = 0 /\ scanned = 0 /\ mode = "reading" /\ frames = <<>>
  BY DEF Init
<1>3. TypeOK
  <2>1. <<>> \in Seq([start : Nat, end : Nat])
    OBVIOUS
  <2>. QED BY <1>1, <1>2, <2>1 DEF TypeOK, Mode
<1>4. DOMAIN frames = {} /\ Len(frames) = 0
  BY <1>2
<1>5. ScannedIsFinal
  <2>1. ASSUME NEW p \in Boundary PROVE ~(head < p /\ p < head + scanned)
    <3>1. p \in Nat
      BY <1>3, BoundaryFacts
    <3>. QED BY <1>2, <3>1
  <2>. QED BY <2>1 DEF ScannedIsFinal
<1>6. EofSeesAll /\ RefusedNearLimit
  BY <1>2 DEF EofSeesAll, RefusedNearLimit
<1>7. ScannedInBuffer /\ HeadIsBoundary
  BY <1>2 DEF ScannedInBuffer, HeadIsBoundary
<1>8. FramesBeforeHead /\ FramesAreDocuments
  BY <1>4 DEF FramesBeforeHead, FramesAreDocuments
<1>9. NothingLost
  <2>1. 1 .. Len(frames) - 1 = {} /\ 1 .. head = {}
    BY <1>2, <1>4
  <2>. QED BY <2>1 DEF NothingLost
<1>. QED
  BY <1>3, <1>5, <1>6, <1>7, <1>8, <1>9 DEF IInv

\* A read, its end or its failure keeps the invariant.
LEMMA ReadStep ==
  ASSUME IInv, Read \/ ReadEnd \/ ReadFails
  PROVE  IInv'
<1>1. /\ Len(stream) \in Nat /\ head \in Nat /\ fed \in Nat
      /\ head <= fed /\ fed <= Len(stream) /\ scanned \in Nat
  BY SrcFacts DEF IInv, TypeOK
<1>2. /\ stream' = stream /\ head' = head /\ frames' = frames /\ scanned' = scanned
      /\ mode' \in {"framing", "eof", "failed"}
      /\ mode' = "eof" => fed' = Len(stream)
  BY DEF Read, ReadEnd, ReadFails
<1>3. fed' \in fed .. Len(stream)
  BY <1>1 DEF Read, ReadEnd, ReadFails
<1>4. head + scanned' <= fed'
  BY <1>1, <1>2, <1>3 DEF IInv, ScannedInBuffer
<1>5. \A p \in Boundary : ~(head < p /\ p < head + scanned')
  BY <1>2 DEF IInv, ScannedIsFinal
<1>6. mode' \in Mode /\ RefusedNearLimit'
  BY <1>2 DEF Mode, RefusedNearLimit
<1>. QED
  BY <1>1, <1>2, <1>3, <1>4, <1>5, <1>6, StillStep

\* A refusal keeps the invariant when the document at the head, with three
\* bytes to spare, is over the cap.
LEMMA RefuseStep ==
  ASSUME IInv, Refuse, stream' = stream, fed' = fed,
         scanned' \in Nat, head + scanned' <= fed,
         \A p \in Boundary : ~(head < p /\ p < head + scanned'),
         \A e \in head .. Len(stream) : DocumentEnd(e) => ~check_frame_len(e - head + 3)
  PROVE  IInv'
<1>1. Len(stream) \in Nat /\ head \in Nat /\ fed \in Nat /\ fed <= Len(stream)
  BY SrcFacts DEF IInv
<1>2. head' = head /\ frames' = frames /\ mode' = "refused"
  BY DEF Refuse
<1>3. Boundary' = Boundary
  BY DEF Boundary
<1>4. \A e : DocumentEnd(e)' <=> DocumentEnd(e)
  BY <1>2, <1>3 DEF DocumentEnd, IsLeast
<1>5. RefusedNearLimit'
  BY <1>2, <1>4 DEF RefusedNearLimit, check_frame_len
<1>6. fed' \in fed .. Len(stream) /\ mode' \in Mode /\ mode' # "eof"
  BY <1>1, <1>2 DEF Mode
<1>. QED
  BY <1>2, <1>5, <1>6, StillStep

\* Splitting a document off and parsing it keeps the invariant.
LEMMA ParseStep ==
  ASSUME IInv, NEW end, CutAt(end), stream' = stream, fed' = fed,
         mode \in {"framing", "eof"}, Parse(end)
  PROVE  IInv'
<1>1. /\ frames' = Append(frames, [start |-> head, end |-> head + end])
      /\ head' = head + end /\ scanned' = 0
      /\ mode' \in {mode, "failed"}
  BY DEF Parse
<1>2. mode' \in Mode /\ mode' # "refused" /\ (mode' = "eof" => mode = "eof")
  BY <1>1 DEF Mode
<1>. QED
  BY <1>1, <1>2, CutStep

\* A turn of the loop that finds a boundary keeps the invariant.
LEMMA DecodeStep ==
  ASSUME IInv, NEW at_eof \in BOOLEAN, at_eof => fed = Len(stream),
         mode \in {"framing", "eof"}, decode_step(at_eof)
  PROVE  IInv'
<1>1. /\ Len(src) = fed - head /\ Len(stream) \in Nat /\ head \in Nat /\ fed \in Nat
      /\ head <= fed /\ fed <= Len(stream) /\ scanned \in Nat
  BY SrcFacts DEF IInv, TypeOK
<1>2. PICK end : /\ IsLeast(end, StreamingMarkers(src, ResumeAt, at_eof))
                 /\ IF ~check_frame_len(end) THEN Refuse /\ scanned' = ResumeAt
                    ELSE IF Blank(SubSeq(src, 1, end)) THEN Skip(end)
                    ELSE Parse(end)
                 /\ UNCHANGED <<stream, fed>>
  BY Zenon DEF decode_step
<1>3. /\ end \in Nat /\ end >= 1 /\ end + 3 <= Len(src)
      /\ head + end \in Boundary
      /\ \A p \in Boundary : head < p => head + end <= p
  BY <1>2, FoundIsBoundary
<1>4. stream' = stream /\ fed' = fed
  BY <1>2
<1>5. \A p \in Boundary : p \in Nat
  BY BoundaryFacts DEF IInv
<1>6. CutAt(end)
  <2>1. end <= Len(src)
    BY <1>1, <1>3
  <2>2. \A p \in Boundary : ~(head < p /\ p < head + end)
    BY <1>1, <1>3, <1>5
  <2>. QED BY <1>3, <2>1, <2>2 DEF CutAt
<1>7. CASE ~check_frame_len(end)
  <2>1. Refuse /\ scanned' = ResumeAt
    BY <1>2, <1>7
  <2>2. ResumeAt = scanned
    BY <1>1 DEF IInv, ScannedInBuffer, ResumeAt
  <2>3. scanned' \in Nat /\ head + scanned' <= fed
    BY <1>1, <2>1, <2>2 DEF IInv, ScannedInBuffer
  <2>4. \A p \in Boundary : ~(head < p /\ p < head + scanned')
    BY <2>1, <2>2 DEF IInv, ScannedIsFinal
  <2>5. ASSUME NEW e \in head .. Len(stream), DocumentEnd(e)
        PROVE  ~check_frame_len(e - head + 3)
    <3>1. head + end \in {p \in Boundary : p > head}
      BY <1>1, <1>3
    <3>2. IsLeast(e, {p \in Boundary : p > head})
      BY <2>5, <3>1 DEF DocumentEnd
    <3>3. e \in Boundary /\ e > head /\ e <= head + end
      BY <3>1, <3>2 DEF IsLeast
    <3>4. e = head + end
      BY <1>1, <1>3, <1>5, <3>3
    <3>. QED BY <1>1, <1>3, <1>7, <3>4, DecoderAssumption DEF check_frame_len
  <2>. QED BY <1>4, <2>1, <2>3, <2>4, <2>5, RefuseStep
<1>8. CASE check_frame_len(end) /\ Blank(SubSeq(src, 1, end))
  <2>1. Skip(end)
    BY <1>2, <1>8
  <2>2. head' = head + end /\ scanned' = 0 /\ frames' = frames /\ mode' = mode
    BY <2>1 DEF Skip
  <2>3. mode' \in Mode /\ mode' # "refused"
    BY <2>2 DEF Mode
  <2>. QED BY <1>4, <1>6, <1>8, <2>2, <2>3, CutStep
<1>9. CASE check_frame_len(end) /\ ~Blank(SubSeq(src, 1, end))
  <2>1. Parse(end)
    BY <1>2, <1>9
  <2>. QED BY <1>4, <1>6, <2>1, ParseStep
<1>. QED
  BY <1>7, <1>8, <1>9

\* Where the scan stops when it finds nothing: inside the buffer, at or
\* after where it resumed, and before every boundary to come.
LEMMA ScannedAfterStep ==
  ASSUME IInv, NEW at_eof \in BOOLEAN, at_eof => fed = Len(stream), NoBoundary(at_eof)
  PROVE  /\ ScannedAfter(at_eof) \in Nat /\ head + ScannedAfter(at_eof) <= fed
         /\ \A p \in Boundary : ~(head < p /\ p < head + ScannedAfter(at_eof))
<1>1. /\ Len(src) = fed - head /\ Len(stream) \in Nat /\ head \in Nat /\ fed \in Nat
      /\ head <= fed /\ fed <= Len(stream) /\ scanned \in Nat /\ head + scanned <= fed
  BY SrcFacts DEF IInv, TypeOK, ScannedInBuffer
<1>2. ResumeAt = scanned
  BY <1>1 DEF ResumeAt
<1>3. \/ ScannedAfter(at_eof) = scanned
      \/ ~at_eof /\ Len(src) >= 3 /\ ScannedAfter(at_eof) = Len(src) - 3
      \/ at_eof /\ Len(src) >= 2 /\ ScannedAfter(at_eof) = Len(src) - 2
  <2>1. CASE at_eof
    BY <1>1, <1>2, <2>1 DEF ScannedAfter
  <2>2. CASE ~at_eof
    BY <1>1, <1>2, <2>2 DEF ScannedAfter
  <2>. QED BY <2>1, <2>2
<1>4. ScannedAfter(at_eof) \in Nat /\ head + ScannedAfter(at_eof) <= fed
  BY <1>1, <1>3
<1>5. ASSUME NEW p \in Boundary, head < p, p < head + ScannedAfter(at_eof) PROVE FALSE
  <2>1. ~at_eof /\ p - head + 3 >= Len(src) /\ p \in Nat
    BY <1>5, NoneIsFinal, BoundaryFacts DEF IInv
  <2>2. ~(head < p /\ p < head + scanned)
    BY DEF IInv, ScannedIsFinal
  <2>. QED BY <1>1, <1>3, <1>5, <2>1, <2>2
<1>. QED
  BY <1>4, <1>5

\* When nothing is found and the buffer is over the cap, so is the document
\* at its head with three bytes to spare.
LEMMA NoneOverCap ==
  ASSUME IInv, NEW at_eof \in BOOLEAN, at_eof => fed = Len(stream), NoBoundary(at_eof),
         ~check_frame_len(Len(src)),
         NEW e \in head .. Len(stream), DocumentEnd(e)
  PROVE  ~check_frame_len(e - head + 3)
<1>1. /\ Len(src) = fed - head /\ Len(stream) \in Nat /\ head \in Nat /\ fed \in Nat
      /\ head <= fed /\ fed <= Len(stream)
  BY SrcFacts DEF IInv
<1>2. e - head + 3 >= Len(src)
  <2>1. CASE e \in Boundary /\ e > head
    <3>1. e \in Nat /\ head < e
      BY <1>1, <2>1, BoundaryFacts DEF IInv
    <3>. QED BY <2>1, <3>1, NoneIsFinal
  <2>2. CASE e = Len(stream)
    BY <1>1, <2>2
  <2>. QED BY <2>1, <2>2 DEF DocumentEnd, IsLeast
<1>. QED
  BY <1>1, <1>2, DecoderAssumption DEF check_frame_len

\* decode, when it finds no boundary, keeps the invariant.
LEMMA NoneStep ==
  ASSUME IInv, mode = "framing", decode_none
  PROVE  IInv'
<1>1. /\ NoBoundary(FALSE) /\ scanned' = ScannedAfter(FALSE)
      /\ stream' = stream /\ fed' = fed
  BY DEF decode_none
<1>2. /\ scanned' \in Nat /\ head + scanned' <= fed
      /\ \A p \in Boundary : ~(head < p /\ p < head + scanned')
  BY <1>1, ScannedAfterStep
<1>3. CASE ~check_frame_len(Len(src))
  <2>1. Refuse
    BY <1>3 DEF decode_none
  <2>2. \A e \in head .. Len(stream) : DocumentEnd(e) => ~check_frame_len(e - head + 3)
    BY <1>1, <1>3, NoneOverCap
  <2>. QED BY <1>1, <1>2, <2>1, <2>2, RefuseStep
<1>4. CASE check_frame_len(Len(src))
  <2>1. mode' = "reading" /\ head' = head /\ frames' = frames
    BY <1>4 DEF decode_none
  <2>2. mode' \in Mode /\ mode' # "eof" /\ RefusedNearLimit'
    BY <2>1 DEF Mode, RefusedNearLimit
  <2>3. fed' \in fed .. Len(stream)
    <3>1. fed \in Nat /\ Len(stream) \in Nat /\ fed <= Len(stream)
      BY SrcFacts DEF IInv
    <3>. QED BY <1>1, <3>1
  <2>. QED BY <1>1, <1>2, <2>1, <2>2, <2>3, StillStep
<1>. QED
  BY <1>3, <1>4

\* decode_eof, when it finds no boundary, keeps the invariant.
LEMMA RestStep ==
  ASSUME IInv, mode = "eof", decode_rest
  PROVE  IInv'
<1>1. NoBoundary(TRUE) /\ src # <<>> /\ stream' = stream /\ fed' = fed
  BY DEF decode_rest
<1>2. fed = Len(stream)
  BY DEF IInv, EofSeesAll
<1>3. /\ Len(src) = fed - head /\ Len(stream) \in Nat /\ head \in Nat /\ fed \in Nat
      /\ head <= fed /\ fed <= Len(stream)
  BY SrcFacts DEF IInv
<1>4. src \in Seq(Byte)
  <2>1. stream \in Seq(Byte) /\ \A i \in head + 1 .. fed : stream[i] \in Byte
    BY <1>3 DEF IInv, TypeOK
  <2>. QED BY <1>3, <2>1, SubSeqProperties DEF src
<1>5. CutAt(Len(src))
  <2>1. Len(src) \in Nat /\ Len(src) >= 1 /\ head + Len(src) = Len(stream)
    <3>1. Len(src) # 0
      BY <1>1, <1>4
    <3>. QED BY <1>2, <1>3, <3>1
  <2>2. \A p \in Boundary : ~(head < p)
    BY <1>1, <1>2, NoneIsFinal
  <2>. QED BY <1>3, <2>1, <2>2 DEF CutAt
<1>6. CASE ~check_frame_len(Len(src))
  <2>1. Refuse /\ scanned' = ScannedAfter(TRUE)
    BY <1>6 DEF decode_rest
  <2>2. \A e \in head .. Len(stream) : DocumentEnd(e) => ~check_frame_len(e - head + 3)
    BY <1>1, <1>2, <1>6, NoneOverCap
  <2>3. /\ scanned' \in Nat /\ head + scanned' <= fed
        /\ \A p \in Boundary : ~(head < p /\ p < head + scanned')
    BY <1>1, <1>2, <2>1, ScannedAfterStep
  <2>. QED BY <1>1, <2>1, <2>2, <2>3, RefuseStep
<1>7. CASE check_frame_len(Len(src)) /\ Blank(src)
  <2>1. head' = fed /\ scanned' = 0 /\ mode' = "done" /\ frames' = frames
    BY <1>7 DEF decode_rest
  <2>2. head' = head + Len(src)
    BY <1>3, <2>1
  <2>3. Blank(SubSeq(src, 1, Len(src)))
    <3>1. SubSeq(src, 1, Len(src)) = src
      BY <1>4
    <3>. QED BY <1>7, <3>1
  <2>4. mode' \in Mode /\ mode' # "refused" /\ mode' # "eof"
    BY <2>1 DEF Mode
  <2>. QED BY <1>1, <1>5, <2>1, <2>2, <2>3, <2>4, CutStep
<1>8. CASE check_frame_len(Len(src)) /\ ~Blank(src)
  <2>1. Parse(Len(src))
    BY <1>8 DEF decode_rest
  <2>. QED BY <1>1, <1>5, <2>1, ParseStep
<1>. QED
  BY <1>6, <1>7, <1>8

\* The last poll, with nothing left in the buffer, keeps the invariant.
LEMMA DoneStep ==
  ASSUME IInv, mode' = "done", UNCHANGED <<stream, fed, head, scanned, frames>>
  PROVE  IInv'
<1>1. fed \in Nat /\ Len(stream) \in Nat /\ fed <= Len(stream) /\ scanned \in Nat
  BY SrcFacts DEF IInv, TypeOK
<1>2. mode' \in Mode /\ RefusedNearLimit' /\ mode' # "eof"
  BY DEF Mode, RefusedNearLimit
<1>3. fed' \in fed .. Len(stream) /\ scanned' \in Nat /\ head + scanned' <= fed'
  BY <1>1 DEF IInv, ScannedInBuffer
<1>4. \A p \in Boundary : ~(head < p /\ p < head + scanned')
  BY DEF IInv, ScannedIsFinal
<1>. QED
  BY <1>2, <1>3, <1>4, StillStep

\* Every step of the decoder, stuttering included, keeps the invariant.
LEMMA NextInv == IInv /\ [Next]_vars => IInv'
<1>. SUFFICES ASSUME IInv, [Next]_vars PROVE IInv'
  OBVIOUS
<1>1. CASE Read \/ ReadEnd \/ ReadFails
  BY <1>1, ReadStep
<1>2. CASE decode
  <2>1. mode = "framing"
    BY <1>2 DEF decode
  <2>2. CASE decode_step(FALSE)
    BY <2>1, <2>2, DecodeStep
  <2>3. CASE decode_none
    BY <2>1, <2>3, NoneStep
  <2>. QED BY <1>2, <2>2, <2>3 DEF decode
<1>3. CASE decode_eof
  <2>1. mode = "eof" /\ fed = Len(stream)
    BY <1>3 DEF decode_eof, IInv, EofSeesAll
  <2>2. CASE decode_step(TRUE)
    BY <2>1, <2>2, DecodeStep
  <2>3. CASE decode_rest
    BY <2>1, <2>3, RestStep
  <2>4. CASE mode' = "done" /\ UNCHANGED <<stream, fed, head, scanned, frames>>
    BY <2>4, DoneStep
  <2>. QED BY <1>3, <2>2, <2>3, <2>4 DEF decode_eof
<1>4. CASE UNCHANGED vars
  BY <1>4 DEF vars, IInv, TypeOK, EofSeesAll, ScannedInBuffer, HeadIsBoundary,
              ScannedIsFinal, FramesBeforeHead, FramesAreDocuments, NothingLost,
              RefusedNearLimit, DocumentEnd, Boundary
<1>. QED
  BY <1>1, <1>2, <1>3, <1>4 DEF Next

-----------------------------------------------------------------------------
(* The theorems.                                                           *)

\* The inductive invariant holds in every state of every behaviour.
THEOREM Invariant == Spec => []IInv
<1>. QED
  BY InitInv, NextInv, PTL DEF Spec

\* The decoder's state has its type: the buffer is a part of the stream.
THEOREM TypeCorrect == Spec => []TypeOK
<1>1. IInv => TypeOK
  BY DEF IInv
<1>. QED
  BY <1>1, Invariant, PTL

\* For every stream and every way the reader cuts it into chunks, what the
\* decoder hands to the parser are the documents of the stream.
THEOREM FramesAreTheDocuments == Spec => []FramesAreDocuments
<1>1. IInv => FramesAreDocuments
  BY DEF IInv
<1>. QED
  BY <1>1, Invariant, PTL

\* The documents come in order, none twice, and no byte that is not
\* whitespace is dropped between or before them.
THEOREM NoByteLost == Spec => []NothingLost
<1>1. IInv => NothingLost
  BY DEF IInv
<1>. QED
  BY <1>1, Invariant, PTL

\* What the resumed scan skips holds no boundary, whatever bytes follow.
THEOREM ResumeIsSound == Spec => []ScannedIsFinal
<1>1. IInv => ScannedIsFinal
  BY DEF IInv
<1>. QED
  BY <1>1, Invariant, PTL

\* A document that fits the cap with three bytes to spare is not refused.
THEOREM RefusalNearLimit == Spec => []RefusedNearLimit
<1>1. IInv => RefusedNearLimit
  BY DEF IInv
<1>. QED
  BY <1>1, Invariant, PTL
=============================================================================
