---------------------------- MODULE YamlDecoder ----------------------------
(***************************************************************************)
(* The streaming decoder of tokio_async.rs: YamlDecoder, which cuts a byte *)
(* stream into documents, driven by tokio_util's FramedRead (external).    *)
(*                                                                         *)
(* The stream is fixed in Init; the reader delivers it in chunks of any    *)
(* size.  The buffer `src` is the part of the stream between `head`, up to *)
(* which documents were split off, and `fed`, up to which it was read.     *)
(* Parsing a document (from_slice_with_config) succeeds or fails.          *)
(***************************************************************************)
EXTENDS DocBoundary

CONSTANTS
  Streams,            \* the byte streams considered
  MaxFrameSize,       \* max_frame_size
  MaxDocumentLength   \* max_document_length

ASSUME DecoderAssumption ==
  /\ Streams \subseteq Seq(Byte)
  /\ MaxFrameSize \in Nat /\ MaxDocumentLength \in Nat

VARIABLES
  stream,    \* all the bytes the reader will deliver
  fed,       \* how many of them are read
  head,      \* how many were split off the buffer
  scanned,   \* YamlDecoder::scanned, an offset in the buffer
  mode,      \* what FramedRead does next
  frames     \* the documents split off and parsed: [start, end)

vars == <<stream, fed, head, scanned, mode, frames>>

src == SubSeq(stream, head + 1, fed)

Init ==
  /\ stream \in Streams
  /\ fed = 0 /\ head = 0 /\ scanned = 0
  /\ mode = "reading"
  /\ frames = <<>>

-----------------------------------------------------------------------------
\* FramedRead: a read delivers some bytes, reports the end, or fails.
Read ==
  /\ mode = "reading" /\ fed < Len(stream)
  /\ fed' \in fed + 1 .. Len(stream)
  /\ mode' = "framing"
  /\ UNCHANGED <<stream, head, scanned, frames>>

ReadEnd ==
  /\ mode = "reading" /\ fed = Len(stream)
  /\ mode' = "eof"
  /\ UNCHANGED <<stream, fed, head, scanned, frames>>

ReadFails ==
  /\ mode = "reading"
  /\ mode' = "failed"
  /\ UNCHANGED <<stream, fed, head, scanned, frames>>

-----------------------------------------------------------------------------
check_frame_len(n) == n <= MaxFrameSize /\ n <= MaxDocumentLength

\* The scan resumes where the last one on this buffer stopped.
ResumeAt == IF scanned > Len(src) THEN 0 ELSE scanned

\* next_boundary found nothing: offsets before the last three bytes (two
\* at the end of the stream) have had their final answer.
ScannedAfter(at_eof) ==
  LET tail  == IF at_eof THEN 2 ELSE 3
      final == IF Len(src) < tail THEN 0 ELSE Len(src) - tail
  IN  IF final > ResumeAt THEN final ELSE ResumeAt

\* The document before offset `end` is split off and parsed; a parse error
\* ends the stream.
Parse(end) ==
  /\ frames' = Append(frames, [start |-> head, end |-> head + end])
  /\ head' = head + end
  /\ scanned' = 0
  /\ mode' \in {mode, "failed"}

\* Mutant: the marker is dropped with the whitespace before it.
SkipMarker(end) ==
  /\ head' = head + end + 3
  /\ scanned' = 0
  /\ UNCHANGED <<frames, mode>>

\* Whitespace before the first document is dropped and the loop goes on.
Skip(end) ==
  /\ head' = head + end
  /\ scanned' = 0
  /\ UNCHANGED <<frames, mode>>

\* The cap is exceeded: nothing is split off, the stream ends.
Refuse ==
  /\ mode' = "refused"
  /\ UNCHANGED <<head, frames>>

\* decode_step finds a boundary: one turn of its loop.
decode_step(at_eof) ==
  \E end \in StreamingMarkers(src, ResumeAt, at_eof) :
    /\ IsLeast(end, StreamingMarkers(src, ResumeAt, at_eof))
    /\ IF ~check_frame_len(end) THEN Refuse /\ scanned' = ResumeAt
       ELSE IF Blank(SubSeq(src, 1, end)) THEN Skip(end)
       ELSE Parse(end)
    /\ UNCHANGED <<stream, fed>>

NoBoundary(at_eof) == StreamingMarkers(src, ResumeAt, at_eof) = {}

\* decode: no boundary yet, more bytes are needed.
decode_none ==
  /\ NoBoundary(FALSE)
  /\ scanned' = ScannedAfter(FALSE)
  /\ IF ~check_frame_len(Len(src)) THEN Refuse
     ELSE mode' = "reading" /\ UNCHANGED <<head, frames>>
  /\ UNCHANGED <<stream, fed>>

decode == mode = "framing" /\ (decode_step(FALSE) \/ decode_none)

\* Mutant: whitespace at the end is not cleared.
decode_rest_kept ==
  /\ src # <<>>
  /\ NoBoundary(TRUE)
  /\ ~Blank(src)
  /\ IF ~check_frame_len(Len(src)) THEN Refuse /\ scanned' = ScannedAfter(TRUE)
     ELSE Parse(Len(src))
  /\ UNCHANGED <<stream, fed>>

\* decode_eof: no boundary is left, the rest is the last document.
decode_rest ==
  /\ src # <<>>
  /\ NoBoundary(TRUE)
  /\ IF ~check_frame_len(Len(src)) THEN Refuse /\ scanned' = ScannedAfter(TRUE)
     ELSE IF Blank(src)
     THEN head' = fed /\ scanned' = 0 /\ mode' = "done" /\ UNCHANGED frames
     ELSE Parse(Len(src))
  /\ UNCHANGED <<stream, fed>>

decode_eof ==
  /\ mode = "eof"
  /\ \/ src # <<>> /\ decode_step(TRUE)
     \/ decode_rest
     \/ src = <<>> /\ mode' = "done" /\ UNCHANGED <<stream, fed, head, scanned, frames>>

Next == Read \/ ReadEnd \/ ReadFails \/ decode \/ decode_eof

Spec == Init /\ [][Next]_vars

\* The consumer keeps polling, and a poll of FramedRead makes every step
\* but the read itself; a reader that is never ready is not considered.
FairSpec == Spec /\ WF_vars(Next)

-----------------------------------------------------------------------------
(* Properties.                                                             *)

Mode == {"reading", "framing", "eof", "done", "failed", "refused"}

\* Every variable has its type; the buffer is a part of the stream.
TypeOK ==
  /\ stream \in Seq(Byte)
  /\ fed \in 0 .. Len(stream)
  /\ head \in 0 .. fed
  /\ scanned \in Nat
  /\ mode \in Mode
  /\ frames \in Seq([start : Nat, end : Nat])

\* Where one document ends and the next begins, known only to who sees the
\* whole stream.
Boundary == Markers(stream, 1)

\* However the stream was cut into reads, each document handed to the
\* parser begins and ends at a boundary of the stream and has none inside.
FramesAreDocuments ==
  \A n \in DOMAIN frames :
    LET f == frames[n] IN
    /\ f.start < f.end
    /\ f.start \in Boundary \cup {0}
    /\ f.end \in Boundary \cup {Len(stream)}
    /\ \A p \in Boundary : ~(f.start < p /\ p < f.end)

\* Documents come in the order of the stream, none twice, and the bytes
\* between and before them are whitespace: none is lost.
NothingLost ==
  /\ \A n \in 1 .. Len(frames) - 1 : frames[n].end <= frames[n + 1].start
  /\ \A i \in 1 .. head :
       \/ stream[i] \in Whitespace
       \/ \E n \in DOMAIN frames : frames[n].start < i /\ i <= frames[n].end

\* The offsets the scan will not look at again hold no boundary, whatever
\* bytes are still to come ("every position before `len - 3` has had its
\* final answer once scanned").
ScannedIsFinal == \A p \in Boundary : ~(head < p /\ p < head + scanned)

\* The document at the head of the buffer ends at e.
DocumentEnd(e) ==
  \/ IsLeast(e, {p \in Boundary : p > head})
  \/ {p \in Boundary : p > head} = {} /\ e = Len(stream)

\* A document is refused only near its limit: one that fits with the three
\* bytes of an undecided marker to spare is never refused.
RefusedNearLimit ==
  mode = "refused" =>
    \A e \in head .. Len(stream) : DocumentEnd(e) => ~check_frame_len(e - head + 3)

\* A stream that is polled comes to its end.
Ends == <>(mode \in {"done", "failed", "refused"})
=============================================================================
