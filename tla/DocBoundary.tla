---------------------------- MODULE DocBoundary ----------------------------
(***************************************************************************)
(* The `---` boundary scanner of doc_boundary.rs, which every entry point  *)
(* that splits a stream shares (parallel, recovery, the Tokio readers).    *)
(*                                                                         *)
(* Bytes are reduced to the classes the scanner tells apart: "-", the      *)
(* breaks "LF" and "CR", other whitespace "SP", "#" (which opens a comment *)
(* line, like `%` a directive), and "x" for everything else.  Offsets      *)
(* count from 0, as in the code, so the byte at offset i is b[i + 1].      *)
(***************************************************************************)
EXTENDS Naturals, Sequences

Break == {"LF", "CR"}
Whitespace == Break \cup {"SP"}
Byte == Whitespace \cup {"-", "#", "x"}

\* `---` at the start of a line, followed by whitespace or the end.
is_doc_marker_at(b, i) ==
  /\ i + 3 <= Len(b)
  /\ \A k \in 1 .. 3 : b[i + k] = "-"
  /\ i = 0 \/ b[i] \in Break
  /\ i + 3 = Len(b) \/ b[i + 4] \in Whitespace

\* marker_at_or_after: the offsets it may return; it returns the least.
Markers(b, start) == {i \in start .. Len(b) : is_doc_marker_at(b, i)}

\* Mutant: a `---` at the end of the buffer is taken for a marker at once.
StreamingMarkersEager(b, start, at_eof) ==
  Markers(b, IF start = 0 THEN 1 ELSE start)

\* next_marker_after_streaming: a `---` at the end of the buffer is only
\* decided once the next byte or the end of the stream is seen.
StreamingMarkers(b, start, at_eof) ==
  {i \in Markers(b, IF start = 0 THEN 1 ELSE start) : at_eof \/ i + 3 # Len(b)}

\* i is the least element of S, a set of offsets.
IsLeast(i, S) == i \in S /\ \A j \in S : i <= j

\* trim().is_empty() and all(is_ascii_whitespace).
Blank(b) == \A i \in 1 .. Len(b) : b[i] \in Whitespace

\* prologue_has_content: some line's first character that is not
\* whitespace opens neither a comment nor a directive.  str::lines splits
\* at "LF" only.
prologue_has_content(b) ==
  \E i \in 1 .. Len(b) :
    /\ b[i] \notin Whitespace \cup {"#"}
    /\ \E k \in 1 .. i :
         /\ k = 1 \/ b[k - 1] = "LF"
         /\ \A j \in k .. i - 1 : b[j] \in Whitespace
=============================================================================
