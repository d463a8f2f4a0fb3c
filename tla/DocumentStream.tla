--------------------------- MODULE DocumentStream ---------------------------
(***************************************************************************)
(* The DocumentStream iterator of doc_boundary.rs: the slices, one per     *)
(* document, that a stream is split into before the documents are parsed   *)
(* one by one.  The consumer calls next() until it returns None.           *)
(*                                                                         *)
(* An Option is the set of its value: {} is None.                          *)
(***************************************************************************)
EXTENDS DocBoundary, FiniteSets

CONSTANTS
  Inputs,         \* the texts considered
  MaxDocuments    \* max_documents

ASSUME StreamAssumption == Inputs \subseteq Seq(Byte) /\ MaxDocuments \in Nat

VARIABLES
  input,
  pending,         \* Option of the slice to return first
  current_start,   \* Option of the start of the document being scanned
  search_from,
  yielded,
  exhausted,
  slices,          \* the slices returned: [start, end)
  last,            \* what the last call returned
  refused          \* ghost: the budget error was returned

vars == <<input, pending, current_start, search_from, yielded, exhausted, slices, last,
          refused>>

Slice(s, e) == [start |-> s, end |-> e]
Text(s, e) == SubSeq(input, s + 1, e)

\* Whether the text before the first marker is a document of its own.
PrologueIsDocument(b) == prologue_has_content(b)

\* new(): the text before the first marker is a document of its own when
\* it has content, otherwise part of the first one.
Opened(p, c, f) == pending = p /\ current_start = c /\ search_from = f

Init ==
  /\ input \in Inputs
  /\ \/ /\ Markers(input, 0) = {}
        /\ Opened(IF Blank(input) THEN {} ELSE {Slice(0, Len(input))}, {}, Len(input))
     \/ \E m \in Markers(input, 0) :
          /\ IsLeast(m, Markers(input, 0))
          /\ IF m > 0 /\ PrologueIsDocument(Text(0, m))
             THEN Opened({Slice(0, m)}, {m}, m + 3)
             ELSE Opened({}, {0}, m + 3)
  /\ yielded = 0 /\ exhausted = FALSE
  /\ slices = <<>>
  /\ last = "none" /\ refused = FALSE

\* Mutant: the limit itself is refused.
emit_at_limit(s, e, end) ==
  IF yielded + 1 >= MaxDocuments
  THEN /\ exhausted' = TRUE /\ last' = "error" /\ refused' = TRUE
       /\ UNCHANGED <<slices, yielded>>
  ELSE /\ slices' = Append(slices, Slice(s, e))
       /\ yielded' = yielded + 1
       /\ last' = "slice"
       /\ exhausted' = end
       /\ UNCHANGED refused

\* emit: a slice (`end`: it is the last one), or the budget error, after
\* which there is nothing.
emit(s, e, end) ==
  IF yielded + 1 > MaxDocuments
  THEN /\ exhausted' = TRUE /\ last' = "error" /\ refused' = TRUE
       /\ UNCHANGED <<slices, yielded>>
  ELSE /\ slices' = Append(slices, Slice(s, e))
       /\ yielded' = yielded + 1
       /\ last' = "slice"
       /\ exhausted' = end
       /\ UNCHANGED refused

ReturnNone ==
  /\ exhausted' = TRUE /\ last' = "end"
  /\ UNCHANGED <<slices, yielded, refused>>

next_pending ==
  /\ ~exhausted
  /\ \E p \in pending : emit(p.start, p.end, FALSE)
  /\ pending' = {}
  /\ UNCHANGED <<input, current_start, search_from>>

\* Mutant: the marker is trimmed from the document it opens.
next_marker_trimmed ==
  /\ ~exhausted /\ pending = {}
  /\ \E start \in current_start, m \in Markers(input, search_from) :
       /\ IsLeast(m, Markers(input, search_from))
       /\ current_start' = {m + 3}
       /\ search_from' = m + 3
       /\ emit(start, m, FALSE)
  /\ UNCHANGED <<input, pending>>

\* Up to the next marker.
next_marker ==
  /\ ~exhausted /\ pending = {}
  /\ \E start \in current_start, m \in Markers(input, search_from) :
       /\ IsLeast(m, Markers(input, search_from))
       /\ current_start' = {m}
       /\ search_from' = m + 3
       /\ emit(start, m, FALSE)
  /\ UNCHANGED <<input, pending>>

\* The last document, if there is anything in it; then the end.
next_last ==
  /\ ~exhausted /\ pending = {}
  /\ Markers(input, search_from) = {}
  /\ \E start \in current_start :
       IF start < Len(input) /\ ~Blank(Text(start, Len(input)))
       THEN emit(start, Len(input), TRUE)
       ELSE ReturnNone
  /\ current_start' = {}
  /\ UNCHANGED <<input, pending, search_from>>

\* A call after the last document, or after the error.
next_none ==
  /\ last # "end"
  /\ exhausted \/ (pending = {} /\ current_start = {})
  /\ ReturnNone
  /\ UNCHANGED <<input, pending, current_start, search_from>>

Next == next_pending \/ next_marker \/ next_last \/ next_none

Spec == Init /\ [][Next]_vars

-----------------------------------------------------------------------------
(* Properties.                                                             *)

\* A marker is the first byte of a slice, except the first marker, which
\* may have comments before it.
MarkersSeparate ==
  \A n \in DOMAIN slices : \A m \in Markers(input, 0) :
    slices[n].start < m /\ m < slices[n].end =>
      /\ n = 1 /\ IsLeast(m, Markers(input, 0))
      /\ ~prologue_has_content(Text(0, m))

\* The slices follow each other without gap or overlap from the start of
\* the text, and when the stream ends without an error what is left over
\* is whitespace (the test document_stream_preserves_exact_partitions);
\* and no document hides behind another.
Partition ==
  /\ MarkersSeparate
  /\ \A n \in DOMAIN slices :
       /\ slices[n].start = IF n = 1 THEN 0 ELSE slices[n - 1].end
       /\ slices[n].start < slices[n].end
  /\ last = "end" /\ ~refused =>
       Blank(Text(IF slices = <<>> THEN 0 ELSE slices[Len(slices)].end, Len(input)))

\* Where the documents of the text start, read off the whole text.
DocumentStarts ==
  IF Blank(input) THEN {}
  ELSE {0} \cup {m \in Markers(input, 0) :
                   IsLeast(m, Markers(input, 0)) => prologue_has_content(Text(0, m))}

\* A stream is refused exactly when it has more documents than
\* max_documents: the budget neither truncates it nor refuses its limit.
RefusedExactly ==
  last = "end" => (refused <=> Cardinality(DocumentStarts) > MaxDocuments)
=============================================================================
