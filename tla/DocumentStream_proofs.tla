----------------------- MODULE DocumentStream_proofs -----------------------
(***************************************************************************)
(* Proofs about the DocumentStream iterator, for every text and every      *)
(* document limit: the slices partition the text at its markers, and a     *)
(* stream is refused exactly when it has more documents than the limit.    *)
(*                                                                         *)
(* The slices returned so far cover the text up to one offset (Covered).   *)
(* A call moves that offset to the end of the next document, and the       *)
(* document starts before it are as many as the slices, so the limit on    *)
(* slices is a limit on documents.                                         *)
(***************************************************************************)
EXTENDS DocumentStream, FiniteSetTheorems, SequenceTheorems, TLAPS

-----------------------------------------------------------------------------
(* The inductive invariant.                                                *)

Types ==
  /\ input \in Inputs
  /\ pending \subseteq [start : Nat, end : Nat]
  /\ current_start \subseteq Nat /\ search_from \in Nat
  /\ yielded \in Nat /\ exhausted \in BOOLEAN /\ refused \in BOOLEAN
  /\ slices \in Seq([start : Nat, end : Nat])

\* Where the slices returned so far end.
Covered == IF slices = <<>> THEN 0 ELSE slices[Len(slices)].end

\* The slices follow each other, and none is empty.
Contiguous ==
  \A n \in DOMAIN slices :
    /\ slices[n].start = IF n = 1 THEN 0 ELSE slices[n - 1].end
    /\ slices[n].start < slices[n].end
    /\ slices[n].end <= Len(input)

\* The documents that start in what is covered.
Seen == {d \in DocumentStarts : d < Covered}

\* As many slices as documents, and no more than the limit.
Counted ==
  /\ yielded <= MaxDocuments
  /\ IsFiniteSet(Seen) /\ Cardinality(Seen) = yielded

\* The error comes at the limit, with a document still to come.
RefusedAtLimit ==
  refused => /\ exhausted /\ yielded = MaxDocuments
             /\ \E d \in DocumentStarts : Covered <= d

\* A prologue waiting to be returned is the whole text, or the text before
\* the first marker, where the next document starts.
PrologueWaits ==
  \A p \in pending :
    /\ slices = <<>> /\ ~refused /\ p.start = 0
    /\ \/ /\ Markers(input, 0) = {} /\ ~Blank(input)
          /\ p.end = Len(input) /\ current_start = {}
       \/ /\ IsLeast(p.end, Markers(input, 0)) /\ 0 < p.end
          /\ prologue_has_content(Text(0, p.end)) /\ current_start = {p.end}

\* m is a first marker that opens no document of its own.
Absorbed(m) == IsLeast(m, Markers(input, 0)) /\ ~prologue_has_content(Text(0, m))

\* The document being scanned starts where the slices end, and the search
\* has passed no marker after it but one the first document absorbs.
Scanning ==
  ~refused =>
    \A c \in current_start :
      /\ c < search_from /\ c \in DocumentStarts
      /\ \E m \in Markers(input, 0) : c <= m /\ m < search_from
      /\ pending = {} => c = Covered
      /\ \A m \in Markers(input, 0) :
           m < search_from => m <= c \/ (slices = <<>> /\ c = 0 /\ Absorbed(m))

\* When nothing is waiting or being scanned, no document is left.
Ending ==
  /\ last = "end" => exhausted
  /\ exhausted /\ ~refused => pending = {} /\ current_start = {}
  /\ ~refused /\ pending = {} /\ current_start = {} =>
       /\ \A d \in DocumentStarts : d < Covered
       /\ Blank(Text(Covered, Len(input)))

IInv ==
  /\ Types /\ Contiguous /\ MarkersSeparate /\ Counted /\ RefusedAtLimit
  /\ PrologueWaits /\ Scanning /\ Ending

-----------------------------------------------------------------------------
(* Markers and document starts.                                            *)

LEMMA InputFacts ==
  ASSUME Types
  PROVE  input \in Seq(Byte) /\ Len(input) \in Nat
<1>1. input \in Seq(Byte)
  BY StreamAssumption DEF Types
<1>. QED
  BY <1>1

\* A marker is a line of its own, of at least three bytes.
LEMMA MarkerFacts ==
  ASSUME Types, NEW m
  PROVE  m \in Markers(input, 0) <=> m \in Nat /\ is_doc_marker_at(input, m)
<1>1. Len(input) \in Nat
  BY InputFacts
<1>2. ASSUME m \in Nat, is_doc_marker_at(input, m) PROVE m <= Len(input)
  <2>1. m + 3 <= Len(input)
    BY <1>2 DEF is_doc_marker_at
  <2>. QED BY <1>1, <1>2, <2>1
<1>. QED
  BY <1>1, <1>2 DEF Markers

LEMMA MarkerFits ==
  ASSUME Types, NEW m \in Markers(input, 0)
  PROVE  m \in Nat /\ m + 3 <= Len(input) /\ input[m + 1] = "-"
<1>1. m \in Nat /\ is_doc_marker_at(input, m)
  BY MarkerFacts
<1>. QED
  BY <1>1 DEF is_doc_marker_at

\* The markers at or after an offset are the markers from there on.
LEMMA MarkersFrom ==
  ASSUME Types, NEW f \in Nat, NEW m
  PROVE  m \in Markers(input, f) <=> m \in Markers(input, 0) /\ f <= m
<1>1. Len(input) \in Nat
  BY InputFacts
<1>. QED
  BY <1>1 DEF Markers

\* No marker starts inside another: its first byte would follow a `-`.
LEMMA MarkersApart ==
  ASSUME Types, NEW a \in Markers(input, 0), NEW b \in Markers(input, 0), a < b
  PROVE  a + 3 <= b
<1>1. /\ a \in Nat /\ b \in Nat
      /\ is_doc_marker_at(input, a) /\ is_doc_marker_at(input, b)
  BY MarkerFacts
<1>2. input[b] \in Break
  BY <1>1 DEF is_doc_marker_at
<1>3. input[a + 1] = "-" /\ input[a + 2] = "-" /\ input[a + 3] = "-"
  BY <1>1 DEF is_doc_marker_at
<1>4. "-" \notin Break
  BY DEF Break
<1>5. b # a + 1 /\ b # a + 2 /\ b # a + 3
  BY <1>2, <1>3, <1>4
<1>. QED
  BY <1>1, <1>5

\* The least marker at or after f is the next one, and the search resumes
\* past it without passing another.
LEMMA NextMarker ==
  ASSUME Types, NEW f \in Nat, NEW m, IsLeast(m, Markers(input, f))
  PROVE  /\ m \in Markers(input, 0) /\ m \in Nat /\ f <= m
         /\ \A k \in Markers(input, 0) : k < m => k < f
         /\ \A k \in Markers(input, 0) : k < m + 3 => k <= m
<1>1. m \in Markers(input, f) /\ \A k \in Markers(input, f) : m <= k
  BY DEF IsLeast
<1>2. m \in Markers(input, 0) /\ f <= m /\ m \in Nat
  BY <1>1, MarkersFrom, MarkerFits
<1>3. ASSUME NEW k \in Markers(input, 0), k < m PROVE k < f
  <2>1. k \in Nat
    BY MarkerFits
  <2>2. k \notin Markers(input, f)
    BY <1>1, <1>2, <1>3, <2>1
  <2>3. ~(f <= k)
    BY <2>2, MarkersFrom
  <2>. QED BY <2>1, <2>3
<1>4. ASSUME NEW k \in Markers(input, 0), k < m + 3 PROVE k <= m
  <2>1. k \in Nat
    BY MarkerFits
  <2>2. m < k => m + 3 <= k
    BY <1>2, MarkersApart
  <2>. QED BY <1>2, <1>4, <2>1, <2>2
<1>. QED
  BY <1>2, <1>3, <1>4

\* What is left from c on, byte by byte.
LEMMA RestFacts ==
  ASSUME Types, NEW c \in 0 .. Len(input)
  PROVE  /\ Len(Text(c, Len(input))) = Len(input) - c
         /\ \A k \in 1 .. Len(input) - c : Text(c, Len(input))[k] = input[c + k]
<1>1. input \in Seq(Byte) /\ Len(input) \in Nat /\ c \in Nat /\ c <= Len(input)
  BY InputFacts
<1>2. \A i \in c + 1 .. Len(input) : input[i] \in Byte
  BY <1>1
<1>3. /\ Len(Text(c, Len(input)))
           = IF c + 1 <= Len(input) THEN Len(input) - (c + 1) + 1 ELSE 0
      /\ \A i \in 1 .. Len(input) - (c + 1) + 1 :
           Text(c, Len(input))[i] = input[c + 1 + i - 1]
  BY <1>1, <1>2, SubSeqProperties DEF Text
<1>. QED
  BY <1>1, <1>3

\* A text with a marker in it is not blank.
LEMMA MarkerIsContent ==
  ASSUME Types, NEW m \in Markers(input, 0), NEW c \in Nat, c <= m
  PROVE  c < Len(input) /\ ~Blank(Text(c, Len(input)))
<1>1. m \in Nat /\ m + 3 <= Len(input) /\ input[m + 1] = "-" /\ Len(input) \in Nat
  BY MarkerFits, InputFacts
<1>2. c \in 0 .. Len(input) /\ m + 1 - c \in 1 .. Len(input) - c /\ c + (m + 1 - c) = m + 1
  BY <1>1
<1>3. Text(c, Len(input))[m + 1 - c] = "-" /\ m + 1 - c \in 1 .. Len(Text(c, Len(input)))
  BY <1>1, <1>2, RestFacts
<1>4. "-" \notin Whitespace
  BY DEF Whitespace, Break
<1>5. ~Blank(Text(c, Len(input)))
  BY <1>3, <1>4 DEF Blank
<1>. QED
  BY <1>1, <1>5

\* Nothing is left after the end.
LEMMA EndIsBlank ==
  ASSUME Types
  PROVE  Blank(Text(Len(input), Len(input)))
<1>1. Len(Text(Len(input), Len(input))) = 0
  BY InputFacts, RestFacts
<1>. QED
  BY <1>1 DEF Blank

\* The whole text, cut from its start.
LEMMA WholeText ==
  ASSUME Types
  PROVE  Blank(Text(0, Len(input))) <=> Blank(input)
<1>1. /\ Len(Text(0, Len(input))) = Len(input) /\ Len(input) \in Nat
      /\ \A k \in 1 .. Len(input) : Text(0, Len(input))[k] = input[k]
  BY InputFacts, RestFacts
<1>. QED
  BY <1>1 DEF Blank

\* An empty prologue has no content.
LEMMA EmptyPrologue ==
  ASSUME Types
  PROVE  ~prologue_has_content(Text(0, 0))
<1>1. Text(0, 0) = <<>>
  BY InputFacts DEF Text
<1>2. Len(Text(0, 0)) = 0
  BY <1>1
<1>. QED
  BY <1>2 DEF prologue_has_content

\* With a marker in the text, the documents start at 0 and at every marker
\* that the first document does not absorb.
LEMMA StartsFacts ==
  ASSUME Types, NEW m \in Markers(input, 0), NEW d
  PROVE  d \in DocumentStarts <=> d = 0 \/ (d \in Markers(input, 0) /\ ~Absorbed(d))
<1>1. ~Blank(input)
  BY MarkerIsContent, MarkerFits, WholeText
<1>. QED
  BY <1>1 DEF DocumentStarts, Absorbed

\* Every document starts in the text.
LEMMA StartsInText ==
  ASSUME Types, NEW d \in DocumentStarts
  PROVE  d \in Nat /\ d < Len(input)
<1>1. CASE Markers(input, 0) = {}
  <2>1. ~Blank(input) /\ d = 0
    BY <1>1 DEF DocumentStarts
  <2>2. Len(input) # 0
    BY <2>1 DEF Blank
  <2>. QED BY <2>1, <2>2, InputFacts
<1>2. CASE Markers(input, 0) # {}
  <2>1. PICK m \in Markers(input, 0) : TRUE
    BY <1>2
  <2>2. d = 0 \/ d \in Markers(input, 0)
    BY <2>1, StartsFacts
  <2>. QED BY <2>1, <2>2, MarkerFits, InputFacts
<1>. QED
  BY <1>1, <1>2

-----------------------------------------------------------------------------
(* What one emitted slice does.                                            *)

\* A text that does not change keeps its document starts.
LEMMA SameText ==
  ASSUME input' = input
  PROVE  /\ DocumentStarts' = DocumentStarts
         /\ \A s, e : Text(s, e)' = Text(s, e)
         /\ \A m : Absorbed(m)' <=> Absorbed(m)
<1>1. \A s, e : Text(s, e)' = Text(s, e)
  BY DEF Text
<1>. QED
  BY <1>1 DEF DocumentStarts, Absorbed

\* Covered is an offset of the text.
LEMMA CoveredFacts ==
  ASSUME Types, Contiguous
  PROVE  /\ Covered \in 0 .. Len(input)
         /\ slices # <<>> => Covered > 0 /\ Len(slices) \in DOMAIN slices
<1>1. Len(input) \in Nat
  BY InputFacts
<1>2. CASE slices = <<>>
  BY <1>1, <1>2 DEF Covered
<1>3. CASE slices # <<>>
  <2>1. slices \in Seq([start : Nat, end : Nat])
    BY DEF Types
  <2>2. Len(slices) \in 1 .. Len(slices) /\ DOMAIN slices = 1 .. Len(slices)
    BY <1>3, <2>1
  <2>3. slices[Len(slices)] \in [start : Nat, end : Nat]
    BY <2>1, <2>2, ElementOfSeq
  <2>4. Covered = slices[Len(slices)].end
    BY <1>3 DEF Covered
  <2>5. slices[Len(slices)].start < slices[Len(slices)].end /\ slices[Len(slices)].end <= Len(input)
    BY <2>2 DEF Contiguous
  <2>. QED BY <1>1, <2>2, <2>3, <2>4, <2>5
<1>. QED
  BY <1>2, <1>3

\* The only document that starts in a slice cut at the right places is the
\* one it starts with.
LEMMA OneStart ==
  ASSUME Types, NEW s \in Nat, NEW e \in Nat,
         \A m \in Markers(input, 0) : s < m /\ m < e => Absorbed(m),
         NEW d \in DocumentStarts, s <= d, d < e
  PROVE  d = s
<1>1. SUFFICES ASSUME s < d PROVE FALSE
  BY StartsInText
<1>2. d \in Markers(input, 0)
  BY <1>1, StartsInText DEF DocumentStarts
<1>3. ~Absorbed(d)
  BY <1>1, <1>2, StartsFacts
<1>. QED
  BY <1>1, <1>2, <1>3

\* The budget error: nothing more is returned, and a document is left.
LEMMA RefuseStep ==
  ASSUME IInv, ~refused, NEW s, NEW e, NEW end,
         s = Covered, s \in DocumentStarts,
         emit(s, e, end), yielded + 1 > MaxDocuments, input' = input
  PROVE  /\ slices' = slices /\ yielded' = yielded /\ exhausted' = TRUE /\ refused' = TRUE
         /\ last' = "error"
         /\ Contiguous' /\ MarkersSeparate' /\ Counted' /\ RefusedAtLimit'
<1>1. /\ slices' = slices /\ yielded' = yielded /\ exhausted' = TRUE /\ refused' = TRUE
      /\ last' = "error"
  BY DEF emit
<1>2. Types /\ Contiguous /\ MarkersSeparate /\ Counted
  BY DEF IInv
<1>3. Covered' = Covered /\ Seen' = Seen
  BY <1>1, SameText DEF Covered, Seen
<1>4. Contiguous'
  BY <1>1, <1>2 DEF Contiguous
<1>5. MarkersSeparate'
  BY <1>1, <1>2, SameText DEF MarkersSeparate, Absorbed
<1>6. Counted'
  BY <1>1, <1>2, <1>3 DEF Counted
<1>7. yielded = MaxDocuments
  BY <1>2, StreamAssumption DEF Counted, Types
<1>8. Covered <= s
  BY <1>2, CoveredFacts, InputFacts
<1>9. RefusedAtLimit'
  BY <1>1, <1>3, <1>7, <1>8, SameText DEF RefusedAtLimit
<1>. QED
  BY <1>1, <1>4, <1>5, <1>6, <1>9

\* The slices with one more.
LEMMA AppendFacts ==
  ASSUME Types, NEW s \in Nat, NEW e \in Nat, slices' = Append(slices, Slice(s, e))
  PROVE  /\ slices' \in Seq([start : Nat, end : Nat])
         /\ DOMAIN slices' = 1 .. Len(slices) + 1 /\ DOMAIN slices = 1 .. Len(slices)
         /\ Len(slices) \in Nat
         /\ \A n \in 1 .. Len(slices) : slices'[n] = slices[n]
         /\ slices'[Len(slices) + 1].start = s /\ slices'[Len(slices) + 1].end = e
         /\ slices' # <<>> /\ Covered' = e
<1>1. slices \in Seq([start : Nat, end : Nat]) /\ Slice(s, e) \in [start : Nat, end : Nat]
  BY DEF Types, Slice
<1>2. Slice(s, e).start = s /\ Slice(s, e).end = e
  BY DEF Slice
<1>3. /\ slices' \in Seq([start : Nat, end : Nat]) /\ Len(slices') = Len(slices) + 1
      /\ \A n \in 1 .. Len(slices) : slices'[n] = slices[n]
      /\ slices'[Len(slices) + 1] = Slice(s, e)
  BY <1>1, AppendProperties
<1>4. Len(slices) \in Nat /\ DOMAIN slices = 1 .. Len(slices) /\ DOMAIN slices' = 1 .. Len(slices')
  BY <1>1, <1>3
<1>5. slices' # <<>>
  BY <1>3, <1>4
<1>6. Covered' = e
  BY <1>2, <1>3, <1>5 DEF Covered
<1>. QED
  BY <1>2, <1>3, <1>4, <1>5, <1>6

\* A slice returned: it starts where the last one ended and holds the start
\* of one document.
LEMMA EmitStep ==
  ASSUME IInv, ~refused, NEW s \in Nat, NEW e \in Nat, NEW end \in BOOLEAN,
         s = Covered, s \in DocumentStarts, s < e, e <= Len(input),
         \A m \in Markers(input, 0) : s < m /\ m < e => slices = <<>> /\ s = 0 /\ Absorbed(m),
         emit(s, e, end), ~(yielded + 1 > MaxDocuments), input' = input
  PROVE  /\ slices' \in Seq([start : Nat, end : Nat]) /\ slices' # <<>> /\ Covered' = e
         /\ yielded' \in Nat /\ exhausted' = end /\ refused' = FALSE /\ last' = "slice"
         /\ Contiguous' /\ MarkersSeparate' /\ Counted' /\ RefusedAtLimit'
<1>1. Types /\ Contiguous /\ MarkersSeparate /\ Counted
  BY DEF IInv
<1>2. /\ slices' = Append(slices, Slice(s, e)) /\ yielded' = yielded + 1 /\ exhausted' = end
      /\ refused' = refused /\ last' = "slice"
  BY DEF emit
<1>3. /\ slices' \in Seq([start : Nat, end : Nat])
      /\ DOMAIN slices' = 1 .. Len(slices) + 1 /\ DOMAIN slices = 1 .. Len(slices)
      /\ Len(slices) \in Nat
      /\ \A n \in 1 .. Len(slices) : slices'[n] = slices[n]
      /\ slices'[Len(slices) + 1].start = s /\ slices'[Len(slices) + 1].end = e
      /\ slices' # <<>> /\ Covered' = e
  BY <1>1, <1>2, AppendFacts
<1>4. Contiguous'
  <2>1. ASSUME NEW n \in 1 .. Len(slices)
        PROVE  /\ slices'[n].start = IF n = 1 THEN 0 ELSE slices'[n - 1].end
               /\ slices'[n].start < slices'[n].end /\ slices'[n].end <= Len(input)
    <3>1. n = 1 \/ n - 1 \in 1 .. Len(slices)
      BY <1>3
    <3>. QED BY <1>1, <1>3, <3>1 DEF Contiguous
  <2>2. CASE slices = <<>>
    <3>1. Len(slices) = 0 /\ Covered = 0
      BY <2>2 DEF Covered
    <3>. QED BY <1>3, <3>1 DEF Contiguous
  <2>3. CASE slices # <<>>
    <3>1. Covered = slices[Len(slices)].end /\ Len(slices) \in 1 .. Len(slices)
      BY <1>1, <1>3, <2>3, CoveredFacts DEF Covered
    <3>2. Len(slices) + 1 # 1 /\ (Len(slices) + 1) - 1 = Len(slices)
      BY <1>3, <3>1
    <3>3. \A n \in 1 .. Len(slices) + 1 : n \in 1 .. Len(slices) \/ n = Len(slices) + 1
      BY <1>3
    <3>4. ASSUME NEW n, n = Len(slices) + 1
          PROVE  /\ slices'[n].start = IF n = 1 THEN 0 ELSE slices'[n - 1].end
                 /\ slices'[n].start < slices'[n].end /\ slices'[n].end <= Len(input)
      <4>1. slices'[n].start = s /\ slices'[n].end = e
        BY <1>3, <3>4
      <4>2. slices'[n - 1].end = s
        BY <1>3, <3>1, <3>2, <3>4
      <4>. QED BY <3>2, <3>4, <4>1, <4>2
    <3>. QED BY <1>3, <2>1, <3>3, <3>4 DEF Contiguous
  <2>. QED BY <2>2, <2>3
<1>5. MarkersSeparate'
  <2>1. SUFFICES ASSUME NEW n \in 1 .. Len(slices) + 1, NEW m \in Markers(input, 0),
                        slices'[n].start < m, m < slices'[n].end
                 PROVE  n = 1 /\ Absorbed(m)
    BY <1>3, SameText DEF MarkersSeparate, Absorbed
  <2>2. CASE n \in 1 .. Len(slices)
    BY <1>1, <1>3, <2>1, <2>2 DEF MarkersSeparate, Absorbed
  <2>3. CASE n = Len(slices) + 1
    <3>1. slices = <<>> /\ Absorbed(m)
      BY <1>3, <2>1, <2>3
    <3>2. Len(slices) = 0
      BY <3>1
    <3>. QED BY <2>3, <3>1, <3>2
  <2>. QED BY <1>3, <2>2, <2>3
<1>6. Counted'
  <2>1. Seen' = {d \in DocumentStarts : d < e}
    BY <1>3, SameText DEF Seen
  <2>2. \A d \in DocumentStarts : d \in Nat
    BY <1>1, StartsInText
  <2>3. \A d \in DocumentStarts : s <= d /\ d < e => d = s
    BY <1>1, OneStart
  <2>4. Seen' = Seen \cup {s}
    <3>1. ASSUME NEW d \in DocumentStarts PROVE d < e <=> d < s \/ d = s
      BY <2>2, <2>3
    <3>. QED BY <2>1, <3>1 DEF Seen
  <2>5. s \notin Seen
    BY DEF Seen
  <2>6. IsFiniteSet(Seen) /\ Cardinality(Seen) = yielded /\ yielded \in Nat
    BY <1>1 DEF Counted, Types
  <2>7. IsFiniteSet(Seen') /\ Cardinality(Seen') = yielded + 1
    BY <2>4, <2>5, <2>6, FS_AddElement
  <2>8. yielded + 1 <= MaxDocuments
    BY <2>6, StreamAssumption
  <2>. QED BY <1>2, <2>7, <2>8 DEF Counted
<1>7. yielded' \in Nat
  BY <1>1, <1>2 DEF Types
<1>8. refused' = FALSE
  BY <1>1, <1>2 DEF Types
<1>9. RefusedAtLimit'
  BY <1>8 DEF RefusedAtLimit
<1>. QED
  BY <1>2, <1>3, <1>4, <1>5, <1>6, <1>7, <1>8, <1>9

-----------------------------------------------------------------------------
(* new() establishes the invariant.                                        *)

LEMMA InitInv == Init => IInv
<1>. SUFFICES ASSUME Init PROVE IInv
  OBVIOUS
<1>1. /\ input \in Inputs /\ yielded = 0 /\ exhausted = FALSE /\ slices = <<>>
      /\ last = "none" /\ refused = FALSE
  BY DEF Init
<1>2. input \in Seq(Byte) /\ Len(input) \in Nat
  BY <1>1, StreamAssumption
<1>3. Contiguous /\ MarkersSeparate /\ RefusedAtLimit /\ Covered = 0
  BY <1>1 DEF Contiguous, MarkersSeparate, RefusedAtLimit, Covered
<1>4. ASSUME Types PROVE Counted
  <2>1. Seen = {}
    BY <1>3, <1>4, StartsInText DEF Seen
  <2>2. IsFiniteSet(Seen) /\ Cardinality(Seen) = 0
    BY <2>1, FS_EmptySet
  <2>. QED BY <1>1, <2>2, StreamAssumption DEF Counted
<1>5. CASE /\ Markers(input, 0) = {}
           /\ Opened(IF Blank(input) THEN {} ELSE {Slice(0, Len(input))}, {}, Len(input))
  <2>1. /\ current_start = {} /\ search_from = Len(input)
        /\ pending = IF Blank(input) THEN {} ELSE {Slice(0, Len(input))}
    BY <1>5 DEF Opened
  <2>2. Slice(0, Len(input)) \in [start : Nat, end : Nat]
    BY <1>2 DEF Slice
  <2>3. Types
    <3>1. pending \subseteq [start : Nat, end : Nat]
      BY <2>1, <2>2
    <3>2. slices \in Seq([start : Nat, end : Nat])
      BY <1>1
    <3>. QED BY <1>1, <1>2, <2>1, <3>1, <3>2 DEF Types
  <2>4. PrologueWaits
    BY <1>1, <1>5, <2>1 DEF PrologueWaits, Slice
  <2>5. Scanning
    BY <2>1 DEF Scanning
  <2>6. pending = {} => Blank(input)
    BY <2>1
  <2>7. Ending
    <3>1. Blank(input) => DocumentStarts = {} /\ Blank(Text(0, Len(input)))
      BY <2>3, WholeText DEF DocumentStarts
    <3>. QED BY <1>1, <1>3, <2>6, <3>1 DEF Ending
  <2>. QED BY <1>3, <1>4, <2>3, <2>4, <2>5, <2>7 DEF IInv
<1>6. ASSUME NEW m \in Markers(input, 0), IsLeast(m, Markers(input, 0)),
             IF m > 0 /\ PrologueIsDocument(Text(0, m))
             THEN Opened({Slice(0, m)}, {m}, m + 3)
             ELSE Opened({}, {0}, m + 3)
      PROVE  IInv
  <2>1. m \in Nat
    BY <1>2 DEF Markers
  <2>2. Slice(0, m) \in [start : Nat, end : Nat]
    BY <2>1 DEF Slice
  <2>3. pending \in {{}, {Slice(0, m)}} /\ current_start \in {{m}, {0}} /\ search_from = m + 3
    BY <1>6 DEF Opened
  <2>4. Types
    <3>1. pending \subseteq [start : Nat, end : Nat]
      BY <2>2, <2>3
    <3>2. slices \in Seq([start : Nat, end : Nat])
      BY <1>1
    <3>3. current_start \subseteq Nat /\ search_from \in Nat
      BY <2>1, <2>3
    <3>. QED BY <1>1, <3>1, <3>2, <3>3 DEF Types
  <2>5. \A k \in Markers(input, 0) : k < m + 3 => k <= m
    BY <1>6, <2>4, NextMarker
  <2>6. \A k \in Markers(input, 0) : m <= k /\ k \in Nat
    BY <1>6, <2>4, MarkerFits DEF IsLeast
  <2>7. Ending
    BY <1>1, <2>3 DEF Ending
  <2>8. CASE m > 0 /\ PrologueIsDocument(Text(0, m))
    <3>1. pending = {Slice(0, m)} /\ current_start = {m}
      BY <1>6, <2>8 DEF Opened
    <3>2. prologue_has_content(Text(0, m))
      BY <2>8 DEF PrologueIsDocument
    <3>3. PrologueWaits
      BY <1>1, <1>6, <2>1, <2>8, <3>1, <3>2 DEF PrologueWaits, Slice
    <3>4. m \in DocumentStarts
      BY <2>4, <3>2, StartsFacts DEF Absorbed
    <3>5. Scanning
      BY <2>1, <2>3, <2>5, <3>1, <3>4 DEF Scanning
    <3>. QED BY <1>3, <1>4, <2>4, <2>7, <3>3, <3>5 DEF IInv
  <2>9. CASE ~(m > 0 /\ PrologueIsDocument(Text(0, m)))
    <3>1. pending = {} /\ current_start = {0}
      BY <1>6, <2>9 DEF Opened
    <3>2. m = 0 \/ Absorbed(m)
      BY <1>6, <2>1, <2>9 DEF PrologueIsDocument, Absorbed
    <3>3. PrologueWaits
      BY <3>1 DEF PrologueWaits
    <3>4. 0 \in DocumentStarts
      BY <2>4, StartsFacts
    <3>5. ASSUME NEW k \in Markers(input, 0), k < m + 3 PROVE k <= 0 \/ Absorbed(k)
      <4>1. k = m
        BY <2>1, <2>5, <2>6, <3>5
      <4>. QED BY <3>2, <4>1
    <3>6. Scanning
      BY <1>1, <1>3, <2>1, <2>3, <3>1, <3>4, <3>5 DEF Scanning
    <3>. QED BY <1>3, <1>4, <2>4, <2>7, <3>3, <3>6 DEF IInv
  <2>. QED BY <2>8, <2>9
<1>. QED
  BY <1>5, <1>6 DEF Init

-----------------------------------------------------------------------------
(* Every call of next() preserves it.                                      *)

LEMMA PendingInv ==
  ASSUME IInv, next_pending
  PROVE  IInv'
<1>1. Types /\ PrologueWaits /\ Scanning /\ Ending /\ Contiguous
  BY DEF IInv
<1>2. PICK p \in pending : emit(p.start, p.end, FALSE)
  BY DEF next_pending
<1>3. /\ pending' = {} /\ input' = input /\ current_start' = current_start
      /\ search_from' = search_from
  BY DEF next_pending
<1>4. slices = <<>> /\ ~refused /\ p.start = 0 /\ Covered = 0
  BY <1>1 DEF PrologueWaits, Covered
<1>5. p.start \in Nat /\ p.end \in Nat
  BY <1>1 DEF Types
<1>6. \/ /\ Markers(input, 0) = {} /\ ~Blank(input)
         /\ p.end = Len(input) /\ current_start = {}
      \/ /\ IsLeast(p.end, Markers(input, 0)) /\ 0 < p.end
         /\ prologue_has_content(Text(0, p.end)) /\ current_start = {p.end}
  BY <1>1 DEF PrologueWaits
<1>7. 0 \in DocumentStarts /\ 0 < p.end /\ p.end <= Len(input)
  <2>1. CASE Markers(input, 0) = {} /\ ~Blank(input) /\ p.end = Len(input)
    <3>1. 0 \in DocumentStarts
      BY <2>1 DEF DocumentStarts
    <3>. QED BY <1>1, <2>1, <3>1, StartsInText, InputFacts
  <2>2. CASE IsLeast(p.end, Markers(input, 0)) /\ 0 < p.end
    <3>1. p.end \in Markers(input, 0)
      BY <2>2 DEF IsLeast
    <3>2. p.end + 3 <= Len(input)
      BY <1>1, <3>1, MarkerFits
    <3>. QED BY <1>1, <1>5, <2>2, <3>1, <3>2, StartsFacts, InputFacts
  <2>. QED BY <1>6, <2>1, <2>2
<1>8. \A m \in Markers(input, 0) : ~(m < p.end)
  BY <1>1, <1>5, <1>6, MarkerFits DEF IsLeast
<1>9. PrologueWaits'
  BY <1>3 DEF PrologueWaits
<1>10. CASE yielded + 1 > MaxDocuments
  <2>1. /\ slices' = slices /\ yielded' = yielded /\ exhausted' = TRUE /\ refused' = TRUE
        /\ last' = "error" /\ Contiguous' /\ MarkersSeparate' /\ Counted' /\ RefusedAtLimit'
    BY <1>2, <1>3, <1>4, <1>7, <1>10, RefuseStep
  <2>2. Types'
    BY <1>1, <1>3, <2>1 DEF Types
  <2>3. Scanning' /\ Ending'
    BY <2>1 DEF Scanning, Ending
  <2>. QED BY <1>9, <2>1, <2>2, <2>3 DEF IInv
<1>11. CASE ~(yielded + 1 > MaxDocuments)
  <2>1. /\ slices' \in Seq([start : Nat, end : Nat]) /\ slices' # <<>> /\ Covered' = p.end
        /\ yielded' \in Nat /\ exhausted' = FALSE /\ refused' = FALSE /\ last' = "slice"
        /\ Contiguous' /\ MarkersSeparate' /\ Counted' /\ RefusedAtLimit'
    BY <1>2, <1>3, <1>4, <1>5, <1>7, <1>8, <1>11, EmitStep
  <2>2. Types'
    BY <1>1, <1>3, <2>1 DEF Types
  <2>3. CASE current_start = {}
    <3>1. p.end = Len(input)
      BY <1>6, <2>3
    <3>2. \A d \in DocumentStarts : d < Len(input)
      BY <1>1, StartsInText
    <3>3. Blank(Text(Len(input), Len(input)))
      BY <1>1, EndIsBlank
    <3>4. Covered' = Len(input) /\ DocumentStarts' = DocumentStarts
          /\ Text(Len(input), Len(input))' = Text(Len(input), Len(input))
      BY <1>3, <2>1, <3>1, SameText
    <3>5. (\A d \in DocumentStarts : d < Covered)' /\ Blank(Text(Covered, Len(input)))'
      BY <1>3, <3>2, <3>3, <3>4 DEF Text
    <3>6. Ending'
      BY <2>1, <3>5 DEF Ending
    <3>7. Scanning'
      BY <1>3, <2>3 DEF Scanning
    <3>. QED BY <1>9, <2>1, <2>2, <3>6, <3>7 DEF IInv
  <2>4. CASE current_start = {p.end} /\ 0 < p.end
    <3>1. /\ p.end < search_from /\ p.end \in DocumentStarts
          /\ \E m \in Markers(input, 0) : p.end <= m /\ m < search_from
          /\ \A m \in Markers(input, 0) : m < search_from => m <= p.end
      BY <1>1, <1>4, <1>5, <2>4 DEF Scanning
    <3>2. Scanning'
      BY <1>3, <2>1, <2>4, <3>1, SameText DEF Scanning
    <3>3. Ending'
      BY <1>3, <2>1, <2>4 DEF Ending
    <3>. QED BY <1>9, <2>1, <2>2, <3>2, <3>3 DEF IInv
  <2>. QED BY <1>6, <2>3, <2>4
<1>. QED
  BY <1>10, <1>11

\* What the invariant says of the document being scanned.
LEMMA ScannedFacts ==
  ASSUME IInv, ~exhausted, pending = {}, NEW c \in current_start
  PROVE  /\ ~refused /\ c \in Nat /\ c = Covered /\ c < search_from /\ c \in DocumentStarts
         /\ \E m \in Markers(input, 0) : c <= m /\ m < search_from
         /\ \A m \in Markers(input, 0) :
              m < search_from => m <= c \/ (slices = <<>> /\ c = 0 /\ Absorbed(m))
<1>1. Types /\ RefusedAtLimit /\ Scanning
  BY DEF IInv
<1>2. ~refused
  BY <1>1 DEF RefusedAtLimit
<1>3. c \in Nat
  BY <1>1 DEF Types
<1>. QED
  BY <1>1, <1>2, <1>3 DEF Scanning

LEMMA MarkerInv ==
  ASSUME IInv, next_marker
  PROVE  IInv'
<1>1. Types /\ PrologueWaits /\ Scanning /\ Ending
  BY DEF IInv
<1>2. PICK c \in current_start, m \in Markers(input, search_from) :
        /\ IsLeast(m, Markers(input, search_from))
        /\ current_start' = {m} /\ search_from' = m + 3
        /\ emit(c, m, FALSE)
  BY DEF next_marker
<1>3. ~exhausted /\ pending = {} /\ pending' = {} /\ input' = input
  BY DEF next_marker
<1>4. /\ ~refused /\ c \in Nat /\ c = Covered /\ c < search_from /\ c \in DocumentStarts
      /\ \E k \in Markers(input, 0) : c <= k /\ k < search_from
      /\ \A k \in Markers(input, 0) :
           k < search_from => k <= c \/ (slices = <<>> /\ c = 0 /\ Absorbed(k))
  BY <1>3, ScannedFacts
<1>5. /\ m \in Markers(input, 0) /\ m \in Nat /\ search_from <= m
      /\ \A k \in Markers(input, 0) : k < m => k < search_from
      /\ \A k \in Markers(input, 0) : k < m + 3 => k <= m
  BY <1>1, <1>2, NextMarker DEF Types
<1>6. c < m /\ m <= Len(input) /\ search_from \in Nat
  BY <1>1, <1>4, <1>5, MarkerFits, InputFacts DEF Types
<1>6a. current_start' \subseteq Nat /\ search_from' \in Nat
  BY <1>2, <1>5
<1>7. ASSUME NEW k \in Markers(input, 0), c < k, k < m
      PROVE  slices = <<>> /\ c = 0 /\ Absorbed(k)
  BY <1>1, <1>4, <1>5, <1>7, MarkerFits
<1>8. PrologueWaits'
  BY <1>3 DEF PrologueWaits
<1>9. CASE yielded + 1 > MaxDocuments
  <2>1. /\ slices' = slices /\ yielded' = yielded /\ exhausted' = TRUE /\ refused' = TRUE
        /\ last' = "error" /\ Contiguous' /\ MarkersSeparate' /\ Counted' /\ RefusedAtLimit'
    BY <1>2, <1>3, <1>4, <1>9, RefuseStep
  <2>2. Types'
    BY <1>1, <1>3, <1>6a, <2>1 DEF Types
  <2>3. Scanning' /\ Ending'
    BY <2>1 DEF Scanning, Ending
  <2>. QED BY <1>8, <2>1, <2>2, <2>3 DEF IInv
<1>10. CASE ~(yielded + 1 > MaxDocuments)
  <2>1. /\ slices' \in Seq([start : Nat, end : Nat]) /\ slices' # <<>> /\ Covered' = m
        /\ yielded' \in Nat /\ exhausted' = FALSE /\ refused' = FALSE /\ last' = "slice"
        /\ Contiguous' /\ MarkersSeparate' /\ Counted' /\ RefusedAtLimit'
    BY <1>2, <1>3, <1>4, <1>5, <1>6, <1>7, <1>10, EmitStep
  <2>2. Types'
    BY <1>1, <1>3, <1>6a, <2>1 DEF Types
  <2>3. m \in DocumentStarts
    <3>1. PICK k \in Markers(input, 0) : k < search_from
      BY <1>4
    <3>2. ~(m <= k)
      BY <1>1, <1>5, <1>6, <3>1, MarkerFits
    <3>3. ~Absorbed(m)
      BY <3>2 DEF Absorbed, IsLeast
    <3>. QED BY <1>1, <1>5, <3>3, StartsFacts
  <2>4. Scanning'
    BY <1>2, <1>3, <1>5, <2>1, <2>3, SameText DEF Scanning
  <2>5. Ending'
    BY <1>2, <2>1 DEF Ending
  <2>. QED BY <1>8, <2>1, <2>2, <2>4, <2>5 DEF IInv
<1>. QED
  BY <1>9, <1>10

\* The last document is never blank: it holds the marker it starts with, or
\* the first one.
LEMMA LastInv ==
  ASSUME IInv, next_last
  PROVE  IInv'
<1>1. Types
  BY DEF IInv
<1>2. PICK c \in current_start :
        IF c < Len(input) /\ ~Blank(Text(c, Len(input)))
        THEN emit(c, Len(input), TRUE)
        ELSE ReturnNone
  BY DEF next_last
<1>3. /\ ~exhausted /\ pending = {} /\ pending' = {} /\ input' = input
      /\ current_start' = {} /\ search_from' = search_from
      /\ Markers(input, search_from) = {}
  BY DEF next_last
<1>4. /\ ~refused /\ c \in Nat /\ c = Covered /\ c < search_from /\ c \in DocumentStarts
      /\ \E k \in Markers(input, 0) : c <= k /\ k < search_from
      /\ \A k \in Markers(input, 0) :
           k < search_from => k <= c \/ (slices = <<>> /\ c = 0 /\ Absorbed(k))
  BY <1>3, ScannedFacts
<1>5. c < Len(input) /\ ~Blank(Text(c, Len(input)))
  BY <1>1, <1>4, MarkerIsContent
<1>6. emit(c, Len(input), TRUE)
  BY <1>2, <1>5
<1>7. ASSUME NEW k \in Markers(input, 0), c < k, k < Len(input)
      PROVE  slices = <<>> /\ c = 0 /\ Absorbed(k)
  <2>1. k \in Nat /\ search_from \in Nat
    BY <1>1, MarkerFits DEF Types
  <2>2. ~(search_from <= k)
    BY <1>1, <1>3, <2>1, MarkersFrom
  <2>. QED BY <1>4, <1>7, <2>1, <2>2
<1>8. PrologueWaits' /\ Scanning'
  BY <1>3 DEF PrologueWaits, Scanning
<1>9. CASE yielded + 1 > MaxDocuments
  <2>1. /\ slices' = slices /\ yielded' = yielded /\ exhausted' = TRUE /\ refused' = TRUE
        /\ last' = "error" /\ Contiguous' /\ MarkersSeparate' /\ Counted' /\ RefusedAtLimit'
    BY <1>3, <1>4, <1>6, <1>9, RefuseStep
  <2>2. Types'
    BY <1>1, <1>3, <2>1 DEF Types
  <2>3. Ending'
    BY <2>1 DEF Ending
  <2>. QED BY <1>8, <2>1, <2>2, <2>3 DEF IInv
<1>10. CASE ~(yielded + 1 > MaxDocuments)
  <2>1. Len(input) \in Nat /\ Len(input) <= Len(input)
    BY <1>1, InputFacts
  <2>2. /\ slices' \in Seq([start : Nat, end : Nat]) /\ slices' # <<>> /\ Covered' = Len(input)
        /\ yielded' \in Nat /\ exhausted' = TRUE /\ refused' = FALSE /\ last' = "slice"
        /\ Contiguous' /\ MarkersSeparate' /\ Counted' /\ RefusedAtLimit'
    BY <1>3, <1>4, <1>5, <1>6, <1>7, <1>10, <2>1, EmitStep
  <2>3. Types'
    BY <1>1, <1>3, <2>2 DEF Types
  <2>4. \A d \in DocumentStarts : d < Len(input)
    BY <1>1, StartsInText
  <2>5. Blank(Text(Len(input), Len(input)))
    BY <1>1, EndIsBlank
  <2>6. DocumentStarts' = DocumentStarts
        /\ Text(Len(input), Len(input))' = Text(Len(input), Len(input))
    BY <1>3, SameText
  <2>7. (\A d \in DocumentStarts : d < Covered)' /\ Blank(Text(Covered, Len(input)))'
    BY <1>3, <2>2, <2>4, <2>5, <2>6 DEF Text
  <2>8. Ending'
    BY <1>3, <2>2, <2>7 DEF Ending
  <2>. QED BY <1>8, <2>2, <2>3, <2>8 DEF IInv
<1>. QED
  BY <1>9, <1>10

\* A step that returns no slice and changes nothing but what was returned.
LEMMA QuietInv ==
  ASSUME IInv,
         UNCHANGED <<input, pending, current_start, search_from, slices, yielded, refused>>,
         \/ exhausted' = exhausted /\ last' = last
         \/ exhausted' = TRUE /\ (exhausted \/ (pending = {} /\ current_start = {}))
  PROVE  IInv'
<1>1. /\ Types /\ Contiguous /\ MarkersSeparate /\ Counted /\ RefusedAtLimit
      /\ PrologueWaits /\ Scanning /\ Ending
  BY DEF IInv
<1>2. /\ input' = input /\ pending' = pending /\ current_start' = current_start
      /\ search_from' = search_from /\ slices' = slices /\ yielded' = yielded
      /\ refused' = refused
  OBVIOUS
<1>3. Covered' = Covered /\ DocumentStarts' = DocumentStarts
  BY <1>2, SameText DEF Covered
<1>4. Seen' = Seen
  BY <1>3 DEF Seen
<1>5. exhausted' \in BOOLEAN /\ (exhausted => exhausted')
  BY <1>1 DEF Types
<1>6. Types'
  BY <1>1, <1>2, <1>5 DEF Types
<1>7. Contiguous'
  BY <1>1, <1>2 DEF Contiguous
<1>8. MarkersSeparate'
  BY <1>1, <1>2, SameText DEF MarkersSeparate
<1>9. Counted'
  BY <1>1, <1>2, <1>4 DEF Counted
<1>10. RefusedAtLimit'
  BY <1>1, <1>2, <1>3, <1>5 DEF RefusedAtLimit
<1>11. PrologueWaits'
  BY <1>1, <1>2, SameText DEF PrologueWaits
<1>12. Scanning'
  BY <1>1, <1>2, <1>3, SameText DEF Scanning
<1>13. Text(Covered, Len(input))' = Text(Covered, Len(input))
  BY <1>2, <1>3 DEF Text
<1>14. Ending'
  BY <1>1, <1>2, <1>3, <1>5, <1>13 DEF Ending
<1>. QED
  BY <1>6, <1>7, <1>8, <1>9, <1>10, <1>11, <1>12, <1>14 DEF IInv

LEMMA NextInv == IInv /\ [Next]_vars => IInv'
<1>. SUFFICES ASSUME IInv, [Next]_vars PROVE IInv'
  OBVIOUS
<1>1. CASE next_pending
  BY <1>1, PendingInv
<1>2. CASE next_marker
  BY <1>2, MarkerInv
<1>3. CASE next_last
  BY <1>3, LastInv
<1>4. CASE next_none
  BY <1>4, QuietInv DEF next_none, ReturnNone
<1>5. CASE UNCHANGED vars
  BY <1>5, QuietInv DEF vars
<1>. QED
  BY <1>1, <1>2, <1>3, <1>4, <1>5 DEF Next

-----------------------------------------------------------------------------
(* What is proved of the iterator.                                         *)

\* The invariant holds throughout every iteration of a DocumentStream.
THEOREM Invariant == Spec => []IInv
<1>. QED
  BY InitInv, NextInv, PTL DEF Spec

\* The slices of any text follow each other from its start, no document
\* hides behind another, and only whitespace is left at the end.
THEOREM SlicesPartition == Spec => []Partition
<1>1. ASSUME IInv PROVE Partition
  <2>1. Contiguous /\ MarkersSeparate /\ Ending
    BY <1>1 DEF IInv
  <2>2. ASSUME last = "end", ~refused
        PROVE  Blank(Text(IF slices = <<>> THEN 0 ELSE slices[Len(slices)].end, Len(input)))
    BY <2>1, <2>2 DEF Ending, Covered
  <2>. QED BY <2>1, <2>2 DEF Partition, Contiguous
<1>. QED
  BY <1>1, Invariant, PTL

\* A stream is refused exactly when it has more documents than
\* max_documents, for every text and every limit.
THEOREM LimitExact == Spec => []RefusedExactly
<1>1. ASSUME IInv, last = "end"
      PROVE  refused <=> Cardinality(DocumentStarts) > MaxDocuments
  <2>1. Types /\ Counted /\ RefusedAtLimit /\ Ending /\ Contiguous
    BY <1>1 DEF IInv
  <2>2. Len(input) \in Nat
    BY <2>1, InputFacts
  <2>3. IsFiniteSet(DocumentStarts)
    <3>1. DocumentStarts \subseteq 0 .. Len(input)
      BY <2>1, <2>2, StartsInText
    <3>2. 0 \in Int /\ Len(input) \in Int
      BY <2>2
    <3>3. IsFiniteSet(0 .. Len(input))
      BY <3>2, FS_Interval, Zenon
    <3>. QED BY <3>1, <3>3, FS_Subset, Zenon
  <2>4. /\ IsFiniteSet(Seen) /\ Cardinality(Seen) = yielded /\ yielded \in Nat
        /\ yielded <= MaxDocuments /\ MaxDocuments \in Nat
    BY <2>1, StreamAssumption DEF Counted, Types
  <2>5. CASE refused
    <3>1. PICK d \in DocumentStarts : Covered <= d
      BY <2>1, <2>5 DEF RefusedAtLimit
    <3>2. Covered \in Nat /\ d \in Nat
      BY <2>1, CoveredFacts, StartsInText, <2>2
    <3>3. d \notin Seen
      BY <3>1, <3>2 DEF Seen
    <3>4. Seen \cup {d} \subseteq DocumentStarts
      BY DEF Seen
    <3>5. IsFiniteSet(Seen \cup {d}) /\ Cardinality(Seen \cup {d}) = yielded + 1
      BY <2>4, <3>3, FS_AddElement
    <3>6. Cardinality(Seen \cup {d}) <= Cardinality(DocumentStarts)
      BY <2>3, <3>4, FS_Subset
    <3>7. Cardinality(DocumentStarts) \in Nat /\ yielded = MaxDocuments
      BY <2>1, <2>3, <2>5, FS_CardinalityType DEF RefusedAtLimit
    <3>. QED BY <2>4, <2>5, <3>5, <3>6, <3>7
  <2>6. CASE ~refused
    <3>1. \A d \in DocumentStarts : d < Covered
      BY <1>1, <2>1, <2>6 DEF Ending
    <3>2. Seen = DocumentStarts
      BY <3>1 DEF Seen
    <3>. QED BY <2>4, <2>6, <3>2
  <2>. QED BY <2>5, <2>6
<1>2. IInv => RefusedExactly
  BY <1>1 DEF RefusedExactly
<1>. QED
  BY <1>2, Invariant, PTL
=============================================================================
