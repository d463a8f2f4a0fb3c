------------------------------ MODULE ScanText ------------------------------
(***************************************************************************)
(* The scalar readers of the scanner (src/crates/noyalib/src/parser/       *)
(* scanner/scalars.rs and block_scalars.rs): what a plain, quoted or block *)
(* scalar that opens at a position of the text means and where it ends.    *)
(*                                                                         *)
(* A text is a sequence of cells, one cell per character class the scanner *)
(* tells apart: "a" stands for any content character, "ctl" for a raw      *)
(* control character, "BOM" for the byte order mark, "YAML" and "TAG" for  *)
(* the two directive names, "core" for the core tag prefix, "x" after a    *)
(* backslash for a complete hex escape, "uH" and "uL" for the two halves   *)
(* of a surrogate pair.  A line break (LF, CR or CRLF) is one cell.        *)
(* Positions count from 1; position Len(t) + 1 is the end of input.        *)
(***************************************************************************)
EXTENDS Integers, Sequences, FiniteSets, SequencesExt

Blank == {" ", "\t"}
Break == {"\n"}
Sep == Blank \cup Break
FlowMark == {",", "[", "]", "{", "}"}
FlowStop == {",", "]", "}"}
Digits == [d \in {"0", "1", "2", "3"} |->
             CASE d = "0" -> 0 [] d = "1" -> 1 [] d = "2" -> 2 [] d = "3" -> 3]

\* peek and peek_at: the cell at a position, "eof" past the end.
At(t, i) == IF i \in 1..Len(t) THEN t[i] ELSE "eof"

Slice(t, i, j) == SubSeq(t, i, j - 1)
Holds(t, i, j, C) == \E k \in i..(j - 1) : t[k] \in C

\* The first position from i on whose cell is not in C.
SkipWhile(t, i, C) ==
  CHOOSE j \in i..(Len(t) + 1) : At(t, j) \notin C /\ \A k \in i..(j - 1) : t[k] \in C

\* The first position from i on whose cell is in C, or the end.
SkipUntil(t, i, C) ==
  CHOOSE j \in i..(Len(t) + 1) : At(t, j) \in C \cup {"eof"} /\ \A k \in i..(j - 1) : t[k] \notin C

\* Where the line of position i starts.  A leading byte order mark takes no column.
LineStart(t, i) ==
  LET before == {k \in 1..(i - 1) : t[k] \in Break \/ (k = 1 /\ t[k] = "BOM")}
  IN  1 + Max(before \cup {0})

\* The column advance and advance_by keep for position i.
Col(t, i) == i - LineStart(t, i)

\* A - ? or : at i is an indicator when nothing, a separator or, in a flow
\* collection, a flow terminator follows it.
Ends(t, i, inFlow) == At(t, i + 1) \in Sep \cup {"eof"} \cup IF inFlow THEN FlowStop ELSE {}

\* A document marker, --- or ..., stands at i.
Marker(t, i) ==
  /\ At(t, i) \in {"-", "."}
  /\ At(t, i + 1) = t[i] /\ At(t, i + 2) = t[i]
  /\ At(t, i + 3) \in Sep \cup {"eof"}

Breaks(n) == [k \in 1..n |-> "\n"]
Spaces(n) == [k \in 1..n |-> " "]

\* What a reader returns: the text it read, where it stopped, whether it
\* stopped at the start of a line, and its error.
Read(body, pos, lead) == [body |-> body, pos |-> pos, lead |-> lead, err |-> ""]
Refusal(why) == [body |-> <<>>, pos |-> 0, lead |-> FALSE, err |-> why]
Printable(r) == IF "ctl" \in ToSet(r.body) THEN Refusal("control") ELSE r

-----------------------------------------------------------------------------
(* Plain scalars. *)

\* scan_line_end: the first line break or comment from i on.
ScanLineEnd(t, i) ==
  LET stops == {j \in i..Len(t) : t[j] \in Break \/ (t[j] = "#" /\ j > i /\ t[j - 1] \in Blank)}
  IN  IF stops = {} THEN [from |-> i, end |-> Len(t) + 1, brk |-> FALSE]
      ELSE [from |-> i, end |-> Min(stops), brk |-> t[Min(stops)] \in Break]

\* plain_line_end: the memo's answer where it still holds, a fresh scan elsewhere.
PlainLineEnd(t, i, memo) ==
  IF /\ memo.from <= i
     /\ \/ i < memo.end
        \/ i = memo.end /\ (memo.brk \/ memo.end = Len(t) + 1)
  THEN memo ELSE ScanLineEnd(t, i)

\* plain_line_len and classify_blank_run: where the scalar ends on its line,
\* stop being the line's break or comment.
RECURSIVE PlainLineLen(_, _, _, _)
PlainLineLen(t, i, stop, inFlow) ==
  LET k == SkipUntil(t, i, Blank \cup {":"} \cup IF inFlow THEN FlowMark ELSE {})
      e == SkipWhile(t, k, Blank)
  IN  CASE k >= stop -> stop
        [] t[k] = ":" -> IF Ends(t, k, inFlow) THEN k ELSE PlainLineLen(t, k + 1, stop, inFlow)
        [] t[k] \in FlowMark -> k
        [] OTHER -> CASE At(t, e) \in {"eof", "#"} -> k
                      [] t[e] \in Break -> e
                      [] t[e] = ":" /\ Ends(t, e, inFlow) -> k
                      [] OTHER -> PlainLineLen(t, e, stop, inFlow)

\* try_plain_single_line that keeps the blanks before a flow indicator.
PlainFastUntrimmed(t, i, line, inFlow) ==
  LET len == PlainLineLen(t, i, line.end, inFlow)
  IN  IF (line.brk /\ len = line.end) \/ len = i THEN Read(<<>>, 0, FALSE)
      ELSE Printable(Read(Slice(t, i, len), len, FALSE))

\* try_plain_single_line: pos is 0 when the fast path does not apply.
PlainFast(t, i, line, inFlow) ==
  LET len  == PlainLineLen(t, i, line.end, inFlow)
      kept == Max({i} \cup {j \in (i + 1)..len : t[j - 1] \notin Blank})
  IN  IF (line.brk /\ len = line.end) \/ kept = i THEN Read(<<>>, 0, FALSE)
      ELSE Printable(Read(Slice(t, i, kept), len, FALSE))

\* plain_run_len: the end of the run of content at i.
PlainRunEnd(t, i, inFlow) ==
  Min({j \in i..(Len(t) + 1) :
         \/ At(t, j) \in Sep \cup {"eof"} \cup IF inFlow THEN FlowMark ELSE {}
         \/ At(t, j) = ":" /\ Ends(t, j, inFlow)
         \/ j = i /\ (At(t, j) = "#" \/ (Col(t, j) = 0 /\ Marker(t, j)))})

\* PlainFold::join: the next run after the whitespace held back before it.  A
\* single break folds to a space, more of them keep all but the first.
PlainJoin(f, run) ==
  LET held == IF f.ws # <<>> /\ Head(f.ws) = "\n"
              THEN IF Len(f.ws) = 1 THEN <<" ">> ELSE Tail(f.ws)
              ELSE f.ws
  IN  [f EXCEPT !.body = @ \o held \o run, !.ws = <<>>]

\* scan_plain_multiline with skip_plain_separation: a line of the scalar at a
\* time, until the next line's column is at or below the block's indent.
RECURSIVE PlainFold(_, _, _, _)
PlainFold(t, f, inFlow, indent) ==
  LET n     == PlainRunEnd(t, f.pos, inFlow)
      g     == IF n > f.pos THEN [PlainJoin(f, Slice(t, f.pos, n)) EXCEPT !.pos = n] ELSE f
      b     == SkipWhile(t, n, Blank)
      next  == SkipWhile(t, n, Sep)
      lines == Cardinality({k \in n..(next - 1) : t[k] \in Break})
  IN  CASE n = f.pos /\ ~f.lead -> f
        [] At(t, n) \notin Sep -> g
        [] At(t, b) \notin Break ->
             PlainFold(t, [g EXCEPT !.pos = b, !.ws = Slice(t, n, b)], inFlow, indent)
        [] OTHER ->
             LET h == [g EXCEPT !.pos = next, !.ws = Breaks(lines), !.lead = TRUE]
             IN  IF ~inFlow /\ Col(t, next) <= indent THEN h ELSE PlainFold(t, h, inFlow, indent)

PlainSlow(t, i, inFlow, indent) ==
  LET f == PlainFold(t, [pos |-> i, body |-> <<>>, ws |-> <<>>, lead |-> FALSE], inFlow, indent)
  IN  IF f.body = <<>> THEN Refusal("unexpected") ELSE Printable(Read(f.body, f.pos, f.lead))

-----------------------------------------------------------------------------
(* Quoted scalars. *)

\* The escapes that stand for a character of the model's alphabet.
Escapes == [c \in {"n", "t", "\t", " ", "/", "\"", "\\", "x"} |->
              CASE c = "n" -> "\n" [] c = "t" -> "\t" [] c = "x" -> "ctl" [] OTHER -> c]

\* QuotedFold::flush: a lone unescaped break is a space, anything else held
\* back is kept.
Flush(q) ==
  LET held == IF q.lead /\ q.ws = <<>> THEN IF q.esc THEN <<>> ELSE <<" ">> ELSE q.ws
  IN  [q EXCEPT !.body = @ \o held, !.ws = <<>>, !.lead = FALSE, !.esc = FALSE]

\* scan_double_escape with scan_hex_escape and scan_unicode_4: q.pos is at the
\* backslash.  A high surrogate takes the low one escaped right after it.
Escape(t, q) ==
  LET c == At(t, q.pos + 1)
  IN  CASE c \in Break ->
             [q EXCEPT !.pos = SkipWhile(t, q.pos + 2, Blank), !.lead = TRUE, !.esc = TRUE]
        [] c \in DOMAIN Escapes ->
             [q EXCEPT !.pos = @ + 2, !.body = Append(@, Escapes[c])]
        [] c = "uH" /\ At(t, q.pos + 2) = "\\" /\ At(t, q.pos + 3) = "uL" ->
             [q EXCEPT !.pos = @ + 4, !.body = Append(@, "a")]
        [] OTHER -> [q EXCEPT !.err = "escape"]

\* require_quoted_continuation_indent: content at next, width columns in.
UnderIndented(t, next, width, inFlow, indent) ==
  ~inFlow /\ At(t, next) \notin Break \cup {"eof"} /\ width <= indent

\* scan_double_break and the break arm of scan_single_quoted_scalar: an empty
\* line is a break, the next line may neither be a document marker nor start at
\* or left of the block (a double-quoted line's indent counts spaces only).
QuotedBreak(t, q, double, inFlow, indent) ==
  LET p     == q.pos + 1
      next  == SkipWhile(t, p, Blank)
      width == IF double THEN SkipWhile(t, p, {" "}) - p ELSE next - p
  IN  IF Marker(t, p) \/ UnderIndented(t, next, width, inFlow, indent)
      THEN [q EXCEPT !.err = "continuation"]
      ELSE [q EXCEPT !.pos = next, !.lead = TRUE,
                     !.ws = IF q.lead THEN Append(@, "\n") ELSE <<>>]

\* A run of content or of blanks.  Blanks that end the line, or come before the
\* closing quote or an escape, wait for what follows them.
QuotedRun(t, q, quote, stops) ==
  LET blanks == SkipWhile(t, q.pos, Blank)
      end    == SkipUntil(t, q.pos, Sep \cup stops)
  IN  CASE blanks > q.pos /\ At(t, blanks) \in Break \cup stops ->
             [q EXCEPT !.pos = blanks, !.ws = Slice(t, q.pos, blanks)]
        [] blanks > q.pos -> [q EXCEPT !.pos = blanks, !.body = @ \o Slice(t, q.pos, blanks)]
        [] quote = "\"" /\ Holds(t, q.pos, end, {"ctl"}) -> [q EXCEPT !.err = "control"]
        [] OTHER -> [q EXCEPT !.pos = end, !.body = @ \o Slice(t, q.pos, end)]

\* scan_single_quoted_scalar and scan_double_quoted_scalar, from q.pos on.
RECURSIVE QuotedLoop(_, _, _, _, _)
QuotedLoop(t, q, quote, inFlow, indent) ==
  LET c      == At(t, q.pos)
      double == quote = "\""
      stops  == IF double THEN {"\"", "\\"} ELSE {"'"}
      f      == Flush(q)
  IN  CASE q.err # "" -> q
        [] c = "eof" -> [q EXCEPT !.err = "unterminated"]
        [] c = "'" /\ ~double /\ At(t, q.pos + 1) = "'" ->
             QuotedLoop(t, [f EXCEPT !.pos = @ + 2, !.body = Append(@, "'")], quote, inFlow, indent)
        [] c = quote -> [f EXCEPT !.pos = @ + 1]
        [] c = "\\" /\ double -> QuotedLoop(t, Escape(t, f), quote, inFlow, indent)
        [] c \in Break -> QuotedLoop(t, QuotedBreak(t, q, double, inFlow, indent), quote, inFlow, indent)
        [] OTHER -> QuotedLoop(t, QuotedRun(t, f, quote, stops), quote, inFlow, indent)

Quoted(t, i, inFlow, indent) ==
  LET q == QuotedLoop(t, [pos |-> i + 1, body |-> <<>>, ws |-> <<>>, lead |-> FALSE,
                          esc |-> FALSE, err |-> ""], t[i], inFlow, indent)
  IN  CASE q.err # "" -> Refusal(q.err)
        [] t[i] = "'" -> Printable(Read(q.body, q.pos, FALSE))
        [] OTHER -> Read(q.body, q.pos, FALSE)

-----------------------------------------------------------------------------
(* Block scalars. *)

\* scan_block_indicators: up to two of + - and a digit, the last of a kind counts.
BlockIndicators(t, i) ==
  LET marks == {"+", "-", "1", "2", "3"}
      end   == IF At(t, i) \notin marks THEN i ELSE IF At(t, i + 1) \notin marks THEN i + 1 ELSE i + 2
      of(C) == {k \in i..(end - 1) : t[k] \in C}
  IN  [end |-> end,
       chomp |-> IF of({"+", "-"}) = {} THEN "clip"
                 ELSE IF t[Max(of({"+", "-"}))] = "+" THEN "keep" ELSE "strip",
       increment |-> IF of(DOMAIN Digits) = {} THEN 0 ELSE Digits[t[Max(of(DOMAIN Digits))]]]

\* scan_block_header: the rest of the header line; pos is 0 when it is malformed.
BlockHeader(t, i) ==
  LET h == BlockIndicators(t, i)
      b == SkipWhile(t, h.end, Blank)
      e == IF At(t, b) = "#" THEN SkipUntil(t, b, Break) ELSE b
      malformed == \/ At(t, h.end) \in DOMAIN Digits
                   \/ At(t, b) = "#" /\ b = h.end
                   \/ Holds(t, b, e, {"ctl"})
                   \/ At(t, e) \notin Break \cup {"eof"}
  IN  [chomp |-> h.chomp, increment |-> h.increment,
       pos |-> IF malformed THEN 0 ELSE IF At(t, e) = "eof" THEN e ELSE e + 1]

\* peek_first_content_indent: the widest leading blank line, and the indent of
\* the first other line when that line belongs to the scalar (-1 when none does).
RECURSIVE FirstContent(_, _, _, _)
FirstContent(t, i, indent, widest) ==
  LET j == SkipWhile(t, i, {" "})
  IN  CASE At(t, j) \in Break -> FirstContent(t, j + 1, indent, Max({widest, j - i}))
        [] At(t, j) # "eof" /\ j - i > indent /\ ~(j = i /\ Marker(t, j)) ->
             [widest |-> widest, indent |-> j - i]
        [] OTHER -> [widest |-> widest, indent |-> -1]

\* detect_block_indent; -1 when a leading blank line is wider than the scalar.
BlockIndent(t, i, indent, increment) ==
  LET f     == FirstContent(t, i, indent, 0)
      found == IF f.indent >= 0 THEN f.indent ELSE f.widest
      width == IF increment > 0 THEN Max({indent, 0}) + increment ELSE Max({found, indent + 1})
  IN  IF increment = 0 /\ f.widest > width THEN -1 ELSE width

\* BlockBody::place_breaks: the breaks held back before a content line.
PlaceBreaks(b, literal, deeper) ==
  CASE b.breaks = 0 -> <<>>
    [] literal \/ b.body = <<>> \/ deeper \/ b.deep -> Breaks(b.breaks)
    [] b.breaks = 1 -> <<" ">>
    [] OTHER -> Breaks(b.breaks - 1)

\* BlockBody::chomp.
Chomp(b, how) ==
  CASE how = "keep" -> b.body \o Breaks(b.breaks)
    [] how = "clip" /\ b.body # <<>> -> Append(b.body, "\n")
    [] OTHER -> b.body

\* scan_block_content_line: e is where the line's text starts, extra the spaces
\* past the scalar's indent.
ContentLine(t, b, literal, e, extra) ==
  LET deeper == extra > 0 \/ t[e] = "\t"
      end    == SkipUntil(t, e, Break)
      broken == At(t, end) \in Break
  IN  [b EXCEPT !.body = @ \o PlaceBreaks(b, literal, deeper) \o Spaces(extra) \o Slice(t, e, end),
                !.breaks = IF broken THEN 1 ELSE 0,
                !.deep = deeper,
                !.pos = IF broken THEN end + 1 ELSE end]

\* scan_block_blank_line with push_spaced_blank: surplus spaces are text once
\* there is content, or when the indent was given.
BlankLine(t, b, e, extra, given) ==
  LET spaced == extra > 0 /\ (given \/ b.body # <<>>)
      c      == IF spaced THEN [b EXCEPT !.body = @ \o Breaks(b.breaks) \o Spaces(extra),
                                         !.breaks = 0, !.deep = TRUE] ELSE b
      broken == At(t, e) \in Break
  IN  [c EXCEPT !.breaks = IF broken \/ spaced THEN @ + 1 ELSE @,
                !.pos = IF broken THEN e + 1 ELSE e,
                !.done = ~broken]

\* scan_block_line until it answers false.
RECURSIVE BlockLines(_, _, _, _, _)
BlockLines(t, b, literal, width, given) ==
  LET e     == SkipWhile(t, b.pos, {" "})
      n     == e - b.pos
      extra == Max({n - width, 0})
  IN  CASE b.done \/ b.err # "" \/ b.pos > Len(t) -> b
        [] Col(t, b.pos) = 0 /\ Marker(t, b.pos) -> b
        [] n < width /\ At(t, e) = "\t" -> [b EXCEPT !.err = "tab"]
        [] At(t, e) \in Break \cup {"eof"} ->
             BlockLines(t, BlankLine(t, b, e, extra, given), literal, width, given)
        [] n < width -> [b EXCEPT !.pos = e]
        [] OTHER -> BlockLines(t, ContentLine(t, b, literal, e, extra), literal, width, given)

\* scan_block_scalar at the | or > at i: the header, the width, the lines.
Chomped(b, chomp) ==
  IF b.err # "" THEN Refusal(b.err) ELSE Printable(Read(Chomp(b, chomp), b.pos, TRUE))
BlockBody(t, h, literal, width) ==
  IF width = -1 THEN Refusal("leading spaces")
  ELSE Chomped(BlockLines(t, [pos |-> h.pos, body |-> <<>>, breaks |-> 0, deep |-> FALSE,
                              done |-> FALSE, err |-> ""], literal, width, h.increment > 0), h.chomp)
BlockAfter(t, h, literal, indent) ==
  IF h.pos = 0 THEN Refusal("header")
  ELSE BlockBody(t, h, literal, BlockIndent(t, h.pos, indent, h.increment))
BlockScalar(t, i, indent) == BlockAfter(t, BlockHeader(t, i + 1), t[i] = "|", indent)
=============================================================================
