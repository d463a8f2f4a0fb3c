------------------------------ MODULE Scanner ------------------------------
(***************************************************************************)
(* The lexical scanner (src/crates/noyalib/src/parser/scanner.rs): it      *)
(* turns a text into tokens.  An implicit mapping key is only known to be  *)
(* one when its : arrives, so the scanner remembers where a key may have   *)
(* begun, holds the tokens since then back, and inserts Key (and the start *)
(* of the block mapping) before them when the : comes.                     *)
(*                                                                         *)
(* s is the Scanner struct; tokens holds the tokens not handed out yet,    *)
(* out the ones that were, trivia and comments the spans recorded for the  *)
(* green tree.  One action is one call of fetch_next_token, named after    *)
(* the fetcher it dispatches to; HandOut is the rest of next_token.        *)
(***************************************************************************)
EXTENDS ScanText

CONSTANTS MaxEvents,   \* max_events
          Backlog,     \* the tokens the queue may hold beyond eight per event (1024)
          KeyTokens,   \* MAX_SCALAR_KEY_TOKENS
          KeyChars,    \* MAX_IMPLICIT_KEY_CHARS, in cells
          KeyBytes,    \* MAX_IMPLICIT_KEY_BYTES, in cells
          NameMax      \* MAX_ANCHOR_NAME_LEN and MAX_TAG_LEN

ASSUME {MaxEvents, Backlog, KeyTokens, KeyChars, KeyBytes, NameMax} \subseteq Nat /\ KeyChars <= KeyBytes

VARIABLES text, s
vars == <<text, s>>

-----------------------------------------------------------------------------
(* The struct and its helpers. *)

NoKey == [possible |-> FALSE, required |-> FALSE, number |-> 0, index |-> 0,
          json |-> FALSE, line |-> 0, stale |-> FALSE]

\* Scanner::new.
New(t) ==
  [pos |-> 1, mark |-> 1, tokens |-> <<>>, produced |-> 0, indent |-> -1, indents |-> <<>>,
   flow |-> <<>>, keys |-> <<>>, floor |-> 1, allowed |-> FALSE, adjacent |-> FALSE,
   explicit |-> FALSE, started |-> FALSE, ended |-> FALSE, opens |-> TRUE, inline |-> FALSE,
   directive |-> FALSE, yamlSeen |-> FALSE, handles |-> <<>>, inBody |-> FALSE, last |-> "Other",
   prop |-> FALSE, memo |-> [from |-> Len(t) + 2, end |-> 0, brk |-> FALSE], lastEnd |-> 1,
   out |-> <<>>, trivia |-> <<>>, comments |-> <<>>, err |-> ""]

InFlow(r) == r.flow # <<>>
InFlowSeq(r) == InFlow(r) /\ Last(r.flow) = "FlowSequence"
Column(r) == Col(text, r.pos)
Peek(r) == At(text, r.pos)
NextNumber(r) == r.produced + Len(r.tokens)
Live(k) == k.possible /\ ~k.stale
TopKey(r) == Last(r.keys)
Fail(r, why) == [r EXCEPT !.err = why]

Token(kind, from, to, body) == [kind |-> kind, from |-> from, to |-> to, body |-> body]
Scalars == {"Plain", "SingleQuoted", "DoubleQuoted", "Literal", "Folded"}
Boundary == {"StreamStart", "StreamEnd", "DocumentStart", "DocumentEnd", "BlockEnd"}

\* emit: append a token from the mark to position p.  The adjacency a quoted
\* scalar or a closing bracket grants lasts for one fetch only.
Emit(r, kind, body, p) ==
  [r EXCEPT !.pos = p, !.lastEnd = p, !.adjacent = FALSE,
            !.tokens = Append(@, Token(kind, r.mark, p, body)),
            !.inBody = @ \/ kind \notin Boundary,
            !.last = IF kind \in {"Anchor", "Tag"} THEN kind ELSE "Other",
            !.prop = CASE kind \in {"Anchor", "Tag"} -> TRUE
                       [] kind \in Scalars \cup {"FlowSequenceStart", "FlowMappingStart", "Alias"} -> FALSE
                       [] OTHER -> @]

\* insert_token: put a token of no length before the token of number n.  The
\* code subtracts unsigned numbers, so a token already handed out is a panic.
Insert(r, n, kind, at) ==
  IF n < r.produced THEN Fail(r, "panic")
  ELSE [r EXCEPT !.inBody = TRUE,
                 !.tokens = InsertAt(@, n - r.produced + 1, Token(kind, at, at, <<>>))]

\* roll_indent: open a block collection at column c, before token n or at the end.
RollIndent(r, c, kind, at, n) ==
  IF InFlow(r) \/ r.indent >= c THEN r
  ELSE LET q == [r EXCEPT !.indents = Append(@, r.indent), !.indent = c]
       IN  IF n >= 0 THEN Insert(q, n, kind, at)
           ELSE [q EXCEPT !.lastEnd = at, !.tokens = Append(@, Token(kind, at, at, <<>>))]

\* unroll_indent: close every block right of column c.
RECURSIVE UnrollIndent(_, _)
UnrollIndent(r, c) ==
  IF InFlow(r) \/ r.indent <= c THEN r
  ELSE UnrollIndent(Emit([r EXCEPT !.indent = IF r.indents = <<>> THEN -1 ELSE Last(r.indents),
                                   !.indents = IF @ = <<>> THEN @ ELSE Front(@)],
                         "BlockEnd", <<>>, r.pos), c)

-----------------------------------------------------------------------------
(* Simple keys. *)

\* save_simple_key_ext that leaves live_key_floor where it is.
SaveKeyOnly(r, json) ==
  IF ~r.allowed THEN r
  ELSE [r EXCEPT !.keys[Len(r.keys)] =
          [possible |-> TRUE, required |-> ~InFlow(r) /\ r.indent = Column(r), number |-> NextNumber(r),
           index |-> r.pos, json |-> json, line |-> LineStart(text, r.pos), stale |-> FALSE]]

\* save_simple_key_ext: a key may begin here.
SaveSimpleKey(r, json) ==
  IF ~r.allowed THEN r
  ELSE [r EXCEPT !.keys[Len(r.keys)] =
          [possible |-> TRUE, required |-> ~InFlow(r) /\ r.indent = Column(r), number |-> NextNumber(r),
           index |-> r.pos, json |-> json, line |-> LineStart(text, r.pos), stale |-> FALSE],
                 !.floor = Min({@, Len(r.keys)})]

\* remove_simple_key.
RemoveSimpleKey(r) ==
  IF TopKey(r).possible /\ TopKey(r).required THEN Fail(r, "key required")
  ELSE [r EXCEPT !.keys[Len(r.keys)].possible = FALSE]

\* simple_key_is_stale: the key at this level can no longer be completed.
IsStale(r, level) ==
  LET k == r.keys[level]
      far == NextNumber(r) - k.number > KeyTokens /\ r.pos - k.index > KeyBytes
  IN  IF level = 1 THEN k.line # LineStart(text, r.pos) \/ far
      ELSE r.flow[level - 1] = "FlowSequence" /\ far

\* stale_simple_keys: walk up from the floor to the oldest key still alive.
StaleSimpleKeys(r) ==
  LET alive == {l \in r.floor..Len(r.keys) : Live(r.keys[l]) /\ ~IsStale(r, l)}
      floor == Min(alive \cup {Max({r.floor, Len(r.keys) + 1})})
  IN  [r EXCEPT !.floor = floor,
                !.keys = [l \in DOMAIN @ |->
                            IF l \in r.floor..(floor - 1) /\ Live(@[l]) THEN [@[l] EXCEPT !.stale = TRUE]
                            ELSE @[l]]]

\* implicit_key_too_long, at the : that would complete key k.
KeyTooLong(r, k) ==
  /\ ~InFlow(r) \/ InFlowSeq(r)
  /\ k.stale \/ (NextNumber(r) - k.number > KeyTokens /\ r.pos - k.index > KeyChars)

\* simple_key_end: where key k ends, the blanks and breaks after it left out.
SimpleKeyEnd(r, k) ==
  LET end == Max({k.index, IF k.stale THEN r.lastEnd
                           ELSE IF r.tokens = <<>> THEN k.index ELSE Last(r.tokens).to})
  IN  Max({k.index} \cup {e \in (k.index + 1)..end : At(text, e - 1) \notin Sep})

\* check_implicit_key_lines: "fine", "dropped" (the : belongs to another pair) or an error.
KeyLines(r, k) ==
  LET end     == SimpleKeyEnd(r, k)
      within  == Holds(text, k.index, end, Break)
      between == Holds(text, end, r.pos, Break)
  IN  CASE within /\ ~InFlow(r) -> IF r.explicit THEN "dropped" ELSE "key over lines"
        [] between /\ ~InFlow(r) -> "dropped"
        [] between /\ InFlowSeq(r) -> "key over lines"
        [] between /\ within /\ At(text, r.pos - 1) \notin Blank -> "key over lines"
        [] OTHER -> "fine"

\* needs_more_tokens: only the oldest live key from the floor on is asked.
NeedsMoreTokens(r) ==
  /\ ~r.ended
  /\ \/ r.tokens = <<>>
     \/ LET live == {l \in r.floor..Len(r.keys) : Live(r.keys[l])}
        IN  live # {} /\ r.keys[Min(live)].number = r.produced

-----------------------------------------------------------------------------
(* What fetch_next_token does before it dispatches. *)

\* A tab among the blanks at i, and a block indicator after them.
TabThenIndicator(i) ==
  LET b == SkipWhile(text, i, Blank)
  IN  Holds(text, i, b, {"\t"}) /\ At(text, b) \in {"-", "?", ":"} /\ Ends(text, b, FALSE)

\* reject_tab_indentation, at the start of a line.
TabIndents(r) ==
  LET b == SkipWhile(text, r.pos, Blank)
  IN  /\ Peek(r) = "\t"
      /\ At(text, b) \notin Break \cup {"eof", "#"}
      /\ r.indent >= 0 \/ TabThenIndicator(r.pos)

\* skip_comment: a # not after a separator, or a control character, is refused.
SkipComment(r, inline) ==
  LET end == SkipUntil(text, r.pos, Break)
      adjoining == r.pos > 1 /\ ~(r.pos = 2 /\ text[1] = "BOM") /\ text[r.pos - 1] \notin Sep
  IN  IF adjoining \/ Holds(text, r.pos, end, {"ctl"}) THEN Fail(r, "comment")
      ELSE [r EXCEPT !.pos = end, !.comments = Append(@, [from |-> r.pos, to |-> end, inline |-> inline])]

\* cross_line_break: in a flow collection the next line's content must be right
\* of the block, unless the line opens with a closing bracket.
CrossLineBreak(r) ==
  LET p       == r.pos + 1
      content == SkipWhile(text, p, Blank)
      shallow == SkipWhile(text, p, {" "}) - p <= r.indent
  IN  IF InFlow(r) /\ r.indent >= 0 /\ shallow /\ At(text, content) \notin Break \cup {"eof", "]", "}"}
      THEN Fail(r, "flow indentation")
      ELSE [r EXCEPT !.pos = p, !.trivia = Append(@, <<r.pos, p>>), !.inline = FALSE, !.last = "Other",
                     !.allowed = @ \/ ~InFlow(r)]

\* skip_to_next_token.
RECURSIVE SkipToNextToken(_)
SkipToNextToken(r) ==
  LET b == SkipWhile(text, r.pos, Blank)
      q == IF b > r.pos THEN [r EXCEPT !.pos = b, !.trivia = Append(@, <<r.pos, b>>)] ELSE r
      c == IF Peek(q) = "#" THEN SkipComment(q, Column(r) > 0) ELSE q
  IN  IF Column(r) = 0 /\ ~InFlow(r) /\ TabIndents(r) THEN Fail(r, "tab indentation")
      ELSE IF c.err # "" \/ Peek(c) \notin Break THEN c
      ELSE LET d == CrossLineBreak(c) IN IF d.err # "" THEN d ELSE SkipToNextToken(d)

\* The head of fetch_next_token: skip, retire keys, close blocks, and check that
\* the token's column belongs to an open block.
CheckColumn(q) ==
  IF /\ ~InFlow(q) /\ q.indent >= 0 /\ Column(q) > q.indent /\ ~q.opens /\ q.allowed
     /\ Peek(q) # "eof"
  THEN Fail(q, "inconsistent indentation") ELSE [q EXCEPT !.mark = q.pos]
AfterSkip(q, from) ==
  IF q.err # "" THEN q
  ELSE CheckColumn(UnrollIndent(StaleSimpleKeys([q EXCEPT !.adjacent = @ /\ q.pos = from]), Column(q)))
Ready(r) == AfterSkip(SkipToNextToken(r), r.pos)

\* The fetcher the cell at the cursor selects.
Dispatch(r) ==
  LET c == Peek(r)
      ends == Ends(text, r.pos, InFlow(r))
      jsonKey == InFlow(r) /\ (r.adjacent \/ (TopKey(r).possible /\ TopKey(r).json))
  IN  CASE r.err # "" -> "error"
        [] c = "eof" -> "stream_end"
        [] Column(r) = 0 /\ Marker(text, r.pos) -> "document_indicator"
        [] c \in {"[", "{"} -> "flow_collection_start"
        [] c \in {"]", "}"} -> "flow_collection_end"
        [] c = "," -> "flow_entry"
        [] c = "-" /\ ends -> "block_entry"
        [] c = "?" /\ ends -> "key"
        [] c = ":" /\ (ends \/ jsonKey) -> "value"
        [] c = "*" -> "alias"
        [] c = "&" -> "anchor"
        [] c = "!" -> "tag"
        [] c \in {"|", ">"} -> IF InFlow(r) THEN "error" ELSE "block_scalar"
        [] c \in {"'", "\""} -> "quoted_scalar"
        [] c = "%" /\ Column(r) = 0 -> "directive"
        [] c \in {"BOM", "@"} -> "error"
        [] OTHER -> "plain_scalar"

-----------------------------------------------------------------------------
(* The fetchers, as functions of the state Ready leaves. *)

\* fetch_stream_end.
StreamEnd(r) ==
  IF r.directive THEN Fail(r, "directive without document")
  ELSE Emit([RemoveSimpleKey(UnrollIndent(r, -1)) EXCEPT !.allowed = FALSE, !.ended = TRUE],
            "StreamEnd", <<>>, r.pos)

\* The directive's arguments: where they end, and the handle %TAG declares.
DirectiveArguments(r) ==
  LET name == SkipUntil(text, r.pos + 1, Sep \cup {"#"})
      b    == SkipWhile(text, name, Blank)
      h    == SkipUntil(text, b, Sep)
      p    == SkipWhile(text, h, Blank)
      e    == SkipUntil(text, p, Sep)
      v    == SkipWhile(text, SkipUntil(text, b, Sep \cup {"#"}), Blank)
      word == Slice(text, r.pos + 1, name)
  IN  CASE word = <<"TAG">> /\ At(text, b) = "!" ->
             [pos |-> e, err |-> FALSE, yaml |-> FALSE,
              handles |-> [x \in DOMAIN r.handles \cup {Slice(text, b, h)} |->
                             IF x = Slice(text, b, h) THEN Slice(text, p, e) ELSE r.handles[x]]]
        [] word = <<"TAG">> -> [pos |-> b, err |-> FALSE, yaml |-> FALSE, handles |-> r.handles]
        [] word = <<"YAML">> ->
             [pos |-> v, yaml |-> TRUE, handles |-> r.handles,
              err |-> r.yamlSeen \/ At(text, v) \notin Break \cup {"eof", "#", "."} \cup DOMAIN Digits]
        [] OTHER -> [pos |-> name, err |-> FALSE, yaml |-> FALSE, handles |-> r.handles]

\* fetch_directive and finish_directive_line.
Directive(r) ==
  LET a   == DirectiveArguments(r)
      end == SkipUntil(text, a.pos, Break)
      packed == At(text, a.pos) = "#" /\ text[a.pos - 1] \notin Sep
  IN  IF r.inBody \/ a.err \/ packed \/ Holds(text, a.pos, end, {"ctl"}) THEN Fail(r, "directive")
      ELSE [RemoveSimpleKey(UnrollIndent(r, -1)) EXCEPT
              !.allowed = FALSE, !.directive = TRUE, !.yamlSeen = @ \/ a.yaml, !.handles = a.handles,
              !.trivia = Append(@, <<r.pos, end>>), !.pos = end]

\* fetch_document_indicator with the blanks after --- consumed by it.
DocumentIndicatorEager(r) ==
  LET q == [RemoveSimpleKey(UnrollIndent(r, -1)) EXCEPT !.allowed = FALSE]
  IN  IF Peek(r) = "-"
      THEN [Emit(q, "DocumentStart", <<>>, r.pos + 3) EXCEPT
              !.pos = SkipWhile(text, r.pos + 3, Blank),
              !.inline = TRUE, !.directive = FALSE, !.inBody = FALSE]
      ELSE [Emit(q, "DocumentEnd", <<>>, r.pos + 3) EXCEPT
              !.yamlSeen = FALSE, !.inBody = FALSE, !.handles = <<>>]

\* fetch_document_indicator: --- opens a document, keeping the directives just
\* declared for it; ... ends one and its directives.
DocumentIndicator(r) ==
  LET q    == [RemoveSimpleKey(UnrollIndent(r, -1)) EXCEPT !.allowed = FALSE]
      p    == r.pos + 3
      look == SkipWhile(text, p, Blank)
      over == r.inBody /\ ~r.directive
  IN  CASE Peek(r) = "-" ->
             [Emit(q, "DocumentStart", <<>>, p) EXCEPT
                !.inline = TRUE, !.directive = FALSE, !.inBody = FALSE,
                !.yamlSeen = @ /\ ~over, !.handles = IF over THEN <<>> ELSE @]
        [] Holds(text, p, look, {"\t"}) \/ At(text, look) \notin Break \cup {"eof", "#"} ->
             Fail(q, "after document end")
        [] OTHER -> [Emit(q, "DocumentEnd", <<>>, p) EXCEPT
                       !.yamlSeen = FALSE, !.inBody = FALSE, !.handles = <<>>]

\* fetch_flow_collection_start: the bracket may itself begin a key, and its
\* contents get a key slot of their own.
FlowCollectionStart(r) ==
  LET kind == IF Peek(r) = "[" THEN "FlowSequence" ELSE "FlowMapping"
      q    == SaveSimpleKey(r, TRUE)
      open == IF kind = "FlowSequence" THEN "FlowSequenceStart" ELSE "FlowMappingStart"
  IN  Emit([q EXCEPT !.keys = Append(@, NoKey), !.flow = Append(@, kind), !.allowed = TRUE,
                     !.opens = FALSE], open, <<>>, r.pos + 1)

\* fetch_flow_collection_end.
FlowCollectionEnd(r) ==
  LET q     == RemoveSimpleKey(r)
      close == IF Peek(r) = "]" THEN "FlowSequenceEnd" ELSE "FlowMappingEnd"
      done  == Emit([q EXCEPT !.keys = Front(@), !.floor = Min({@, Len(r.keys)}),
                              !.flow = Front(@), !.allowed = FALSE], close, <<>>, r.pos + 1)
  IN  IF ~InFlow(r) THEN Fail(r, "stray bracket") ELSE [done EXCEPT !.adjacent = InFlow(done)]

\* fetch_flow_entry.
FlowEntry(r) ==
  Emit([RemoveSimpleKey(r) EXCEPT !.allowed = TRUE], "FlowEntry", <<>>, r.pos + 1)

\* reject_block_inline_with_doc_start: no block collection opens on the line of ---.
InlineWithDocStart(r) == r.inline

\* fetch_block_entry.
BlockEntry(r) ==
  LET q == RemoveSimpleKey(RollIndent(r, Column(r), "BlockSequenceStart", r.pos, -1))
  IN  IF ~InFlow(r) /\ ((~r.allowed /\ ~r.explicit) \/ InlineWithDocStart(r) \/ TabThenIndicator(r.pos + 1))
      THEN Fail(r, "block entry")
      ELSE Emit([q EXCEPT !.allowed = TRUE, !.opens = TRUE], "BlockEntry", <<>>, r.pos + 1)

\* fetch_key, the ? indicator.
ExplicitKey(r) ==
  LET q == RemoveSimpleKey(RollIndent(r, Column(r), "BlockMappingStart", r.pos, -1))
  IN  IF ~InFlow(r) /\ (~r.allowed \/ InlineWithDocStart(r) \/ TabThenIndicator(r.pos + 1))
      THEN Fail(r, "key")
      ELSE Emit([q EXCEPT !.allowed = ~InFlow(r), !.explicit = @ \/ ~InFlow(r), !.opens = TRUE],
                "Key", <<>>, r.pos + 1)

\* roll_indent_for_simple_key at the : instead of at the key.
RollAtColon(r, k) == RollIndent(r, Column(r), "BlockMappingStart", k.index, k.number)

\* roll_indent_for_simple_key: open the block mapping at the key's own column.
RollForKey(r, k) ==
  IF InlineWithDocStart(r) \/ Holds(text, LineStart(text, k.index), k.index, {"\t"}) THEN Fail(r, "key indentation")
  ELSE RollIndent(r, Col(text, k.index), "BlockMappingStart", k.index, k.number)

\* The : itself, with the blanks after it.
ValueIndicator(r) ==
  IF ~InFlow(r) /\ TabThenIndicator(r.pos + 1) THEN Fail(r, "tab after value")
  ELSE Emit([r EXCEPT !.explicit = FALSE, !.opens = TRUE, !.mark = r.pos],
            "Value", <<>>, SkipWhile(text, r.pos + 1, Blank))

\* The key retired as stale instead: it is still there when the : is dispatched again.
RetireKey(r) == [r EXCEPT !.keys[Len(r.keys)].stale = TRUE]

\* Drop the pending key: the : belongs to another pair and is dispatched again.
DropKey(r) == [r EXCEPT !.keys[Len(r.keys)].possible = FALSE]

\* fetch_value: the : completes the pending key, belongs to another pair, or
\* stands on its own.
Value(r) ==
  LET k     == TopKey(r)
      lines == KeyLines(r, k)
      keyed == Insert(r, k.number, "Key", k.index)
      rolled == IF InFlow(r) THEN keyed ELSE RollForKey(keyed, k)
  IN  CASE ~k.possible /\ ~InFlow(r) /\ ~r.allowed /\ ~r.explicit -> Fail(r, "value context")
        [] ~k.possible ->
             ValueIndicator([RollIndent(r, Column(r), "BlockMappingStart", r.pos, -1) EXCEPT
                               !.allowed = ~InFlow(r)])
        [] lines = "dropped" -> DropKey(r)
        [] lines # "fine" -> Fail(r, lines)
        [] KeyTooLong(r, k) -> Fail(r, "key too long")
        [] OTHER -> ValueIndicator([DropKey(rolled) EXCEPT !.allowed = FALSE])

\* scan_anchor_name: the end of the name at i, 0 when it is empty or too long.
NameEnd(i) ==
  LET j == SkipUntil(text, i, Sep \cup FlowMark)
  IN  IF j = i \/ (j > i + NameMax /\ i + NameMax < Len(text)) THEN 0 ELSE j

\* check_pending_property_indent.
PropertyAstray(r) == ~InFlow(r) /\ r.prop /\ Column(r) <= r.indent

\* fetch_anchor.
AnchorOf(r) ==
  LET end == NameEnd(r.pos + 1)
  IN  IF PropertyAstray(r) \/ end = 0 THEN Fail(r, "anchor")
      ELSE Emit([SaveSimpleKey(r, FALSE) EXCEPT !.allowed = FALSE], "Anchor",
                Slice(text, r.pos + 1, end), end)

\* fetch_alias: an alias takes no anchor or tag of its own.
AliasOf(r) ==
  LET end == NameEnd(r.pos + 1)
  IN  IF r.last # "Other" \/ end = 0 THEN Fail(r, "alias")
      ELSE Emit([SaveSimpleKey(r, FALSE) EXCEPT !.allowed = FALSE, !.opens = FALSE], "Alias",
                Slice(text, r.pos + 1, end), end)

\* The three spellings of a tag, from the ! at i: handle, suffix and end, or end 0.
\* split_verbatim_tag gives a verbatim tag its handle.
TagParts(i) ==
  LET close  == SkipUntil(text, i + 2, {">"})
      uri    == Slice(text, i + 2, close)
      prefix == IF uri # <<>> /\ uri[1] \in {"core", "!"} THEN <<uri[1]>> ELSE <<>>
      start  == IF At(text, i + 1) = "!" THEN i + 2 ELSE i + 1
      end    == SkipUntil(text, start, Sep \cup FlowMark)
      bangs  == {k \in start..(end - 1) : text[k] = "!"}
      word   == Slice(text, start, end)
      long   == end > start + NameMax /\ start + NameMax < Len(text)
      bad    == [handle |-> <<>>, suffix |-> <<>>, end |-> 0]
  IN  CASE At(text, i + 1) = "<" ->
             IF \/ uri = <<>> \/ At(text, close) = "eof" \/ Len(uri) > NameMax + 1
                \/ ToSet(uri) \cap {"\t", "\n", "ctl"} # {}
             THEN bad
             ELSE [handle |-> prefix, suffix |-> SubSeq(uri, Len(prefix) + 1, Len(uri)), end |-> close + 1]
        [] long \/ ToSet(word) \cap {"ctl", ">"} # {} -> bad
        [] start = i + 2 ->
             IF start \in bangs THEN bad ELSE [handle |-> <<"!", "!">>, suffix |-> word, end |-> end]
        [] bangs = {} -> [handle |-> <<"!">>, suffix |-> word, end |-> end]
        [] Cardinality(bangs) > 1 -> bad
        [] OTHER -> LET b == Min(bangs)
                    IN  [handle |-> <<"!">> \o Slice(text, start, b + 1),
                         suffix |-> Slice(text, b + 1, end), end |-> end]

\* fetch_tag: the handle a %TAG directive declared is replaced by its prefix, and
\* a named handle must have been declared.
TagOf(r) ==
  LET p == TagParts(r.pos)
      h == IF p.handle \in DOMAIN r.handles THEN r.handles[p.handle] ELSE p.handle
      named == p.handle \notin DOMAIN r.handles /\ Len(p.handle) > 2
      malformed == At(text, p.end) \in {"{", "["} \cup IF InFlow(r) THEN {} ELSE FlowStop
  IN  IF PropertyAstray(r) \/ p.end = 0 \/ malformed \/ named THEN Fail(r, "tag")
      ELSE Emit([SaveSimpleKey(r, FALSE) EXCEPT !.allowed = FALSE], "Tag", <<h, p.suffix>>, p.end)

\* The token of a scalar a reader has read.
ScalarToken(r, kind, read) ==
  IF read.err # "" THEN Fail(r, read.err)
  ELSE [Emit(r, kind, read.body, read.pos) EXCEPT !.opens = FALSE]

\* fetch_plain_scalar: the single-line path first, the folding one when the
\* scalar may go on.  A scalar that ends at a line start allows a key there.
PlainScalar(r) ==
  LET line == PlainLineEnd(text, r.pos, r.memo)
      q    == [SaveSimpleKey(r, FALSE) EXCEPT !.allowed = FALSE, !.memo = line]
      fast == PlainFast(text, r.pos, line, InFlow(r))
      Slow(slow) == ScalarToken([q EXCEPT !.allowed = ~InFlow(r) /\ slow.lead], "Plain", slow)
  IN  IF fast.pos # 0 \/ fast.err # "" THEN ScalarToken(q, "Plain", fast)
      ELSE Slow(PlainSlow(text, r.pos, InFlow(r), r.indent))

\* fetch_quoted_scalar.
QuotedScalar(r) ==
  LET q    == [SaveSimpleKey(r, TRUE) EXCEPT !.allowed = FALSE]
      kind == IF Peek(r) = "'" THEN "SingleQuoted" ELSE "DoubleQuoted"
  IN  [ScalarToken(q, kind, Quoted(text, r.pos, InFlow(r), r.indent)) EXCEPT !.adjacent = InFlow(r)]

\* fetch_block_scalar.
BlockScalarOf(r) ==
  LET kind == IF Peek(r) = "|" THEN "Literal" ELSE "Folded"
  IN  ScalarToken([RemoveSimpleKey(r) EXCEPT !.allowed = TRUE], kind, BlockScalar(text, r.pos, r.indent))

-----------------------------------------------------------------------------
(* The actions. *)

\* queue_over_budget, asked after every fetch.
Budgeted(r) ==
  IF r.err = "" /\ Len(r.tokens) > MaxEvents * 8 + Backlog THEN Fail(r, "backlog") ELSE r
Fetched(r) == s' = Budgeted(r) /\ UNCHANGED text

\* fetch_stream_start.
StreamStart(r) ==
  LET p == IF At(text, 1) = "BOM" THEN 2 ELSE 1
  IN  Emit([r EXCEPT !.started = TRUE, !.allowed = TRUE, !.keys = <<NoKey>>, !.mark = p,
                     !.trivia = IF p = 2 THEN <<<<1, 2>>>> ELSE <<>>],
           "StreamStart", <<>>, p)
FetchStreamStart == ~s.started /\ Fetched(StreamStart(s))

\* One call of fetch_next_token after the first.
FetchError(r) == Dispatch(r) = "error" /\ Fetched(Fail(r, IF r.err = "" THEN "indicator" ELSE r.err))
FetchStreamEnd(r) == Dispatch(r) = "stream_end" /\ Fetched(StreamEnd(r))
FetchDirective(r) == Dispatch(r) = "directive" /\ Fetched(Directive(r))
FetchDocumentIndicator(r) == Dispatch(r) = "document_indicator" /\ Fetched(DocumentIndicator(r))
FetchFlowCollectionStart(r) == Dispatch(r) = "flow_collection_start" /\ Fetched(FlowCollectionStart(r))
FetchFlowCollectionEnd(r) == Dispatch(r) = "flow_collection_end" /\ Fetched(FlowCollectionEnd(r))
FetchFlowEntry(r) == Dispatch(r) = "flow_entry" /\ Fetched(FlowEntry(r))
FetchBlockEntry(r) == Dispatch(r) = "block_entry" /\ Fetched(BlockEntry(r))
FetchKey(r) == Dispatch(r) = "key" /\ Fetched(ExplicitKey(r))
FetchValue(r) == Dispatch(r) = "value" /\ Fetched(Value(r))
FetchAnchor(r) == Dispatch(r) = "anchor" /\ Fetched(AnchorOf(r))
FetchAlias(r) == Dispatch(r) = "alias" /\ Fetched(AliasOf(r))
FetchTag(r) == Dispatch(r) = "tag" /\ Fetched(TagOf(r))
FetchPlainScalar(r) == Dispatch(r) = "plain_scalar" /\ Fetched(PlainScalar(r))
FetchQuotedScalar(r) == Dispatch(r) = "quoted_scalar" /\ Fetched(QuotedScalar(r))
FetchBlockScalar(r) == Dispatch(r) = "block_scalar" /\ Fetched(BlockScalarOf(r))

\* next_token once no key holds the queue back: the oldest token goes out.
HandedOut(r) == [r EXCEPT !.tokens = Tail(@), !.produced = @ + 1, !.out = Append(@, Head(r.tokens))]
HandOut ==
  /\ s.err = "" /\ s.started /\ ~NeedsMoreTokens(s) /\ s.tokens # <<>>
  /\ s' = HandedOut(s)
  /\ UNCHANGED text

FetchNextToken ==
  /\ s.err = "" /\ s.started /\ NeedsMoreTokens(s)
  /\ \E r \in {Ready(s)} :
       \/ FetchError(r) \/ FetchStreamEnd(r) \/ FetchDirective(r) \/ FetchDocumentIndicator(r)
       \/ FetchFlowCollectionStart(r) \/ FetchFlowCollectionEnd(r) \/ FetchFlowEntry(r)
       \/ FetchBlockEntry(r) \/ FetchKey(r) \/ FetchValue(r) \/ FetchAnchor(r) \/ FetchAlias(r)
       \/ FetchTag(r) \/ FetchPlainScalar(r) \/ FetchQuotedScalar(r) \/ FetchBlockScalar(r)

Init(t) == text = t /\ s = New(t)
Next == FetchStreamStart \/ FetchNextToken \/ HandOut

Finished == s.err # "" \/ (s.ended /\ s.tokens = <<>>)
Clean == Finished /\ s.err = ""

-----------------------------------------------------------------------------
(* Properties. *)

\* The pending keys and the queue agree (scanner.rs, live_key_floor and
\* needs_more_tokens): every key below the floor is dead, the live keys number
\* tokens still in the queue and in the order of their levels, so asking the
\* oldest one is asking them all and no insertion reaches past the queue's head.
KeysHoldTheirTokens ==
  LET live == {l \in DOMAIN s.keys : Live(s.keys[l])}
  IN  /\ s.err # "panic"
      /\ ~s.ended => \A l \in live :
                         /\ l >= s.floor
                         /\ s.keys[l].number \in s.produced..NextNumber(s)
                         /\ \A m \in live : l < m => s.keys[l].number < s.keys[m].number
      /\ s.started /\ ~s.ended /\ s.tokens # <<>> =>
           (NeedsMoreTokens(s) <=> \E l \in live : s.keys[l].number = s.produced)

\* The tokens the green tree takes a leaf of source from.
Leaf(k) == k.kind \notin {"StreamStart", "StreamEnd", "BlockEnd", "BlockSequenceStart", "BlockMappingStart"}
           /\ k.to > k.from

Spans ==
  {<<k.from, k.to>> : k \in {x \in ToSet(s.out) : Leaf(x)}}
    \cup ToSet(s.trivia) \cup {<<c.from, c.to>> : c \in ToSet(s.comments)}

\* Nothing of the text is lost or read twice: when a scan ends, the leaves, the
\* trivia and the comments it recorded (next_token, skip_to_next_token) cover
\* every cell exactly once, which is what the lossless green tree is built from.
Lossless ==
  Clean => \A i \in DOMAIN text : Cardinality({x \in Spans : x[1] <= i /\ i < x[2]}) = 1

\* The open collections after the first n tokens handed out, as their columns
\* (-1 for a flow collection); <<-9>> when more were closed than opened.
RECURSIVE OpenAfter(_)
OpenAfter(n) ==
  IF n = 0 THEN <<>>
  ELSE LET open == OpenAfter(n - 1)
           k    == s.out[n].kind
       IN  CASE k \in {"BlockSequenceStart", "BlockMappingStart"} -> Append(open, Col(text, s.out[n].from))
             [] k \in {"FlowSequenceStart", "FlowMappingStart"} -> Append(open, -1)
             [] k \in {"BlockEnd", "FlowSequenceEnd", "FlowMappingEnd"} ->
                  IF open = <<>> THEN <<-9>> ELSE Front(open)
             [] OTHER -> open

\* Block structure follows columns: every entry, key and block start handed out
\* stands at the column of the innermost block open there, blocks open strictly
\* rightwards, and a finished scan has closed each of them (roll_indent,
\* unroll_indent, roll_indent_for_simple_key).
EntriesAligned ==
  /\ s.out # <<>> =>
       LET n    == Len(s.out)
           k    == s.out[n]
           open == OpenAfter(n)
       IN  /\ open # <<-9>>
           /\ k.kind \in {"BlockEntry", "Key"} /\ open # <<>> /\ Last(open) >= 0 =>
                Col(text, k.from) = Last(open)
           /\ k.kind \in {"BlockEntry", "Key"} => open # <<>>
           /\ k.kind \in {"BlockSequenceStart", "BlockMappingStart"} /\ Len(open) > 1 =>
                Last(open) > open[Len(open) - 1]
  /\ Clean /\ ~InFlow(s) => OpenAfter(Len(s.out)) = <<>>

\* The borrowed single-line path and the folding path read a plain scalar the
\* same (try_plain_single_line, scan_plain_multiline, and the line-end memo
\* the first one uses): whichever is taken, the value is the other one's.
PlainPathsAgree ==
  [][ \A r \in {Ready(s)} :
        FetchNextToken /\ Dispatch(r) = "plain_scalar" /\ s'.err = "" =>
          Last(s'.tokens).body = PlainSlow(text, r.pos, InFlow(r), r.indent).body ]_vars

\* Every step of a scan gets somewhere: the cursor or the count of tokens handed
\* out moves on, or the stream starts or ends, or a pending key is dropped (which
\* can happen once per key), and neither ever moves back.  A : dispatched again
\* (check_implicit_key_lines) therefore cannot be dispatched forever.
Pending(r) == Cardinality({l \in DOMAIN r.keys : r.keys[l].possible})
ScanProgresses ==
  [][ \/ s'.err # ""
      \/ s'.pos > s.pos /\ s'.produced = s.produced
      \/ s'.pos = s.pos /\ \/ s'.produced > s.produced
                           \/ <<s'.started, s'.ended>> # <<s.started, s.ended>>
                           \/ Pending(s') < Pending(s) ]_vars
=============================================================================
