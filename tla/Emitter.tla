------------------------------ MODULE Emitter ------------------------------
(***************************************************************************)
(* The YAML writer (src/crates/noyalib/src/ser.rs, value_to_string down):  *)
(* a value and a configuration become a text, in the cells of ScanText.    *)
(*                                                                         *)
(* A value is a record: null, bool, num and str carry their text, seq its  *)
(* items, map its entries <<key, value>>, tag a user tag and its payload,  *)
(* and a directive one of the crate's own formatting hints (fmt.rs) around *)
(* its inner value.  A configuration c also carries Cx's in_flow flag.     *)
(* Each writer takes the output so far and returns the longer one; the     *)
(* cell "deep" in an output stands for RecursionLimitExceeded.             *)
(***************************************************************************)
EXTENDS ScanText

Null == [kind |-> "null"]
Str(t) == [kind |-> "str", text |-> t]
Seq1(items) == [kind |-> "seq", items |-> items]
Map1(entries) == [kind |-> "map", entries |-> entries]
Directives == {"flow_seq", "flow_map", "lit_str", "fold_str", "commented", "space_after",
               "anchor_def", "anchor_ref"}

\* What a SerializerConfig holds, and Cx's flag.
SerializerConfig ==
  [indent : Nat \ {0}, document_start : BOOLEAN, document_end : BOOLEAN, block_scalars : BOOLEAN,
   block_scalar_threshold : Nat, flow_style : {"Block", "Flow", "Auto"}, flow_threshold : Nat,
   quote_all : BOOLEAN, prefer_single_quotes : BOOLEAN, compact_list_indent : BOOLEAN,
   max_depth : Nat, in_flow : {FALSE}]

Flow(c) == [c EXCEPT !.in_flow = TRUE]
EndsLine(out) == out # <<>> /\ Last(out) = "\n"

-----------------------------------------------------------------------------
(* Strings: which style reads back as exactly this text. *)

\* The resolver every reader shares, over the decimal spellings: a sign, digits, one
\* point.  legacy adds the base-60 numbers of YAML 1.1.
Unsigned(t) == IF t # <<>> /\ Head(t) \in {"+", "-"} THEN Tail(t) ELSE t
parse_integer(t) == Unsigned(t) # <<>> /\ ToSet(Unsigned(t)) \subseteq DOMAIN Digits
parse_plain_float(t) ==
  LET u == Unsigned(t)
  IN  /\ ToSet(u) \subseteq DOMAIN Digits \cup {"."} /\ ToSet(u) \cap DOMAIN Digits # {}
      /\ Cardinality({i \in DOMAIN u : u[i] = "."}) <= 1
parse_sexagesimal(t) ==
  LET u == Unsigned(t)
  IN  \E i \in DOMAIN u : /\ u[i] = ":"
                          /\ parse_integer(Slice(u, 1, i)) /\ u[1] \in DOMAIN Digits
                          /\ parse_plain_float(Slice(u, i + 1, Len(u) + 1)) /\ u[i + 1] \in DOMAIN Digits \cup {"."}

resolve_plain_ext(t, legacy) ==
  CASE t \in {<<>>, <<"null">>, <<"~">>} -> "null"
    [] t = <<"true">> -> "bool"
    [] parse_integer(t) \/ parse_plain_float(t) \/ (legacy /\ parse_sexagesimal(t)) -> "num"
    [] OTHER -> "str"

resolves_as_non_string(t) == resolve_plain_ext(t, TRUE) # "str"

\* looks_like_number: stacked signs are skipped, a digit or a point and a digit opens.
looks_like_number(t) ==
  LET u == Slice(t, SkipWhile(t, 1, {"+", "-"}), Len(t) + 1)
  IN  /\ At(u, 1) \in DOMAIN Digits \/ (At(u, 1) = "." /\ At(u, 2) \in DOMAIN Digits)
      /\ resolves_as_non_string(u)

is_reserved_word(t) == t \in {<<"true">>, <<"null">>, <<"~">>}

\* colon_ends_plain and hash_starts_comment.
colon_ends_plain(t, i) == At(t, i + 1) \in {"eof"} \cup Blank \cup FlowMark
hash_starts_comment(t, i) == i = 1 \/ t[i - 1] \in Blank

needs_double_quoted_escape(t) == ToSet(t) \cap {"ctl", "BOM"} # {}

\* FIRST_CHAR_QUOTE, "@" standing for the two reserved indicators.
FirstCharQuote == {" ", "-", "&", "*", "!", "|", ">", "%", "@", "{", "}", "[", "]", ",", "?", "'", "\""}

\* byte_forces_quotes with NEEDS_QUOTE_BYTE.
byte_forces_quotes(t, i) ==
  CASE t[i] = ":" -> colon_ends_plain(t, i)
    [] t[i] = "#" -> hash_starts_comment(t, i)
    [] OTHER -> t[i] \in {"\n", "ctl"}

has_flow_indicator(t) == ToSet(t) \cap FlowMark # {}

is_plain_safe(t, inFlow) ==
  /\ Head(t) \notin FirstCharQuote \cup {"\t"} /\ Last(t) \notin Blank
  /\ ~is_reserved_word(t) /\ ~looks_like_number(t)
  /\ ~(inFlow /\ has_flow_indicator(t))
  /\ \A i \in DOMAIN t : ~byte_forces_quotes(t, i)

\* is_simple_plain, its byte filter: letters, digits and _ - . / between two of the first.
AlphaNumeric == {"a", "b", "k", "true", "null"} \cup DOMAIN Digits
is_simple_plain(t) ==
  /\ Head(t) \in AlphaNumeric /\ Last(t) \in AlphaNumeric
  /\ ToSet(t) \subseteq AlphaNumeric \cup {"_", "-", ".", "/"}
  /\ ~is_reserved_word(t) /\ ~looks_like_number(t)

\* single_quote_safe and quoted_style.
single_quote_safe(t) == ToSet(t) \cap {"\t", "\n", "ctl"} = {}
quoted_style(t, single) ==
  IF single /\ single_quote_safe(t) /\ ~needs_double_quoted_escape(t) THEN "Single" ELSE "Double"

string_style(t, c) ==
  CASE t = <<>> -> IF c.prefer_single_quotes THEN "Single" ELSE "Double"
    [] c.quote_all \/ IsPrefix(<<".", ".", ".">>, t) -> quoted_style(t, TRUE)
    [] is_simple_plain(t) -> "Plain"
    [] /\ c.block_scalars /\ ~c.in_flow /\ ~needs_double_quoted_escape(t)
       /\ Cardinality({i \in DOMAIN t : t[i] = "\n"}) >= c.block_scalar_threshold -> "Block"
    [] needs_double_quoted_escape(t) -> "Double"
    [] is_plain_safe(t, c.in_flow) -> "Plain"
    [] OTHER -> quoted_style(t, c.prefer_single_quotes)

write_single_quoted(t) ==
  <<"'">> \o FlattenSeq([i \in DOMAIN t |-> IF t[i] = "'" THEN <<"'", "'">> ELSE <<t[i]>>]) \o <<"'">>

write_double_quoted(t) ==
  LET esc(x) == CASE x \in {"\"", "\\"} -> <<"\\", x>>
                  [] x = "\n" -> <<"\\", "n">>
                  [] x = "\t" -> <<"\\", "t">>
                  [] x = "ctl" -> <<"\\", "x">>
                  [] OTHER -> <<x>>
  IN  <<"\"">> \o FlattenSeq([i \in DOMAIN t |-> esc(t[i])]) \o <<"\"">>

-----------------------------------------------------------------------------
(* Block scalars. *)

\* str::lines: the text after a last line break is not a line.
RECURSIVE Lines(_)
Lines(t) ==
  IF t = <<>> THEN <<>>
  ELSE LET e == SkipUntil(t, 1, Break) IN <<Slice(t, 1, e)>> \o Lines(Slice(t, e + 1, Len(t) + 1))

write_block_scalar_body(t, n, c) ==
  LET width == c.indent * (n + 1)
      row(line) == <<"\n">> \o IF line = <<>> THEN <<>> ELSE Spaces(width) \o line
  IN  FlattenSeq([i \in DOMAIN Lines(t) |-> row(Lines(t)[i])])

\* The indicator that always is left out: the indent is detected.
NoIndentIndicator(t, c) == <<>>

\* block_scalar_indent_indicator: when the first line with content opens with a blank.
block_scalar_indent_indicator(t, c) ==
  LET full == SelectSeq(Lines(t), LAMBDA l : l # <<>>)
  IN  IF full # <<>> /\ Head(Head(full)) \in Blank
      THEN <<CHOOSE d \in DOMAIN Digits : Digits[d] = c.indent>> ELSE <<>>

block_chomping(t) ==
  CASE ~EndsLine(t) -> <<"-">>
    [] IsSuffix(<<"\n", "\n">>, t) \/ \A i \in DOMAIN Lines(t) : Lines(t)[i] = <<>> -> <<"+">>
    [] OTHER -> <<>>

\* write_literal_block and write_folded_block.
write_hinted_block(mark, t, n, c) ==
  <<mark>> \o block_scalar_indent_indicator(t, c) \o block_chomping(t) \o write_block_scalar_body(t, n, c)

\* write_block_scalar: the last line ends with a break of its own.
write_block_scalar(t, n, c) ==
  write_hinted_block("|", t, n, c) \o IF EndsLine(t) THEN <<"\n">> ELSE <<>>

write_string(t, n, c) ==
  LET style == string_style(t, c)
  IN  CASE style = "Plain" -> t
        [] style = "Single" -> write_single_quoted(t)
        [] style = "Double" -> write_double_quoted(t)
        [] style = "Block" -> write_block_scalar(t, n, c)

\* write_key_string: a key fits on one line, and << as a key is never plain.
write_key_string(t, n, c) ==
  CASE "\n" \in ToSet(t) -> write_double_quoted(t)
    [] t = <<"<", "<">> -> IF quoted_style(t, c.prefer_single_quotes) = "Single"
                           THEN write_single_quoted(t) ELSE write_double_quoted(t)
    [] OTHER -> write_string(t, n, c)

-----------------------------------------------------------------------------
(* Layout: what goes on the indicator's own line. *)

RECURSIVE auto_flow_eligible(_, _)
auto_flow_eligible(v, c) ==
  CASE v.kind = "seq" -> Len(v.items) <= c.flow_threshold
                         /\ \A i \in DOMAIN v.items : auto_flow_eligible(v.items[i], c)
    [] v.kind = "map" -> Len(v.entries) <= c.flow_threshold
                         /\ \A i \in DOMAIN v.entries : auto_flow_eligible(v.entries[i][2], c)
    [] OTHER -> v.kind \notin Directives \cup {"tag"}

\* use_flow: v is a collection.
use_flow(v, c) ==
  c.in_flow \/ c.flow_style = "Flow" \/ (c.flow_style = "Auto" /\ auto_flow_eligible(v, c))

is_block_collection(v, c) ==
  \/ v.kind = "seq" /\ v.items # <<>> /\ ~use_flow(v, c)
  \/ v.kind = "map" /\ v.entries # <<>> /\ ~use_flow(v, c)

\* The shape a directive is meant for, and so does not fall through.
FitsShape(v) ==
  \/ v.kind = "flow_seq" /\ v.inner.kind = "seq"
  \/ v.kind = "flow_map" /\ v.inner.kind = "map"
  \/ v.kind \in {"lit_str", "fold_str"} /\ v.inner.kind = "str"

RECURSIVE needs_block_layout(_, _)
needs_block_layout(v, c) ==
  CASE v.kind = "anchor_ref" -> FALSE
    [] v.kind \in Directives -> ~FitsShape(v) /\ needs_block_layout(v.inner, c)
    [] v.kind = "tag" -> needs_block_layout(v.inner, c)
    [] OTHER -> is_block_collection(v, c)

indicator_takes_a_space(v, c) == ~needs_block_layout(v, c) \/ v.kind \in {"tag", "anchor_def"}

AfterIndicator(out, v, c) == IF indicator_takes_a_space(v, c) THEN Append(out, " ") ELSE out

\* start_line.
start_line(out, width) == (IF EndsLine(out) THEN out ELSE Append(out, "\n")) \o Spaces(width)

\* The level of a mapping's value; compact_list_indent keeps a sequence at its key's.
next_indent(v, n, c) ==
  IF needs_block_layout(v, c) /\ ~(c.compact_list_indent /\ v.kind = "seq") THEN n + 1 ELSE n

\* write_tag_spelling: the shorthand, or the verbatim form for what it cannot carry.
write_tag_spelling(tag) ==
  LET body == CASE IsPrefix(<<"!", "!">>, tag) -> SubSeq(tag, 3, Len(tag))
                [] IsPrefix(<<"!">>, tag) -> Tail(tag)
                [] OTHER -> <<>>
      verbatim == \/ Head(tag) # "!"
                  \/ At(body, 1) = "<"
                  \/ ToSet(body) \cap (FlowMark \cup Blank \cup {"!"}) # {}
  IN  IF verbatim THEN <<"!", "<">> \o tag \o <<">">> ELSE tag

\* A tag no spelling can carry: written as a mapping keyed by it.
Unspellable(tag) == ToSet(tag) \cap {"ctl", "\t", "\n", ">"} # {}

\* write_comment, the comment as its lines.
RECURSIVE write_comment(_, _, _, _)
write_comment(out, rows, inline, width) ==
  IF rows = <<>> THEN out
  ELSE LET open == IF inline THEN Append(out, " ") ELSE start_line(out, width)
           row  == [i \in DOMAIN Head(rows) |-> IF Head(rows)[i] = "ctl" THEN "a" ELSE Head(rows)[i]]
       IN  write_comment(open \o <<"#">> \o (IF row = <<>> THEN <<>> ELSE <<" ">> \o row), Tail(rows), FALSE, width)

-----------------------------------------------------------------------------
(* The writers.  n is the level, root whether nothing precedes the value on
   its line, d the depth. *)

RECURSIVE write_value(_, _, _, _, _, _)
RECURSIVE write_items(_, _, _, _, _, _, _)
RECURSIVE write_entries(_, _, _, _, _, _, _)
RECURSIVE write_flow(_, _, _, _, _)

\* The contents of write_flow_sequence and write_flow_mapping, from the i-th on.
write_flow(out, v, i, c, d) ==
  IF i > Len(IF v.kind = "seq" THEN v.items ELSE v.entries) THEN out
  ELSE LET sep == IF i > 1 THEN out \o <<",", " ">> ELSE out
       IN  write_flow(IF v.kind = "seq" THEN write_value(sep, v.items[i], 0, FALSE, c, d + 1)
                      ELSE write_value(sep \o write_key_string(v.entries[i][1], 0, c) \o <<":", " ">>,
                                       v.entries[i][2], 0, FALSE, c, d + 1), v, i + 1, c, d)

write_flow_sequence(out, v, c, d) == Append(write_flow(Append(out, "["), v, 1, Flow(c), d), "]")
write_flow_mapping(out, v, c, d) == Append(write_flow(Append(out, "{"), v, 1, Flow(c), d), "}")

\* The block form of write_mapping, from the i-th entry on; the body of a
\* sequence item that is a mapping is the same, one level in.
write_entries(out, es, i, n, root, c, d) ==
  IF i > Len(es) THEN out
  ELSE LET line == IF i > 1 \/ ~root THEN start_line(out, c.indent * n) ELSE out
           key  == line \o write_key_string(es[i][1], n, c) \o <<":">>
           v    == es[i][2]
       IN  write_entries(write_value(AfterIndicator(key, v, c), v, next_indent(v, n, c), FALSE, c, d + 1),
                         es, i + 1, n, root, c, d)

write_mapping(out, v, n, root, c, d) ==
  CASE v.entries = <<>> -> out \o <<"{", "}">>
    [] use_flow(v, c) -> write_flow_mapping(out, v, c, d)
    [] OTHER -> write_entries(out, v.entries, 1, n, root, c, d)

\* The block form of write_sequence: a mapping starts on the dash's line, and so
\* does a sequence under compact_list_indent.
write_items(out, items, i, n, root, c, d) ==
  IF i > Len(items) THEN out
  ELSE LET dash  == Append(IF i > 1 \/ ~root THEN start_line(out, c.indent * n) ELSE out, "-")
           v     == items[i]
           level == IF needs_block_layout(v, c) THEN n + 1 ELSE n
           item  == CASE v.kind = "map" /\ v.entries # <<>> ->
                           write_entries(Append(dash, " "), v.entries, 1, n + 1, TRUE, c, d)
                      [] v.kind = "seq" /\ v.items # <<>> /\ c.compact_list_indent ->
                           IF use_flow(v, c) THEN write_flow_sequence(Append(dash, " "), v, c, d + 1)
                           ELSE write_items(Append(dash, " "), v.items, 1, n + 1, TRUE, c, d + 1)
                      [] OTHER -> write_value(AfterIndicator(dash, v, c), v, level, FALSE, c, d + 1)
       IN  write_items(item, items, i + 1, n, root, c, d)

write_sequence(out, v, n, root, c, d) ==
  CASE v.items = <<>> -> out \o <<"[", "]">>
    [] use_flow(v, c) -> write_flow_sequence(out, v, c, d)
    [] OTHER -> write_items(out, v.items, 1, n, root, c, d)

write_user_tag(out, v, n, c, d) ==
  LET braced == Unspellable(v.tag) /\ c.in_flow
      name   == IF Unspellable(v.tag) THEN write_key_string(v.tag, n, c) \o <<":">> ELSE write_tag_spelling(v.tag)
      open   == (IF braced THEN Append(out, "{") ELSE out) \o name
      done   == write_value(AfterIndicator(open, v.inner, c), v.inner, n, FALSE, c, d + 1)
  IN  IF braced THEN Append(done, "}") ELSE done

\* write_anchor_def: a block collection starts on the line after the anchor.
write_anchor_def(out, v, n, c, d) ==
  LET open == out \o <<"&">> \o v.id
      line == Append(open, "\n") \o Spaces(c.indent * n)
  IN  CASE ~is_block_collection(v.inner, c) -> write_value(Append(open, " "), v.inner, n, FALSE, c, d + 1)
        [] v.inner.kind = "map" -> write_mapping(line, v.inner, n, TRUE, c, d + 1)
        [] v.inner.kind = "seq" -> write_sequence(line, v.inner, n, TRUE, c, d + 1)

\* The comment after its value: on the value's line when that is a single line.
WriteCommented(out, v, n, root, c, d) ==
  LET value == write_value(out, v.inner, n, root, c, d)
  IN  write_comment(value, v.comment, ~Holds(value, Len(out) + 1, Len(value) + 1, Break), c.indent * n)

\* write_internal_tag, write_flow_hinted its arm for a flow collection.
write_internal_tag(out, v, n, root, c, d) ==
  CASE v.kind = "flow_seq" /\ FitsShape(v) -> write_flow_sequence(out, v.inner, c, d)
    [] v.kind = "flow_map" /\ FitsShape(v) -> write_flow_mapping(out, v.inner, c, d)
    [] v.kind \in {"lit_str", "fold_str", "commented", "space_after"} /\ c.in_flow ->
         write_value(out, v.inner, 0, FALSE, c, d)
    [] v.kind = "lit_str" /\ FitsShape(v) -> out \o write_hinted_block("|", v.inner.text, n, c)
    [] v.kind = "fold_str" /\ FitsShape(v) -> out \o write_hinted_block(">", v.inner.text, n, c)
    [] v.kind = "commented" -> WriteCommented(out, v, n, root, c, d)
    [] v.kind = "space_after" ->
         write_value(out, v.inner, n, root, c, d) \o IF root THEN <<"\n">> ELSE <<"\n", "\n">>
    [] v.kind = "anchor_def" -> write_anchor_def(out, v, n, c, d)
    [] v.kind = "anchor_ref" -> out \o <<"*">> \o v.id
    [] OTHER -> write_value(out, v.inner, n, root, c, d)

write_value(out, v, n, root, c, d) ==
  CASE d > c.max_depth -> Append(out, "deep")
    [] v.kind = "null" -> Append(out, "null")
    [] v.kind \in {"bool", "num"} -> out \o v.text
    [] v.kind = "str" -> out \o write_string(v.text, n, c)
    [] v.kind = "seq" -> write_sequence(out, v, n, root, c, d)
    [] v.kind = "map" -> write_mapping(out, v, n, root, c, d)
    [] v.kind = "tag" -> write_user_tag(out, v, n, c, d)
    [] OTHER -> write_internal_tag(out, v, n, root, c, d)

\* value_to_string, the document markers included.
value_to_string(v, c) ==
  LET open == IF c.document_start THEN <<"-", "-", "-", "\n">> ELSE <<>>
      Close(out) == IF c.document_end THEN start_line(out, 0) \o <<".", ".", ".">> ELSE out
  IN  Close(write_value(open, v, 0, TRUE, c, 0))
=============================================================================
