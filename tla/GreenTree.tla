----------------------------- MODULE GreenTree -----------------------------
(***************************************************************************)
(* The lossless tree of a text (cst/builder.rs) and its repair after an    *)
(* edit (cst/document/edit.rs): the smallest node around the edit is       *)
(* parsed again on its own and put back into the kept tree, when its new   *)
(* text alone still makes one node of its kind.                            *)
(*                                                                         *)
(* The tree is built from what a scan recorded.  Scanner's variables hold  *)
(* the scan of the text edited; the texts an edit makes are scanned here   *)
(* from one end to the other, by the same operators.  Positions of an      *)
(* edit are cuts, 0 .. Len(text): cut n lies after cell n.  The builder's  *)
(* depth limit and its length limit are left out.                          *)
(***************************************************************************)
EXTENDS Scanner

CONSTANTS EditTexts,    \* the texts edited
          Replacements, \* what a splice puts in
          MaxCut        \* bound: the cells a splice takes out

ASSUME MaxCut \in Nat

(***************************************************************************)
(* Scanning a text to its end.                                             *)
(***************************************************************************)
On(t) == INSTANCE Scanner WITH text <- t

\* fetch_next_token, by the fetcher it dispatches to.
Fetch(t, r) ==
  LET which == On(t)!Dispatch(r)
  IN  CASE which = "error" -> Fail(r, IF r.err = "" THEN "indicator" ELSE r.err)
        [] which = "stream_end" -> On(t)!StreamEnd(r)
        [] which = "directive" -> On(t)!Directive(r)
        [] which = "document_indicator" -> On(t)!DocumentIndicator(r)
        [] which = "flow_collection_start" -> On(t)!FlowCollectionStart(r)
        [] which = "flow_collection_end" -> On(t)!FlowCollectionEnd(r)
        [] which = "flow_entry" -> On(t)!FlowEntry(r)
        [] which = "block_entry" -> On(t)!BlockEntry(r)
        [] which = "key" -> On(t)!ExplicitKey(r)
        [] which = "value" -> On(t)!Value(r)
        [] which = "alias" -> On(t)!AliasOf(r)
        [] which = "anchor" -> On(t)!AnchorOf(r)
        [] which = "tag" -> On(t)!TagOf(r)
        [] which = "block_scalar" -> On(t)!BlockScalarOf(r)
        [] which = "quoted_scalar" -> On(t)!QuotedScalar(r)
        [] which = "plain_scalar" -> On(t)!PlainScalar(r)

Step(t, r) ==
  CASE ~r.started -> On(t)!Budgeted(On(t)!StreamStart(r))
    [] r.started /\ On(t)!NeedsMoreTokens(r) -> On(t)!Budgeted(Fetch(t, On(t)!Ready(r)))
    [] OTHER -> On(t)!HandedOut(r)

\* The scan of a text from one end to the other.  Eight steps at a time, as TLC
\* cannot follow a recursion as deep as a scan is long.
Over(r) == r.err # "" \/ (r.ended /\ r.tokens = <<>>)
Stride(t, first) ==
  LET run[n \in 0 .. 8] == IF n = 0 THEN first ELSE LET r == run[n - 1] IN IF Over(r) THEN r ELSE Step(t, r)
  IN  run[8]
Scan(t) ==
  LET run[n \in 0 .. Len(t) + 2] ==
        IF n = 0 THEN New(t) ELSE LET r == run[n - 1] IN IF Over(r) THEN r ELSE Stride(t, r)
  IN  run[Len(t) + 2]

(***************************************************************************)
(* TreeBuilder.                                                            *)
(***************************************************************************)
Nodes == {"Document", "BlockMapping", "BlockSequence", "MappingEntry", "SequenceItem",
          "FlowMapping", "FlowSequence"}
Flows == {"FlowMapping", "FlowSequence"}
Entries == {"MappingEntry", "SequenceItem"}

\* A leaf, and a frame under construction: GreenChild and GreenNode.
Tree(kind, len, kids) == [kind |-> kind, len |-> len, kids |-> kids]

top_kind(b) == Last(b).kind
push_leaf(b, child) ==
  [b EXCEPT ![Len(b)].kids = Append(@, child), ![Len(b)].len = @ + child.len]
push_frame(b, kind) == Append(b, Tree(kind, 0, <<>>))
pop_frame(b) == IF Len(b) = 1 THEN b ELSE push_leaf(Front(b), Last(b))
close_open_entry(b) == IF top_kind(b) \in Entries THEN pop_frame(b) ELSE b

nearest_container_kind(b) ==
  b[Max({n \in DOMAIN b : b[n].kind \in Nodes \ Entries})].kind
open_entry_in(b, container, entry) ==
  IF nearest_container_kind(b) = container THEN push_frame(close_open_entry(b), entry) ELSE b
close_flow(b, frame, leaf) ==
  LET c == push_leaf(b, leaf) IN IF top_kind(c) = frame THEN pop_frame(c) ELSE c
close_block(b) == IF top_kind(b) \in {"BlockMapping", "BlockSequence"} THEN pop_frame(b) ELSE b

\* A Key without length opens the entry of an implicit key and has no leaf.
handle_token(b, k) ==
  LET leaf == Tree(k.kind, k.to - k.from, <<>>)
  IN  CASE k.kind = "BlockMappingStart" -> push_frame(b, "BlockMapping")
        [] k.kind = "BlockSequenceStart" -> push_frame(b, "BlockSequence")
        [] k.kind = "BlockEnd" -> close_block(close_open_entry(b))
        [] k.kind = "Key" /\ k.to = k.from -> open_entry_in(b, "BlockMapping", "MappingEntry")
        [] k.kind = "Key" -> push_leaf(open_entry_in(b, "BlockMapping", "MappingEntry"), leaf)
        [] k.kind = "BlockEntry" -> push_leaf(open_entry_in(b, "BlockSequence", "SequenceItem"), leaf)
        [] k.kind = "FlowMappingStart" -> push_leaf(push_frame(b, "FlowMapping"), leaf)
        [] k.kind = "FlowSequenceStart" -> push_leaf(push_frame(b, "FlowSequence"), leaf)
        [] k.kind = "FlowMappingEnd" -> close_flow(b, "FlowMapping", leaf)
        [] k.kind = "FlowSequenceEnd" -> close_flow(b, "FlowSequence", leaf)
        [] OTHER -> push_leaf(b, leaf)

RECURSIVE finish(_)
finish(b) == IF Len(b) = 1 THEN b[1] ELSE finish(pop_frame(b))

\* from_token: StreamStart, StreamEnd and leaves without length are not recorded.
recorded_tokens(r) ==
  SelectSeq(r.out, LAMBDA k : k.to > k.from \/ k.kind \in {"BlockMappingStart", "BlockSequenceStart",
                                                            "BlockEnd", "Key"})

child_from_trivia(t, span) ==
  Tree(CASE t[span[1]] \in Blank -> "Whitespace" [] t[span[1]] \in Break -> "Newline"
         [] t[span[1]] = "BOM" -> "Bom" [] OTHER -> "Directive", span[2] - span[1], <<>>)

\* assemble: the three streams in the order of their starts, tokens first.
Start(q) == IF q = <<>> THEN {} ELSE {Head(q)}
RECURSIVE assemble(_, _, _, _, _)
assemble(t, tokens, trivia, comments, b) ==
  LET at == {k.from : k \in Start(tokens)} \cup {x[1] : x \in Start(trivia)} \cup {c.from : c \in Start(comments)}
  IN  CASE at = {} -> finish(b)
        [] tokens # <<>> /\ tokens[1].from = Min(at) ->
             assemble(t, Tail(tokens), trivia, comments, handle_token(b, tokens[1]))
        [] ~(tokens # <<>> /\ tokens[1].from = Min(at)) /\ trivia # <<>> /\ trivia[1][1] = Min(at) ->
             assemble(t, tokens, Tail(trivia), comments, push_leaf(b, child_from_trivia(t, trivia[1])))
        [] OTHER ->
             assemble(t, tokens, trivia, Tail(comments),
                      push_leaf(b, Tree("Comment", comments[1].to - comments[1].from, <<>>)))

TreeOf(t, r) ==
  assemble(t, recorded_tokens(r), r.trivia, r.comments, <<Tree("Document", 0, <<>>)>>)

\* The tree of a text; none when the scan fails.
build_green_tree(t) == {TreeOf(t, r) : r \in {q \in {Scan(t)} : q.err = ""}}

(***************************************************************************)
(* Parsing a fragment on its own.                                          *)
(***************************************************************************)
prepend_first_line_indent(fragment, indent) ==
  IF At(fragment, 1) = " " THEN fragment ELSE Spaces(indent) \o fragment

\* The cuts between the children of a node that starts at base.
Cuts(node, base) ==
  LET cut[n \in 0 .. Len(node.kids)] == IF n = 0 THEN base ELSE cut[n - 1] + node.kids[n].len IN cut

\* The first child of the kind, if there is one, and the cells before it.
first_node_of_kind(p, kind) ==
  LET found == {n \in DOMAIN p.tree.kids : p.tree.kids[n].kind = kind}
  IN  {[tree |-> p.tree.kids[n], before |-> Cuts(p.tree, p.before)[n - 1]] :
         n \in {m \in found : m = Min(found)}}

\* A sentinel sibling follows an entry, so that the entry ends; its key is 13 long.
parent_kind(kind) ==
  CASE kind = "MappingEntry" -> "BlockMapping" [] kind = "SequenceItem" -> "BlockSequence" [] OTHER -> kind
sentinel(kind) ==
  IF kind = "MappingEntry" THEN [n \in 1 .. 13 |-> "a"] \o <<":", " ", "a", "\n">> ELSE <<"-", " ", "a", "\n">>
Wrapped(fragment, indent, kind) ==
  LET first == prepend_first_line_indent(fragment, indent)
      line  == IF Last(first) \in Break THEN first ELSE Append(first, "\n")
  IN  IF kind \in Entries THEN line \o Spaces(indent) \o sentinel(kind) ELSE first

\* The node a fragment is parsed to, if any: a blank one is not an entry.
Parsed(fragment, indent, kind) ==
  UNION {build_green_tree(w) : w \in {Wrapped(f, indent, kind) :
           f \in {x \in {fragment} : kind \in Entries => ~ToSet(x) \subseteq Sep}}}
parse_subtree(fragment, indent, kind) ==
  UNION {IF kind \in Entries THEN first_node_of_kind(p, kind) ELSE {p} :
           p \in UNION {first_node_of_kind([tree |-> tree, before |-> 0], parent_kind(kind)) :
                          tree \in Parsed(fragment, indent, kind)}}

(***************************************************************************)
(* Local repair.                                                           *)
(***************************************************************************)
\* ancestor_candidates: the nodes around the edit, smallest first.
RECURSIVE collect_ancestors(_, _, _, _)
collect_ancestors(node, from, to, base) ==
  LET cut   == Cuts(node, base)
      holds == {n \in DOMAIN node.kids : from >= cut[n - 1] /\ to <= cut[n]}
      here  == [kind |-> node.kind, from |-> base, to |-> base + node.len]
  IN  IF from < base \/ to > base + node.len THEN <<>>
      ELSE IF holds = {} \/ node.kids[Min(holds)].kind \notin Nodes THEN <<here>>
      ELSE Append(collect_ancestors(node.kids[Min(holds)], from, to, cut[Min(holds) - 1]), here)
ancestor_candidates(root, from, to) == collect_ancestors(root, from, to, 0)

\* region_has_anchor_alias_or_tag, replacement_introduces_anchor_alias_or_tag.
RECURSIVE HasMark(_, _, _, _)
HasMark(node, base, from, to) ==
  LET cut == Cuts(node, base)
  IN  \E n \in DOMAIN node.kids :
        /\ cut[n - 1] < to /\ cut[n] > from
        /\ \/ node.kids[n].kind \in {"Anchor", "Alias", "Tag"}
           \/ node.kids[n].kind \in Nodes /\ HasMark(node.kids[n], cut[n - 1], from, to)
Marked(root, from, to, with) == HasMark(root, 0, from, to) \/ ToSet(with) \cap {"&", "*", "!"} # {}

entry_indent_column(t, cut) ==
  LET start == Max({0} \cup {k \in 1 .. cut : t[k] \in Break})
  IN  SkipWhile(t, start + 1, Blank) - (start + 1)

\* rebuild_with_splice: the node of that kind between those cuts gives way.
RECURSIVE rebuild_with_splice(_, _, _, _)
rebuild_with_splice(node, c, new, base) ==
  LET cut   == Cuts(node, base)
      holds == {n \in DOMAIN node.kids : node.kids[n].kind \in Nodes /\ cut[n - 1] <= c.from /\ c.to <= cut[n]}
      n     == Min(holds)
      kid   == IF cut[n - 1] = c.from /\ cut[n] = c.to /\ node.kids[n].kind = c.kind THEN new
               ELSE rebuild_with_splice(node.kids[n], c, new, cut[n - 1])
  IN  Tree(node.kind, node.len - node.kids[n].len + kid.len, [node.kids EXCEPT ![n] = kid])

is_phase_a_repairable(kind) == kind \in Nodes \ (Flows \cup {"Document"})

\* The candidate's new text, when its kind is repaired.
Fragments(c, new, delta) ==
  {f \in {SubSeq(new, c.from + 1, c.to + delta)} : is_phase_a_repairable(c.kind)}

\* Mutant: any node of the kind will do, however much of the fragment it covers.
Rung_unmeasured(t, c, new, delta) ==
  UNION {parse_subtree(f, entry_indent_column(t, c.from), c.kind) : f \in Fragments(c, new, delta)}

\* One rung: the candidate's new text on its own, if it is one node that covers it.
Rung(t, c, new, delta) ==
  {p \in UNION {parse_subtree(f, entry_indent_column(t, c.from), c.kind) : f \in Fragments(c, new, delta)} :
     p.tree.len = c.to + delta - c.from}

\* The candidate of the first rung that holds gives way to what it was parsed to.
FirstRung(root, ladder, rungs) ==
  LET holds == {n \in DOMAIN rungs : rungs[n] # {}}
  IN  UNION {{[tree |-> rebuild_with_splice(root, ladder[n], p.tree, 0), at |-> ladder[n], before |-> p.before] :
                p \in rungs[n]} : n \in {m \in holds : m = Min(holds)}}

\* try_local_repair_green: the repaired tree, none when a full parse is to make it.
Repairs(t, root, ladder, new, delta) ==
  UNION {FirstRung(root, ladder, rungs) : rungs \in {[n \in DOMAIN ladder |-> Rung(t, ladder[n], new, delta)]}}
try_local_repair_green(t, root, from, to, with, new) ==
  UNION {Repairs(t, root, ladder, new, Len(with) - (to - from)) :
           ladder \in {l \in {ancestor_candidates(root, from, to)} :
                         /\ ~Marked(root, from, to, with)
                         /\ \A n \in DOMAIN l : l[n].kind \notin Flows}}

-----------------------------------------------------------------------------
SpliceText(t, from, to, with) == SubSeq(t, 1, from) \o with \o SubSeq(t, to + 1, Len(t))

(* Where a repair and a build are known to differ: *)

\* the node does not start its line, and its fragment is parsed at the wrong column;
Compact(t, c) == Col(t, c.from + 1) # entry_indent_column(t, c.from)

\* the edit is on the last line of a collection that something follows, and may
\* join the two;
Joins(t, c, to) == c.kind \notin Entries /\ c.to # Len(t) /\ ~Holds(t, to + 1, c.to + 1, Break)

\* the node cut out does not start where the fragment does: it is the sentinel, or
\* another that happens to be as long as the fragment.
Shifted(t, repair, fragment) ==
  LET indent == entry_indent_column(t, repair.at.from)
  IN  repair.before # Len(prepend_first_line_indent(fragment, indent)) - Len(fragment)

\* A tree repaired locally is the tree a build of the whole new text gives, for
\* every edit that leaves a text that scans with its flow collections closed, the
\* three known exceptions aside (cst/document/edit.rs, try_local_repair_green:
\* only the kind and the length of the fragment's tree are compared, so that the
\* rest of the tree stays right rests on the indentation and the sentinel).
RepairIsRebuild ==
  Clean /\ text \in EditTexts =>
    \A root \in {TreeOf(text, s)}, from \in 0 .. Len(text), with \in Replacements :
    \A to \in from .. Min({from + MaxCut, Len(text)}) :
    \A new \in {SpliceText(text, from, to, with)} :
    \A repair \in try_local_repair_green(text, root, from, to, with, new) :
    \A scan \in {Scan(new)} :
      LET c == repair.at
      IN  scan.err = "" /\ ~InFlow(scan) =>
            \/ repair.tree = TreeOf(new, scan)
            \/ Compact(text, c) \/ Joins(text, c, to)
            \/ Shifted(text, repair, SubSeq(new, c.from + 1, c.to + Len(new) - Len(text)))
=============================================================================
