----------------------------- MODULE Document -----------------------------
(***************************************************************************)
(* The editable document: every mutator of cst/document.rs, its siblings   *)
(* in cst/anchor.rs, cst/annotated.rs and cst/entry.rs, and the deferred   *)
(* batch of cst/document/transaction.rs.                                   *)
(*                                                                         *)
(* A mutator is a function from a document and its arguments to a result,  *)
(* [ok, doc]: it finds lines, splices text, and most of them compare what  *)
(* loads afterwards with what they meant, restoring a snapshot when the    *)
(* two differ.  Text and cached value move together or not at all; the     *)
(* green tree, which no mutator's answer depends on at this granularity,   *)
(* and the repair scope, which is only reported, are not state here.       *)
(***************************************************************************)
EXTENDS DocumentText

CONSTANTS
  Openings,    \* the texts a document may be opened on
  Fragments,   \* what a caller may splice: a node and the lines after it
  MaxEdits     \* bound: mutator calls and queued edits of one behaviour

ASSUME DocumentConstants ==
  /\ Openings \subseteq Seq(Line) /\ MaxEdits \in Nat
  /\ Fragments \subseteq {frag \in [anchor : Names \cup {None}, ref : Names \cup {None},
                                     val : Scalars \cup {Null}, more : Seq(Line)] :
                            frag.ref # None => frag.val = Null}

VARIABLES
  doc,      \* the Document: source, cache
  session,  \* the EditSession borrowing it: NoSession, or its queued edits
  edits,    \* calls so far
  last      \* the latest call, for the properties: op, path, argument, result

vars == <<doc, session, edits, last>>

NoSession == [open |-> FALSE, queue |-> <<>>]
Paths == Keys \X (0 .. MaxLen)

(***************************************************************************)
(* Committing text.                                                        *)
(***************************************************************************)
Ok(d) == [ok |-> TRUE, doc |-> d]
Err(d) == [ok |-> FALSE, doc |-> d]

\* parse_document_inner, over parse_full.
parse_full(src) == Len(src) <= MaxLen /\ parse_exactly_one(src) /\ check_document(Value(src))
parse_document(src) == [source |-> src, cache |-> Value(src)]

commit_source(d, src) == IF parse_full(src) THEN Ok(parse_document(src)) ELSE Err(d)

Splice(s, from, to, with) == SubSeq(s, 1, from) \o with \o SubSeq(s, to + 1, Len(s))

\* A local repair of the tree, when there is one, is committed after the same
\* parse and policy check as a full one.
\* Mutant: the parse alone lets it through.
replace_span_parsed(d, from, to, with) ==
  LET src == Splice(d.source, from, to, with)
  IN  IF from > to \/ to > Len(d.source) \/ Len(src) > MaxLen THEN Err(d)
      ELSE IF parse_exactly_one(src) THEN Ok(parse_document(src)) ELSE Err(d)
replace_span(d, from, to, with) ==
  IF from > to \/ to > Len(d.source) THEN Err(d)
  ELSE commit_source(d, Splice(d.source, from, to, with))

\* splice, re-parse, compare, or put the snapshot back.
oracle_rejects(d, expected) == d.cache # expected
\* Mutant: the comparison does not restore the snapshot.
GuardedWithoutRollback(d, spliced, expected) ==
  IF ~spliced.ok THEN Err(d)
  ELSE IF oracle_rejects(spliced.doc, expected) THEN Err(spliced.doc) ELSE spliced
Guarded(d, spliced, expected) ==
  IF ~spliced.ok \/ oracle_rejects(spliced.doc, expected) THEN Err(d) ELSE spliced

ReplaceLine(d, i, with) == replace_span(d, i - 1, i, with)
ReplaceNode(d, i, with) == replace_span(d, i - 1, LastLine(d.source, i), with)

(***************************************************************************)
(* Writing at a path.                                                      *)
(***************************************************************************)
Put(line, frag) == [line EXCEPT !.anchor = frag.anchor, !.ref = frag.ref, !.val = frag.val]
Plain(v) == [anchor |-> None, ref |-> None, val |-> v, more |-> <<>>]

\* The text of line i with a fragment for its node.  The node's span opens at
\* its anchor; a sequence without one opens on the next line, where a bare
\* fragment stands at the margin and is not YAML.
NodeText(src, i, frag) ==
  IF IsCollection(src, i) /\ src[i].anchor = None THEN <<src[i], Bad>>
  ELSE <<Put(src[i], frag)>> \o frag.more

\* write_span_resolved: the path is there, and not in another key's text.
write_span(src, key, index) == HasPath(src, key, index) /\ ~Through(src, key, index)

\* What the fragment may not do: change the shape around it, repeat a key.
ShapeKept(d, r, key, index) ==
  IF \/ ~r.ok
     \/ shape_excluding(r.doc.source, key, index) # shape_excluding(d.source, key, index)
     \/ ~duplicate_keys_present(d.source) /\ duplicate_keys_present(r.doc.source)
  THEN Err(d) ELSE r
set(d, key, index, frag) ==
  LET i == span_at(d.source, key, index)
  IN  IF ~write_span(d.source, key, index) THEN Err(d)
      ELSE ShapeKept(d, ReplaceNode(d, i, NodeText(d.source, i, frag)), key, index)

\* A scalar.  No oracle follows: the splice is the edit.
\* Mutant: the anchored node is not looked for.
set_value_anywhere(d, key, index, v) ==
  LET src == d.source
      i == span_at(src, key, index)
  IN  IF ~write_span(src, key, index) THEN Err(d)
      ELSE IF typed_value_at(src, key, index) = <<v>> THEN Ok(d)
      ELSE ReplaceNode(d, i, <<Put(src[i], Plain(v))>>)
set_value(d, key, index, v) ==
  LET src == d.source
      i == span_at(src, key, index)
  IN  IF ~write_span(src, key, index) THEN Err(d)
      ELSE IF typed_value_at(src, key, index) = <<v>> THEN Ok(d)
      ELSE IF aliased_anchor_covering(src, i, FALSE) THEN Err(d)
      ELSE ReplaceNode(d, i, <<Put(src[i], Plain(v))>>)

Stream(items) == <<"[">> \o FlattenSeq(items) \o <<"]">>
ItemValues(src, key) ==
  LET items == Items(src, SequenceLine(src, key))
  IN  [n \in 1 .. sequence_len_at(src, key) |-> Loaded(src)[items[n]]]

\* A block sequence over a block sequence.
replace_collection_value(d, key, values) ==
  LET src == d.source
      i == Winner(src, key)
      items == Items(src, i)
      expected == [d.cache EXCEPT ![key] = Stream([n \in DOMAIN values |-> <<values[n]>>])]
      lines == [n \in DOMAIN values |-> Item(None, None, values[n])]
  IN  IF ~HasKey(src, key) THEN Err(d)
      ELSE IF expected = d.cache THEN Ok(d)
      ELSE IF src[i].ref # None \/ items = <<>> \/ aliased_anchor_covering(src, i, TRUE) THEN Err(d)
      ELSE Guarded(d, replace_span(d, items[1] - 1, Last(items), lines), expected)

(***************************************************************************)
(* Entries: insert_entry, insert_entry_value, set_path, rename_key.        *)
(***************************************************************************)
\* mapping_insert_anchor: after the last entry, measured at its value, which
\* for an alias is the anchor's.  A value in a sequence gives its column.
mapping_insert_anchor(src) == Target(src, Winner(src, Last(KeyOrder(src))))
splice_new_entry(d, line) ==
  LET at == mapping_insert_anchor(d.source)
      end == LastLine(d.source, at)
  IN  replace_span(d, end, end, <<IF d.source[at].at = "entry" THEN line ELSE Bad>>)

\* The key has bytes of its own in the mapping.
existing_entry_span(src, key) == HasKey(src, key)

\* What the splice may change is the container: the rest keeps its shape and the
\* container grows by what was asked for, an item or an entry.
SeqPlusOne(d, r, key) ==
  /\ shape_excluding(r.source, key, 0) = shape_excluding(d.source, key, 0)
  /\ IsSequence(r.source, key)
  /\ sequence_len_at(r.source, key) = sequence_len_at(d.source, key) + 1
MapEntry(d, r, key) == DOMAIN r.cache = DOMAIN d.cache \cup {key}
guarded_insert(d, spliced, growth, key) ==
  IF /\ spliced.ok
     /\ growth = "SeqPlusOne" => SeqPlusOne(d, spliced.doc, key)
     /\ growth = "MapEntry" => MapEntry(d, spliced.doc, key)
  THEN spliced ELSE Err(d)

\* A fragment of several lines is indented under its key, where what follows the node is not YAML.
insert_entry(d, key, frag) ==
  LET src == d.source
      line == IF frag.more = <<>> THEN Put(Entry(key, None, None, Null), frag) ELSE Bad
  IN  IF existing_entry_span(src, key) THEN set(d, key, 0, frag)
      ELSE IF Entries(src) = {} THEN Err(d)
      ELSE guarded_insert(d, splice_new_entry(d, line), "MapEntry", key)

finish_entry_insert(d, spliced, expected) == Guarded(d, spliced, expected)
expected_after_insert_entry(value, key, v) ==
  [k \in DOMAIN value \cup {key} |-> IF k = key THEN <<v>> ELSE value[k]]

\* The bytes of an alias's value are the anchor's, inside its content.
insert_entry_value(d, key, v) ==
  LET src == d.source
      shared == HasKey(src, key) /\ src[Winner(src, key)].ref # None
                /\ ~(src[SequenceLine(src, key)].val = Null /\ ~IsSequence(src, key))
  IN  IF Entries(src) = {} \/ shared THEN Err(d)
      ELSE finish_entry_insert(d, IF existing_entry_span(src, key) THEN set(d, key, 0, Plain(v))
                                  ELSE splice_new_entry(d, Entry(key, None, None, v)),
                               expected_after_insert_entry(d.cache, key, v))

append_first_entry(d, key, v) ==
  Guarded(d, replace_span(d, Len(d.source), Len(d.source), <<Entry(key, None, None, v)>>),
          [k \in {key} |-> <<v>>])

set_path(d, key, v) ==
  IF HasKey(d.source, key) THEN set_value(d, key, 0, v)
  ELSE IF NullRoot(d.source) THEN append_first_entry(d, key, v)
  ELSE insert_entry_value(d, key, v)

expected_after_rename(value, key, new) ==
  [k \in (DOMAIN value \ {key}) \cup {new} |-> IF k = new THEN value[key] ELSE value[k]]

\* entry_key_site: the line of the key's own bytes, 0 when there is none or the
\* new key is taken.
entry_key_site(src, key, new) ==
  IF ~HasKey(src, key) \/ (new # key /\ HasKey(src, new)) THEN 0 ELSE Winner(src, key)

rename_key(d, key, new) ==
  LET src == d.source
      i == entry_key_site(src, key, new)
  IN  IF i = 0 THEN Err(d)
      ELSE IF new = key THEN Ok(d)
      ELSE Guarded(d, ReplaceLine(d, i, <<[src[i] EXCEPT !.key = new]>>),
                   expected_after_rename(d.cache, key, new))

(***************************************************************************)
(* remove.                                                                 *)
(***************************************************************************)
expected_after_remove(src, value, key, index) ==
  IF index = 0 THEN [k \in DOMAIN value \ {key} |-> value[k]]
  ELSE [value EXCEPT ![key] = Stream(RemoveAt(ItemValues(src, key), index))]

\* owned_entry_range: the cuts around an entry and its head comments.
owned_entry_range(src, i) == [from |-> absorb_head_comments(src, i) - 1, to |-> LastLine(src, i)]

\* entry_line_span: the cuts around what goes, and what is put back.  The
\* last entry of a collection empties it rather than vanish.
Removal(src, key, index) ==
  LET w == Winner(src, key)
      items == Items(src, w)
      all == IF index = 0 THEN Entries(src) ELSE ToSet(items)
      sole == IF index = 0 THEN Len(KeyOrder(src)) = 1 ELSE Len(items) = 1
      i == IF index = 0 THEN w ELSE items[index]
      first == owned_entry_range(src, IF sole THEN Smallest(all) ELSE i)
  IN  [from |-> first.from, with |-> IF sole THEN <<Empty>> ELSE <<>>,
       to |-> IF sole THEN LastLine(src, Largest(all)) ELSE IF index = 0 THEN first.to ELSE i]

\* One line that is the entry and nothing else is deleted without an oracle.
RemoveSpan(d, r, expected, oracle) ==
  IF /\ d.source[r.from + 1].at # "note"
     /\ aliased_anchor_covering(d.source, r.from + 1, FALSE) THEN Err(d)
  ELSE IF oracle \/ r.to # r.from + 1 \/ r.with # <<>>
       THEN Guarded(d, replace_span(d, r.from, r.to, r.with), expected)
  ELSE replace_span(d, r.from, r.to, r.with)
remove(d, key, index) ==
  IF ~write_span(d.source, key, index) THEN Err(d)
  ELSE RemoveSpan(d, Removal(d.source, key, index),
                  expected_after_remove(d.source, d.cache, key, index), index # 0)

(***************************************************************************)
(* Sequences: push_back, insert_after, their value forms, swap, move.      *)
(***************************************************************************)
\* A new item goes after item `index`, found through an alias at the anchor.
\* An item that is itself an alias has no dash before its bytes.
ItemSplice(d, key, index, frag) ==
  LET i == span_at(d.source, key, index)
  IN  IF d.source[i].ref # None THEN Err(d)
      ELSE replace_span(d, i, i, <<Put(Item(None, None, Null), frag)>> \o frag.more)

insert_after(d, key, index, frag) ==
  IF ~IsSequence(d.source, key) \/ index = 0 \/ ~HasPath(d.source, key, index) THEN Err(d)
  ELSE guarded_insert(d, ItemSplice(d, key, index, frag), "SeqPlusOne", key)

push_back(d, key, frag) ==
  IF ~IsSequence(d.source, key) THEN Err(d)
  ELSE insert_after(d, key, sequence_len_at(d.source, key), frag)

expected_after_insert_item(src, value, key, index, v) ==
  [value EXCEPT ![key] = Stream(InsertAt(ItemValues(src, key), index, <<v>>))]

refuse_inside_aliased_anchor(src, i) == aliased_anchor_covering(src, i, FALSE)
guarded_item_splice(d, spliced, expected) == Guarded(d, spliced, expected)

insert_after_value(d, key, index, v) ==
  LET src == d.source
  IN  IF ~IsSequence(src, key) \/ index = 0 \/ ~HasPath(src, key, index) THEN Err(d)
      ELSE IF refuse_inside_aliased_anchor(src, span_at(src, key, index)) THEN Err(d)
      ELSE guarded_item_splice(d, insert_after(d, key, index, Plain(v)),
                               expected_after_insert_item(src, d.cache, key, index + 1, v))

push_back_value(d, key, v) ==
  IF ~IsSequence(d.source, key) THEN Err(d)
  ELSE insert_after_value(d, key, sequence_len_at(d.source, key), v)

expected_after_swap(src, value, key, i, j) ==
  LET items == ItemValues(src, key)
  IN  [value EXCEPT ![key] = Stream([items EXCEPT ![i] = items[j], ![j] = items[i]])]

\* An item with its head comments; through an alias, the anchor's text alone.
ItemBlock(src, i) == SubSeq(src, absorb_head_comments(src, i), i)
swap_items(d, key, i, j) ==
  LET src == d.source
      lo == span_at(src, key, IF i < j THEN i ELSE j)
      hi == span_at(src, key, IF i < j THEN j ELSE i)
      up == IF Through(src, key, i) THEN <<Put(src[lo], src[hi])>> ELSE ItemBlock(src, hi)
      down == IF Through(src, key, i) THEN <<Put(src[hi], src[lo])>> ELSE ItemBlock(src, lo)
      Before(n) == IF Through(src, key, i) THEN n - 1 ELSE absorb_head_comments(src, n) - 1
      Then(first) == IF first.ok THEN replace_span(first.doc, Before(lo), lo, up) ELSE first
  IN  IF ~IsSequence(src, key) \/ 0 \in {i, j} \/ ~HasPath(src, key, i) \/ ~HasPath(src, key, j)
      THEN Err(d)
      ELSE IF i = j THEN Ok(d)
      ELSE Guarded(d, Then(replace_span(d, Before(hi), hi, down)),
                   expected_after_swap(src, d.cache, key, i, j))

\* A walk of adjacent swaps under one snapshot.
OrSnapshot(d, moved) == IF moved.ok THEN moved ELSE Err(d)
move_item(d, key, from, to) ==
  LET steps == IF from < to THEN to - from ELSE from - to
      At(n) == IF from < to THEN from + n ELSE from - n
      walk[n \in 0 .. steps] ==
        IF n = 0 THEN Ok(d)
        ELSE IF ~walk[n - 1].ok THEN walk[n - 1]
        ELSE swap_items(walk[n - 1].doc, key, At(n - 1), At(n))
  IN  IF ~IsSequence(d.source, key) \/ 0 \in {from, to} \/ ~HasPath(d.source, key, from)
         \/ ~HasPath(d.source, key, to)
      THEN Err(d)
      ELSE OrSnapshot(d, walk[steps])

(***************************************************************************)
(* Anchors and comments.                                                   *)
(***************************************************************************)
\* anchored_scalar_text: the last mark of that name before the alias; a
\* sequence is refused, and so is an anchor on nothing.
\* Mutant: the first mark of that name.
anchored_scalar_first(src, name, i) == Smallest({j \in 1 .. i - 1 : src[j].anchor = name})
anchored_scalar_text(src, name, i) == Largest({j \in 1 .. i - 1 : src[j].anchor = name})
materialise_alias_at(d, i) ==
  LET src == d.source
      j == anchored_scalar_text(src, src[i].ref, i)
  IN  IF IsCollection(src, j) \/ src[j].val = Null THEN Err(d)
      ELSE ReplaceLine(d, i, <<[src[i] EXCEPT !.ref = None, !.val = src[j].val]>>)

\* From the last alias up; the first that fails ends the batch, and the
\* aliases already written stay written.
materialise_aliases_of(d, name) ==
  LET sites == Reverse(Ascending(aliases_of(d.source, name), Len(d.source)))
      batch[n \in 0 .. Len(sites)] ==
        IF n = 0 THEN Ok(d)
        ELSE IF ~batch[n - 1].ok THEN batch[n - 1]
        ELSE materialise_alias_at(batch[n - 1].doc, sites[n])
  IN  batch[Len(sites)]

rename_anchor(d, old, new) ==
  LET src == d.source
      Named(line) == [line EXCEPT !.anchor = IF @ = old THEN new ELSE @,
                                  !.ref = IF @ = old THEN new ELSE @]
      used == {i \in Lines(src) : old \in {src[i].anchor, src[i].ref}}
  IN  IF used = {} \/ (new # old /\ \E i \in Lines(src) : src[i].anchor = new) THEN Err(d)
      ELSE replace_span(d, 0, Len(src), [i \in Lines(src) |-> Named(src[i])])

\* set_leading_comment and remove_leading_comment: on a key's own line.
leading_comment_site(src, key) == IF HasKey(src, key) THEN Winner(src, key) ELSE 0
finish_comment_edit(d, spliced) == Guarded(d, spliced, d.cache)

\* One line replaces the run above line i.
CommentRun(d, i, with) == replace_span(d, absorb_head_comments(d.source, i) - 1, i - 1, with)

set_leading_comment(d, key) ==
  LET i == leading_comment_site(d.source, key)
  IN  IF i = 0 THEN Err(d) ELSE finish_comment_edit(d, CommentRun(d, i, <<Note>>))
remove_leading_comment(d, key) ==
  LET i == leading_comment_site(d.source, key)
  IN  IF i = 0 THEN Err(d)
      ELSE IF absorb_head_comments(d.source, i) = i THEN Ok(d)
      ELSE finish_comment_edit(d, CommentRun(d, i, <<>>))

\* The other comment API, on items too: the key's line, or the first line of the
\* item's bytes, which for an alias are the anchor's.
leading_comment_anchor(src, key, index) ==
  LET j == Target(src, span_at(src, key, index))
  IN  IF index = 0 THEN Winner(src, key) ELSE IF IsCollection(src, j) THEN Items(src, j)[1] ELSE j

\* A failed edit is returned as it is, one that changes what loads is taken back.
guarded_comment_edit(d, edited) ==
  IF edited.ok /\ Value(edited.doc.source) # Value(d.source) THEN Err(d) ELSE edited
set_comment(d, key, index) ==
  IF ~HasPath(d.source, key, index) THEN Err(d)
  ELSE guarded_comment_edit(d, CommentRun(d, leading_comment_anchor(d.source, key, index), <<Note>>))
remove_comment(d, key, index) ==
  LET i == leading_comment_anchor(d.source, key, index)
  IN  IF ~HasPath(d.source, key, index) THEN Err(d)
      ELSE IF absorb_head_comments(d.source, i) = i THEN Ok(d)
      ELSE guarded_comment_edit(d, CommentRun(d, i, <<>>))

(***************************************************************************)
(* Entry: a handle on a path.  Its other methods forward to the mutators.  *)
(***************************************************************************)
exists(src, key, index) == HasPath(src, key, index)

\* insert_at_path needs a parent in the path and no index: at these depths a vacant
\* path is refused either way.
insert_at_path(d) == Err(d)
or_insert(d, key, index) == IF exists(d.source, key, index) THEN Ok(d) ELSE insert_at_path(d)

\* and_modify(set_value) then or_insert: what the closure returns is not looked at.
and_modify(d, key, index, v) ==
  IF exists(d.source, key, index) THEN set_value(d, key, index, v).doc ELSE d

(***************************************************************************)
(* EditSession: ranges of the unchanged text, queued and committed at once.*)
(***************************************************************************)
Conflicts(queue, e) ==
  \E n \in DOMAIN queue : \/ queue[n].from = e.from
                          \/ e.from < queue[n].to /\ queue[n].from < e.to

\* The queue in the order of the text: no two edits start at one offset.
Sorted(queue, len) ==
  LET starts == Ascending({queue[n].from : n \in DOMAIN queue}, len)
  IN  [n \in DOMAIN starts |-> CHOOSE e \in ToSet(queue) : e.from = starts[n]]

Assemble(src, queue) ==
  LET sorted == Sorted(queue, Len(src))
      text[n \in 0 .. Len(sorted)] ==
        IF n = 0 THEN <<>>
        ELSE text[n - 1] \o SubSeq(src, (IF n = 1 THEN 0 ELSE sorted[n - 1].to) + 1, sorted[n].from)
                         \o sorted[n].with
  IN  IF queue = <<>> THEN src
      ELSE text[Len(sorted)] \o SubSeq(src, Last(sorted).to + 1, Len(src))
(***************************************************************************)
(* The actions: one per call.                                              *)
(***************************************************************************)
Init ==
  /\ \E src \in Openings : parse_full(src) /\ doc = parse_document(src)
  /\ session = NoSession /\ edits = 0
  /\ last = [op |-> "open", key |-> None, index |-> 0, ok |-> TRUE]

Call(op, key, index, r) ==
  /\ session = NoSession /\ edits < MaxEdits
  /\ doc' = r.doc /\ edits' = edits + 1
  /\ last' = [op |-> op, key |-> key, index |-> index, ok |-> r.ok]
  /\ UNCHANGED session

SetFragment == \E p \in Paths, f \in Fragments :
  p[2] <= 2 /\ Call("set", p[1], p[2], set(doc, p[1], p[2], f))
SetScalar == \E p \in Paths, v \in Scalars :
  p[2] <= 2 /\ Call("set_value", p[1], p[2], set_value(doc, p[1], p[2], v))
SetSequence == \E k \in Keys, v, w \in Scalars :
  Call("set_value", k, 0, replace_collection_value(doc, k, <<v, w>>))
SetPath == \E k \in Keys, v \in Scalars : Call("set_value", k, 0, set_path(doc, k, v))
InsertEntry == \E k \in Keys, f \in Fragments : Call("insert_entry", k, 0, insert_entry(doc, k, f))
InsertEntryValue == \E k \in Keys, v \in Scalars :
  Call("set_value", k, 0, insert_entry_value(doc, k, v))
EntryOrInsert == \E p \in Paths, v \in Scalars :
  p[2] <= 1 /\ Call("set_value", p[1], p[2], or_insert(and_modify(doc, p[1], p[2], v), p[1], p[2]))
RenameKey == \E k, n \in Keys : Call("rename_key", k, 0, rename_key(doc, k, n))
RemovePath == \E p \in Paths : p[2] <= 2 /\ Call("remove", p[1], p[2], remove(doc, p[1], p[2]))
PushBack == \E k \in Keys, f \in Fragments : Call("push_back", k, 0, push_back(doc, k, f))
InsertAfter == \E k \in Keys, f \in Fragments : Call("push_back", k, 0, insert_after(doc, k, 1, f))
PushBackValue == \E k \in Keys, v \in Scalars :
  Call("set_value", k, 0, push_back_value(doc, k, v))
InsertAfterValue == \E k \in Keys, v \in Scalars :
  Call("set_value", k, 0, insert_after_value(doc, k, 1, v))
SwapItems == \E k \in Keys : Call("set_value", k, 0, swap_items(doc, k, 1, 2))
MoveItem == \E k \in Keys, i, j \in 1 .. 3 : Call("set_value", k, 0, move_item(doc, k, i, j))
MaterialiseAlias == \E i \in Lines(doc.source) :
  doc.source[i].ref # None /\ Call("marks", None, 0, materialise_alias_at(doc, i))
MaterialiseAliases == \E n \in Names : Call("batch", None, 0, materialise_aliases_of(doc, n))
RenameAnchor == \E m, n \in Names : Call("marks", None, 0, rename_anchor(doc, m, n))
SetLeadingComment == \E k \in Keys : Call("marks", k, 0, set_leading_comment(doc, k))
RemoveLeadingComment == \E k \in Keys : Call("marks", k, 0, remove_leading_comment(doc, k))
SetComment == \E p \in Paths : p[2] <= 2 /\ Call("marks", p[1], p[2], set_comment(doc, p[1], p[2]))
RemoveComment == \E p \in Paths : p[2] <= 2 /\ Call("marks", p[1], p[2], remove_comment(doc, p[1], p[2]))

\* The session borrows the document: no other call until it ends.
BeginEdit ==
  /\ session = NoSession /\ edits < MaxEdits
  /\ session' = [NoSession EXCEPT !.open = TRUE] /\ UNCHANGED <<doc, edits, last>>
QueueEdit ==
  /\ session # NoSession /\ edits < MaxEdits
  /\ \E from, to \in 0 .. Len(doc.source), f \in Fragments, k \in Keys :
       LET e == [from |-> from, to |-> to, with |-> <<Put(Entry(k, None, None, Null), f)>>]
       IN  /\ from <= to /\ to - from <= 1 /\ ~Conflicts(session.queue, e)
           /\ session' = [session EXCEPT !.queue = Append(@, e)]
  /\ edits' = edits + 1 /\ UNCHANGED <<doc, last>>
CommitEdit ==
  /\ session # NoSession
  /\ \E r \in {IF session.queue = <<>> THEN Ok(doc)
               ELSE commit_source(doc, Assemble(doc.source, session.queue))} :
         doc' = r.doc /\ last' = [op |-> "commit", key |-> None, index |-> 0, ok |-> r.ok]
  /\ session' = NoSession /\ UNCHANGED edits
AbortEdit == session # NoSession /\ session' = NoSession /\ UNCHANGED <<doc, edits, last>>

Next ==
  \/ SetFragment \/ SetScalar \/ SetSequence \/ SetPath
  \/ InsertEntry \/ InsertEntryValue \/ EntryOrInsert \/ RenameKey \/ RemovePath
  \/ PushBack \/ InsertAfter \/ PushBackValue \/ InsertAfterValue \/ SwapItems \/ MoveItem
  \/ MaterialiseAlias \/ MaterialiseAliases \/ RenameAnchor
  \/ SetLeadingComment \/ RemoveLeadingComment \/ SetComment \/ RemoveComment
  \/ BeginEdit \/ QueueEdit \/ CommitEdit \/ AbortEdit

Spec == Init /\ [][Next]_vars

(***************************************************************************)
(* Properties.                                                             *)
(***************************************************************************)

\* What a session will commit is every queued edit over the text it was
\* measured against, whatever order they were queued in: applied from the
\* end, no edit moves another.
SessionAssembles ==
  session.queue # <<>> =>
    LET down == Reverse(Sorted(session.queue, Len(doc.source)))
        text[n \in 0 .. Len(down)] ==
          IF n = 0 THEN doc.source
          ELSE Splice(text[n - 1], down[n].from, down[n].to, down[n].with)
    IN  /\ ToSet(down) = ToSet(session.queue)
        /\ Assemble(doc.source, session.queue) = text[Len(down)]

\* The text always opens again under the document's own limits and policies,
\* and the cached value is the one it loads as: whatever edit came before, kept,
\* rolled back or stopped half way, and whatever a session has queued.
SourceStaysValid ==
  /\ parse_full(doc.source)
  /\ doc.cache = Value(doc.source)
  /\ SessionAssembles

\* A call that fails leaves the document byte for byte as it was, with its
\* cached value; the batch of materialise_aliases_of is the one call documented
\* to stop half way.
FailedEditUnchanged == [][~last'.ok /\ last'.op # "batch" => doc' = doc]_<<doc, edits, session>>

\* Renaming an anchor, writing an alias out and editing a comment change how
\* the document is spelled and never what it loads as, even when a name is
\* anchored twice and even when the batch stops half way.
SpellingKeepsValue == [][last'.op \in {"marks", "batch"} => doc'.cache = doc.cache]_<<doc, edits, session>>

UniqueAnchors(src) ==
  \A i, j \in Lines(src) : src[i].anchor # None /\ src[i].anchor = src[j].anchor => i = j

\* Where no name is anchored twice, a value written, inserted or removed at a
\* key leaves every other key's value alone, aliases included: also through
\* the two splices no oracle follows.
WriteStaysInside ==
  [][last'.ok /\ last'.op \in {"set_value", "remove"} /\ UniqueAnchors(doc.source) =>
       \A k \in DOMAIN doc.cache \ {last'.key, None} :
          k \in DOMAIN doc'.cache /\ doc'.cache[k] = doc.cache[k]]_<<doc, edits, session>>
============================================================================
