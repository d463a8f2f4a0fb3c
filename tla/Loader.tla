------------------------------- MODULE Loader -------------------------------
(***************************************************************************)
(* The tree builders of parser/loader.rs: Loader, which keeps a span for   *)
(* every node, and NoSpanLoader, its twin on the span-free path.  Both are *)
(* fed the same events and must build the same documents.                  *)
(*                                                                         *)
(* The events are those EventGrammar allows, which is what EventParser is  *)
(* shown to produce.  A loader stops at its first error.  The budgets that *)
(* decide how large a document may grow (depth, alias bytes, keys, items)  *)
(* are tracked here; those that only count events are in Meter, and here a *)
(* refusal by them may come at any event.                                  *)
(*                                                                         *)
(* A value carries what the code computes by walking it: `key` is          *)
(* value_to_key_string, a sequence of lexemes; `nodes` and `height` are    *)
(* AliasCost::of_value; `pairs` are the entries apply_merge offers.        *)
(***************************************************************************)
EXTENDS Budget, EventGrammar, SequencesExt

CONSTANTS
  Anchors,            \* the anchor names
  None,               \* Option::None
  Setups,             \* a ParseConfig and the nodes met under it
  MaxDepth, MaxDocumentLength, MaxSequenceLength, MaxMappingKeys,
  NODE_BYTES          \* size_of::<Value>()

ASSUME LoaderAssumption ==
  /\ None \notin Anchors
  /\ MaxDepth \in Nat /\ MaxDocumentLength \in Nat
  /\ MaxSequenceLength \in Nat /\ MaxMappingKeys \in Nat
  /\ NODE_BYTES \in Nat \ {0}

VARIABLES
  config,   \* the policies of the ParseConfig
  input,    \* the nodes the document may hold, and how many events
  n,        \* events processed: the byte position of a node
  node,     \* what the last event carried: the scalar, the collection or the alias
  full,     \* the Loader
  bare,     \* the NoSpanLoader
  doc,      \* ghost: documents started
  latest,   \* ghost: per anchor, the node last completed and its document
  paid      \* ghost: the Values the charged events of this document make

vars == <<gvars, config, input, n, node, full, bare, doc, latest, paid>>

-----------------------------------------------------------------------------
(* Values.                                                                 *)

MERGE_KEY == <<"<<">>

\* A scalar after schema resolution; t is "Str", "Int" or "Null".
Atom(t, text) ==
  [t |-> t, key |-> text, parts |-> <<>>, pairs |-> <<>>,
   nodes |-> 1, height |-> 0, mergeable |-> t = "Null"]

\* The nodes of a document name anchors of its text; its scalars are plain values.
ASSUME SetupsAssumption ==
  \A s \in Setups :
    /\ s.input.aliases \subseteq Anchors
    /\ \A c \in s.input.scalars \cup s.input.sequences \cup s.input.mappings :
         c.anchor \in Anchors \cup {None}
    /\ \A c \in s.input.scalars : c.val = Atom(c.val.t, c.val.key)

Listed(keys) ==
  FlattenSeq([i \in DOMAIN keys |-> IF i = 1 THEN keys[i] ELSE <<", ">> \o keys[i]])

\* The sum of a sequence of numbers.
Total(s) ==
  LET sum[k \in 0 .. Len(s)] == IF k = 0 THEN 0 ELSE sum[k - 1] + s[k] IN sum[Len(s)]

SumNodes(vs) == Total([i \in DOMAIN vs |-> vs[i].nodes])
MaxHeight(vs) == Max({0} \cup {vs[i].height : i \in DOMAIN vs})
Vals(map) == [i \in DOMAIN map |-> map[i].val]

SequenceOf(items) ==
  [t |-> "Seq", parts |-> items,
   key |-> <<"[">> \o Listed([i \in DOMAIN items |-> items[i].key]) \o <<"]">>,
   pairs |-> FlattenSeq([i \in DOMAIN items |-> items[i].pairs]),
   nodes |-> 1 + SumNodes(items), height |-> 1 + MaxHeight(items),
   mergeable |-> \A i \in DOMAIN items : items[i].mergeable]

\* A mapping key is a node of its own.
MappingOf(map) ==
  [t |-> "Map", parts |-> <<>>, pairs |-> map,
   key |-> <<"{">> \o Listed([i \in DOMAIN map |-> map[i].key \o <<": ">> \o map[i].val.key])
             \o <<"}">>,
   nodes |-> 1 + Len(map) + SumNodes(Vals(map)), height |-> 1 + MaxHeight(Vals(map)),
   mergeable |-> TRUE]

\* A tag that is neither core nor registered for strip-through.
wrap_with_tag(inner, tagged) ==
  IF tagged THEN [inner EXCEPT !.t = "Tagged", !.parts = <<inner>>, !.pairs = <<>>,
                               !.nodes = @ + 1, !.mergeable = FALSE]
            ELSE inner

\* Where `key` stands in the map, 0 if nowhere.
get_index_of(map, key) == SelectInSeq(map, LAMBDA e : e.key = key)

\* Mutant: the merged mapping wins.
OfferOver(map, p) ==
  LET i == get_index_of(map, p.key) IN IF i = 0 THEN Append(map, p) ELSE [map EXCEPT ![i] = p]

\* An entry of a merge source: a key already present stays.
Offer(map, p) == IF get_index_of(map, p.key) = 0 THEN Append(map, p) ELSE map

apply_merge(map, v) ==
  LET merged[k \in 0 .. Len(v.pairs)] ==
        IF k = 0 THEN map ELSE Offer(merged[k - 1], v.pairs[k])
  IN  merged[Len(v.pairs)]

-----------------------------------------------------------------------------
(* KeyShape: the memory of the key-collision check.                        *)

Str == [shape |-> "Str"]
Other(v) == [shape |-> "Other", value |-> v]

KeyShapeOf(v) == IF v.t = "Str" THEN Str ELSE Other(v)

\* The shape of the i-th key: strings are not recorded until they must be.
at(typed_keys, i) == IF i <= Len(typed_keys) THEN typed_keys[i] ELSE Str

\* Record the shape of the key that follows idx others.
record(typed_keys, idx, shape) ==
  IF typed_keys = <<>> /\ shape = Str THEN typed_keys
  ELSE Append(typed_keys \o [i \in 1 .. (idx - Len(typed_keys)) |-> Str], shape)

-----------------------------------------------------------------------------
(* Frames.  A NoSpanFrame leaves `spans` empty.  `seen` is a ghost: every  *)
(* ordinary entry offered to the mapping, in order.                        *)

SeqFrame(anchor, tag, start) ==
  [f |-> "seq", items |-> <<>>, spans |-> <<>>, anchor |-> anchor, tag |-> tag,
   start |-> start]

MapFrame(anchor, tag, start) ==
  [f |-> "key", map |-> <<>>, spans |-> <<>>, typed_keys |-> <<>>,
   merge_values |-> <<>>, anchor |-> anchor, tag |-> tag, start |-> start,
   key |-> <<>>, key_value |-> Str, key_may_merge |-> FALSE, key_span |-> 0,
   seen |-> <<>>]

\* The span of a node: whether it is a Leaf, where its own token stands, and
\* where the node begins, which for an alias is where its anchor does.
Span(leaf, pos, start) == [leaf |-> leaf, at |-> pos, start |-> start]

Fail(L, err, pos) == [L EXCEPT !.err = err, !.at = pos]
SetTop(L, frame) == [L EXCEPT !.stack[Len(L.stack)] = frame]

Pop(L) == [L EXCEPT !.stack = Front(@), !.depth = IF @ = 0 THEN 0 ELSE @ - 1]

PushItem(L, v, spans) ==
  LET f == Last(L.stack) IN
  IF Len(f.items) >= MaxSequenceLength THEN Fail(L, "sequence_length", 0)
  ELSE SetTop(L, [f EXCEPT !.items = Append(@, v), !.spans = spans])

\* A key: the frame now waits for its value.  A merge key that will be
\* buffered is recorded as null, and never compared.
PushKey(L, v, may_be_merge_key, key_span, start) ==
  LET f == Last(L.stack)
      buffered == may_be_merge_key /\ v.t = "Str" /\ v.key = MERGE_KEY
                    /\ config.merge # "AsOrdinary"
  IN
  IF config.non_scalar = "Error" /\ v.t \in {"Seq", "Map"}
  THEN Fail(L, "non_scalar_key", start)
  ELSE SetTop(L, [f EXCEPT
         !.f = "value", !.key = v.key, !.key_may_merge = may_be_merge_key,
         !.key_value = IF buffered THEN Other(Atom("Null", <<"null">>)) ELSE KeyShapeOf(v),
         !.key_span = key_span])

\* The frame waits for a key again.
NextKey(f) ==
  [f EXCEPT !.f = "key", !.key = <<>>, !.key_value = Str,
            !.key_may_merge = FALSE, !.key_span = 0]

IsMerge(f) == f.key_may_merge /\ f.key = MERGE_KEY
Inserted(f, v) ==
  [f EXCEPT !.map = Append(@, [key |-> f.key, val |-> v]),
            !.typed_keys = record(@, Len(f.map), f.key_value)]

\* The Loader's insertion: a repeated key keeps its index, and its span is
\* replaced there.
InsertSpanned(f, v, span) ==
  LET idx == get_index_of(f.map, f.key)
      entry == [key |-> f.key_span, val |-> span]
  IN
  IF idx = 0 THEN [Inserted(f, v) EXCEPT !.spans = Append(@, entry)]
  ELSE IF config.duplicate = "Last"
       THEN [f EXCEPT !.map[idx].val = v, !.spans[idx] = entry]
  ELSE f

\* The NoSpanLoader's insertion.
InsertBare(f, v) ==
  LET idx == get_index_of(f.map, f.key) IN
  IF idx = 0 THEN Inserted(f, v)
  ELSE IF config.duplicate = "Last" THEN [f EXCEPT !.map[idx].val = v]
  ELSE f

Seen(f, v, span) ==
  [f EXCEPT !.seen = Append(@, [key |-> f.key, shape |-> f.key_value, val |-> v,
                                span |-> [key |-> f.key_span, val |-> span]])]

\* The value of a key: buffered when the key is a merge key, else inserted,
\* unless the key is there with another type or may not be repeated.
PushValue(L, v, span) ==
  LET f == Last(L.stack)
      idx == get_index_of(f.map, f.key)
  IN
  IF IsMerge(f) /\ config.merge = "Error" THEN Fail(L, "merge_rejected", 0)
  ELSE IF IsMerge(f) /\ config.merge # "AsOrdinary"
       THEN SetTop(L, NextKey([f EXCEPT !.merge_values = Append(@, v)]))
  ELSE IF Len(f.map) >= MaxMappingKeys THEN Fail(L, "mapping_keys", 0)
  ELSE IF idx # 0 /\ at(f.typed_keys, idx) # f.key_value
       THEN Fail(L, "key_collision", f.key_span)
  ELSE IF idx # 0 /\ config.duplicate = "Error"
       THEN Fail(L, "duplicate_key", f.key_span)
  ELSE SetTop(L, NextKey(IF L.spanned THEN Seen(InsertSpanned(f, v, span), v, span)
                                      ELSE InsertBare(f, v)))

push_node(L, v, span, may_be_merge_key) ==
  IF L.stack = <<>> THEN [L EXCEPT !.docs = Append(@, [val |-> v, span |-> span])]
  ELSE CASE Last(L.stack).f = "seq" -> PushItem(L, v, Append(Last(L.stack).spans, span))
         [] Last(L.stack).f = "key" ->
              PushKey(L, v, may_be_merge_key, IF span.leaf THEN span.at ELSE 0, span.start)
         [] Last(L.stack).f = "value" ->
              PushValue(L, v, span)

push_value(L, v, span, may_be_merge_key) ==
  IF L.stack = <<>> THEN [L EXCEPT !.docs = Append(@, [val |-> v])]
  ELSE CASE Last(L.stack).f = "seq" -> PushItem(L, v, <<>>)
         [] Last(L.stack).f = "key" -> PushKey(L, v, may_be_merge_key, span.at, span.at)
         [] Last(L.stack).f = "value" -> PushValue(L, v, span)
-----------------------------------------------------------------------------
(* Events.                                                                 *)

Push(L, v, span, may_be_merge_key) ==
  IF L.spanned THEN push_node(L, v, span, may_be_merge_key)
               ELSE push_value(L, v, span, may_be_merge_key)

\* An anchor_map holds the anchors defined so far, and only those.
NoAnchors == [a \in {} |-> None]

NewLoader(spanned) ==
  [spanned |-> spanned, docs |-> <<>>, stack |-> <<>>, anchor_map |-> NoAnchors,
   anchor_def_spans |-> [a \in Anchors |-> 0],
   earlier_anchor_defs |-> [a \in Anchors |-> 0],
   alias_bytes |-> 0, depth |-> 0, in_document |-> FALSE, err |-> "none", at |-> 0]

\* Mutant: the anchors of the last document stay.
DocumentStartKeeping(L) ==
  [L EXCEPT !.in_document = TRUE, !.alias_bytes = 0]

\* Anchors do not cross a document boundary.
DocumentStart(L) ==
  [L EXCEPT
     !.in_document = TRUE, !.alias_bytes = 0,
     !.anchor_map = NoAnchors,
     !.anchor_def_spans = [a \in Anchors |-> 0],
     !.earlier_anchor_defs =
        [a \in Anchors |-> IF L.anchor_def_spans[a] # 0 THEN L.anchor_def_spans[a] ELSE @[a]]]

\* Mutant: the document is left open.
DocumentEndOpen(L) == L

DocumentEnd(L) == [L EXCEPT !.in_document = FALSE]

\* Known in this document but not complete: the alias is inside its anchor.
missing_anchor(L, anchor, pos) ==
  IF L.anchor_def_spans[anchor] # 0 THEN Fail(L, "self_reference", pos)
  ELSE Fail(L, "unknown_anchor", pos)

alias_too_deep(L, v) == depth_exceeded(L.depth + v.height, MaxDepth)

\* Mutant: an alias is charged as one node.
alias_cost_flat(v) == NODE_BYTES

alias_cost(v) == v.nodes * NODE_BYTES

\* charge_expansion (Meter) comes before anything is copied.
resolve_alias(L, anchor, pos) ==
  LET known == L.anchor_map[anchor]
      over == alias_bytes_exceeded(L.alias_bytes, alias_cost(known.val), MaxDocumentLength)
      charged == [L EXCEPT !.alias_bytes = alias_bytes_total(@, alias_cost(known.val))]
  IN
  IF ~L.in_document THEN Fail(L, "outside_document", pos)
  ELSE IF anchor \notin DOMAIN L.anchor_map THEN missing_anchor(L, anchor, pos)
  ELSE IF alias_too_deep(L, known.val) THEN Fail(L, "depth", 0)
  ELSE IF over THEN Fail(charged, "alias_bytes", 0)
  ELSE Push(charged, known.val, Span(FALSE, pos, known.start), FALSE)

DefineSpan(L, anchor, pos) ==
  IF anchor = None THEN L ELSE [L EXCEPT !.anchor_def_spans[anchor] = pos]

DefineAnchor(L, anchor, v, start) ==
  IF anchor = None THEN L
  ELSE [L EXCEPT !.anchor_map =
          [a \in DOMAIN @ \cup {anchor} |->
             IF a = anchor THEN [val |-> v, start |-> start] ELSE @[a]]]

Scalar(L, s, pos) ==
  Push(DefineAnchor(DefineSpan(L, s.anchor, pos), s.anchor, s.val, pos),
       s.val, Span(TRUE, pos, pos), s.plain)

\* SequenceStart and MappingStart: the depth is counted before it is checked.
CollectionStart(L, c, frame) ==
  LET deeper == [L EXCEPT !.depth = @ + 1] IN
  IF depth_exceeded(deeper.depth, MaxDepth) THEN Fail(deeper, "depth", 0)
  ELSE [DefineSpan(deeper, c.anchor, frame.start) EXCEPT !.stack = Append(@, frame)]

Completed(L, f, inner) ==
  LET v == wrap_with_tag(inner, f.tag)
  IN  Push(DefineAnchor(Pop(L), f.anchor, v, f.start), v,
           Span(FALSE, f.start, f.start), FALSE)

\* A frame of the other kind was open: the Loader refuses, its twin drops
\* the frame.
Unexpected(L, pos) ==
  IF L.spanned THEN Fail(Pop(L), "unexpected_end", pos) ELSE Pop(L)

Innermost(L, kind) == L.stack # <<>> /\ Last(L.stack).f = kind

SequenceEnd(L, pos) ==
  LET f == Last(L.stack) IN
  IF Innermost(L, "seq") THEN Completed(L, f, SequenceOf(f.items))
  ELSE Unexpected(L, pos)

\* The merge values are applied in order, once all explicit keys are known.
Merged(f) ==
  LET merged[k \in 0 .. Len(f.merge_values)] ==
        IF k = 0 THEN f.map ELSE apply_merge(merged[k - 1], f.merge_values[k])
  IN  merged[Len(f.merge_values)]

MappingEnd(L, pos) ==
  LET f == Last(L.stack) IN
  IF ~Innermost(L, "key") THEN Unexpected(L, pos)
  ELSE IF \E i \in DOMAIN f.merge_values : ~f.merge_values[i].mergeable
       THEN Fail(Pop(L), "scalar_in_merge", 0)
  ELSE Completed(L, f, MappingOf(Merged(f)))

-----------------------------------------------------------------------------
Init ==
  /\ GInit
  /\ \E s \in Setups : config = s.config /\ input = s.input
  /\ n = 0 /\ node = None /\ doc = 0 /\ paid = 0
  /\ full = NewLoader(TRUE) /\ bare = NewLoader(FALSE)
  /\ latest = [a \in Anchors |-> [doc |-> 0, val |-> None]]

\* A node completed by this step, for the ghost.
Complete(anchor, v) ==
  latest' = IF anchor = None THEN latest
            ELSE [latest EXCEPT ![anchor] = [doc |-> doc, val |-> v]]

\* Bound: no document starts and no node begins after input.events events.
More == n < input.events

StreamEvent ==
  /\ StartStream \/ EndStream
  /\ node' = None
  /\ UNCHANGED <<full, bare, doc, latest, paid>>

DocumentStartEvent ==
  /\ More /\ StartDocument
  /\ full' = DocumentStart(full) /\ bare' = DocumentStart(bare)
  /\ doc' = doc + 1 /\ paid' = 0 /\ node' = None
  /\ UNCHANGED latest

DocumentEndEvent ==
  /\ EndDocument
  /\ full' = DocumentEnd(full) /\ bare' = DocumentEnd(bare) /\ node' = None
  /\ UNCHANGED <<doc, latest, paid>>

AliasEvent ==
  /\ More /\ Leaf /\ event' = "Alias"
  /\ \E a \in input.aliases :
       /\ node' = a
       /\ full' = resolve_alias(full, a, n')
       /\ bare' = resolve_alias(bare, a, n')
  /\ UNCHANGED <<doc, latest, paid>>

ScalarEvent ==
  /\ More /\ Leaf /\ event' = "Scalar"
  /\ \E s \in input.scalars :
       /\ node' = s
       /\ full' = Scalar(full, s, n')
       /\ bare' = Scalar(bare, s, n')
       /\ Complete(s.anchor, s.val)
       /\ paid' = paid + s.val.nodes
  /\ UNCHANGED doc

\* A collection and its tag are two Values.
Started(c, frame) ==
  /\ node' = c
  /\ full' = CollectionStart(full, c, frame)
  /\ bare' = CollectionStart(bare, c, frame)
  /\ paid' = paid + (IF c.tag THEN 2 ELSE 1)
  /\ UNCHANGED <<doc, latest>>

SequenceStartEvent ==
  /\ More /\ Begin("SequenceStart", "seq")
  /\ \E c \in input.sequences : Started(c, SeqFrame(c.anchor, c.tag, n'))

MappingStartEvent ==
  /\ More /\ Begin("MappingStart", "key")
  /\ \E c \in input.mappings : Started(c, MapFrame(c.anchor, c.tag, n'))

SequenceEndEvent ==
  /\ Finish("SequenceEnd", "seq") /\ node' = None
  /\ full' = SequenceEnd(full, n')
  /\ bare' = SequenceEnd(bare, n')
  /\ LET f == Last(full.stack)
     IN  Complete(f.anchor, wrap_with_tag(SequenceOf(f.items), f.tag))
  /\ UNCHANGED <<doc, paid>>

MappingEndEvent ==
  /\ Finish("MappingEnd", "key") /\ node' = None
  /\ full' = MappingEnd(full, n')
  /\ bare' = MappingEnd(bare, n')
  /\ LET f == Last(full.stack)
     IN  Complete(f.anchor, wrap_with_tag(MappingOf(Merged(f)), f.tag))
  /\ UNCHANGED <<doc, paid>>

\* The parse ends early: the parser failed, a policy or a budget of Meter
\* refused, or a tag does not fit its scalar.
Refused ==
  /\ phase # "start" /\ Refuse /\ node' = None
  /\ full' = Fail(full, "refused", n') /\ bare' = Fail(bare, "refused", n')
  /\ UNCHANGED <<doc, latest, paid>>

Next ==
  /\ full.err = "none" /\ bare.err = "none"
  /\ n' = n + 1
  /\ \/ StreamEvent \/ DocumentStartEvent \/ DocumentEndEvent
     \/ AliasEvent \/ ScalarEvent
     \/ SequenceStartEvent \/ SequenceEndEvent
     \/ MappingStartEvent \/ MappingEndEvent
     \/ Refused
  /\ UNCHANGED <<config, input>>

Spec == Init /\ [][Next]_vars

-----------------------------------------------------------------------------
(* Properties.                                                             *)

\* The frames are the collections open in the event stream: each waits for
\* what the grammar allows next, so a loader never meets an end event it does
\* not expect or an alias outside a document, and every document adds
\* exactly one entry to docs.
FramesFollowEvents ==
  /\ full.err \notin {"unexpected_end", "outside_document"}
  /\ full.err = "none" =>
       /\ Len(full.stack) = Len(open) /\ full.depth = Len(open)
       /\ \A i \in DOMAIN open :
            open[i] = IF i = Len(open) THEN full.stack[i].f ELSE Turn(full.stack[i].f)
       /\ full.in_document <=> phase \in {"root", "inside", "rooted"}
       /\ Len(full.docs) = IF phase \in {"root", "inside"} THEN doc - 1 ELSE doc

Mappings == {i \in DOMAIN full.stack : full.stack[i].f # "seq"}

\* Among the entries met so far (seen), the one the policy keeps for a key.
Kept(f, key) ==
  LET same == {i \in DOMAIN f.seen : f.seen[i].key = key}
  IN  f.seen[IF config.duplicate = "Last" THEN Max(same) ELSE Min(same)]
FirstSeen(f, key) == SelectInSeq(f.seen, LAMBDA e : e.key = key)

\* A mapping under construction is what its duplicate-key policy says of the
\* entries met: one entry per key in order of first appearance, holding the
\* kept value, with that value's own span and key shape at the same index.
\* No two keys of different type are collapsed into one.
MapByPolicy ==
  \A i \in Mappings : LET f == full.stack[i] IN
    /\ Len(f.spans) = Len(f.map)
    /\ {f.map[j].key : j \in DOMAIN f.map} = {f.seen[j].key : j \in DOMAIN f.seen}
    /\ \A j \in DOMAIN f.map : LET kept == Kept(f, f.map[j].key) IN
         /\ f.map[j].val = kept.val /\ f.spans[j] = kept.span
         /\ at(f.typed_keys, j) = kept.shape
    /\ \A j, k \in DOMAIN f.map :
         j < k => FirstSeen(f, f.map[j].key) < FirstSeen(f, f.map[k].key)
    /\ \A j, k \in DOMAIN f.seen :
         f.seen[j].key = f.seen[k].key => f.seen[j].shape = f.seen[k].shape

\* Merging: explicit keys win, then the earlier merge source.  Merged entries
\* follow the explicit ones, so the spans still stand at their keys' indices.
MergePrecedence ==
  \A i \in Mappings :
    LET f == full.stack[i]
        m == Merged(f)
        offered == FlattenSeq([j \in DOMAIN f.merge_values |-> f.merge_values[j].pairs])
    IN
    /\ SubSeq(m, 1, Len(f.map)) = f.map
    /\ \A j, k \in DOMAIN m : m[j].key = m[k].key => j = k
    /\ \A o \in DOMAIN offered : get_index_of(m, offered[o].key) # 0
    /\ \A j \in (Len(f.map) + 1) .. Len(m) :
         m[j] = offered[SelectInSeq(offered, LAMBDA p : p.key = m[j].key)]

\* Every mapping of the loader is what the duplicate-key policy and then the
\* merge keys say of the entries met, however the two interact.
MappingsByPolicy == MapByPolicy /\ MergePrecedence

\* The values a frame holds.
Held(f) == IF f.f = "seq" THEN f.items ELSE Vals(f.map) \o f.merge_values

\* No document is nested deeper than max_depth, whatever its aliases and
\* merge keys expand to.
DepthBounded ==
  /\ \A i \in DOMAIN full.docs : ~depth_exceeded(full.docs[i].val.height, MaxDepth)
  /\ \A i \in DOMAIN full.stack :
       ~depth_exceeded(i + MaxHeight(Held(full.stack[i])), MaxDepth)

FrameNodes(f) ==
  (IF f.tag THEN 2 ELSE 1) + SumNodes(Held(f))
    + (IF f.f = "seq" THEN 0 ELSE Len(f.map))
    + (IF f.f = "value" THEN 1 ELSE 0)

\* Every node of the document being built was charged, either as an event
\* or in the bytes of the alias that copied it: the budgets bound the tree.
PaidFor ==
  (full.err = "none" /\ full.in_document) =>
    (IF phase = "rooted" THEN Last(full.docs).val.nodes ELSE 0)
      + Total([i \in DOMAIN full.stack |-> FrameNodes(full.stack[i])])
      <= paid + full.alias_bytes \div NODE_BYTES

\* The tree in memory is within the budgets: no deeper than max_depth and no
\* larger than what was charged, whatever aliases and merge keys copy.
TreeBounded == DepthBounded /\ PaidFor

\* An alias means the node last completed under that anchor in this same
\* document.  An anchor with a definition but no node is one still open, so
\* the "still being defined" error is given exactly to self references.
AnchorScope ==
  full.err = "none" => \A a \in Anchors :
    LET complete == doc > 0 /\ latest[a].doc = doc
        inside == \E i \in DOMAIN full.stack : full.stack[i].anchor = a
    IN
    phase \notin {"start", "between", "end"} =>
      /\ a \in DOMAIN full.anchor_map <=> complete
      /\ complete => full.anchor_map[a].val = latest[a].val
      /\ full.anchor_def_spans[a] # 0 <=> complete \/ inside

\* The span-free loader is the same loader: it builds the same documents and
\* refuses the same input for the same reason.
LoadersAgree ==
  /\ full.err = bare.err
  /\ Vals(full.docs) = Vals(bare.docs)
  /\ full.anchor_def_spans = bare.anchor_def_spans
=============================================================================
