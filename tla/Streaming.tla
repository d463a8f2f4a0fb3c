----------------------------- MODULE Streaming -----------------------------
(***************************************************************************)
(* The streaming deserializer (streaming.rs): parser events handed to a    *)
(* serde visitor without a tree between them.  Anchored nodes are recorded *)
(* while they are read and replayed for their aliases; a merge key splices *)
(* a recorded mapping into the one being read; what a visitor leaves       *)
(* unread is skipped when its access object is dropped.                    *)
(*                                                                         *)
(* The visitor asks for keys and values in turn; apart from that it is     *)
(* any: at each value it picks how to read it, it may ask again after the  *)
(* end, and it may return at any point, also between a key and its value   *)
(* and before the content of a variant.  from_str goes to the tree loader  *)
(* on a fallback and on an error without a position, and returns the rest  *)
(* as they are.  Budgets other than the depth, scalar styles and types of  *)
(* scalars are left out.                                                   *)
(***************************************************************************)
EXTENDS Naturals, Sequences, FiniteSets, SequencesExt

CONSTANTS
  Documents,  \* event sequences the parser may produce
  Policies,   \* DuplicateKeyPolicy values tried
  MaxDepth    \* ParseConfig::max_depth

ASSUME StreamingConstants == MaxDepth \in Nat /\ Policies \subseteq {"Last", "First", "Error"}

VARIABLES
  doc,      \* what the parser will return
  policy,   \* DuplicateKeyPolicy
  de,       \* the StreamingDeserializer
  frames,   \* the visitor's access objects, outermost first
  got,      \* what the visitor holds: <<path, leaf>>
  skipped,  \* paths it chose not to read
  left,     \* paths of the collections it stopped reading before their end
  lost,     \* a drop swallowed an error
  astray,   \* what it left half way: a mapping at a "value", a "variant"
  outcome   \* "reading", "draining", then how from_str_streaming ended

vars == <<doc, policy, de, frames, got, skipped, left, lost, astray, outcome>>

None == "-"
Event(t, v) == [t |-> t, v |-> v, anchor |-> None, tag |-> FALSE]
Opens(ev) == ev.t \in {"seq", "map"}
Closes(ev) == ev.t \in {"seqend", "mapend"}

(***************************************************************************)
(* The event source: the parser, the replay stack and one slot.            *)
(***************************************************************************)
Fail(d, e) == [d EXCEPT !.err = e]

\* A syntax error, and the end of the stream, are met again by every later
\* call.
pull_parser_event(d) ==
  IF d.pos > Len(doc) \/ doc[d.pos].t = "bad" THEN Fail(d, "located")
  ELSE [d EXCEPT !.ev = doc[d.pos], !.pos = @ + 1]

\* An anchor inside an anchored node is not recorded on its own.
handle_anchor(d) ==
  IF d.recording # <<>> \/ d.ev.anchor = None THEN d
  ELSE [d EXCEPT !.recording = <<[name |-> d.ev.anchor, depth |-> 0, buf |-> <<>>]>>,
                 !.ev.anchor = None]

finish_recording(d) ==
  LET r == d.recording[1]
  IN  [d EXCEPT !.recording = <<>>,
                !.anchors = [n \in DOMAIN @ \cup {r.name} |-> IF n = r.name THEN r.buf ELSE @[n]]]

\* Mutant: a scalar's recording is left open.
maybe_record_open(d) ==
  LET depth == IF Opens(d.ev) THEN d.recording[1].depth + 1
               ELSE IF Closes(d.ev) THEN d.recording[1].depth - 1
               ELSE d.recording[1].depth
      noted == [d EXCEPT !.recording[1].buf = Append(@, Event(d.ev.t, d.ev.v)),
                         !.recording[1].depth = depth]
  IN  IF d.recording = <<>> \/ d.ev.t \in {"start", "docend", "streamend"} THEN d
      ELSE IF depth = 0 /\ Closes(d.ev) THEN finish_recording(noted)
      ELSE noted
maybe_record(d) ==
  LET depth == IF Opens(d.ev) THEN d.recording[1].depth + 1
               ELSE IF Closes(d.ev) THEN d.recording[1].depth - 1
               ELSE d.recording[1].depth
      noted == [d EXCEPT !.recording[1].buf = Append(@, Event(d.ev.t, d.ev.v)),
                         !.recording[1].depth = depth]
  IN  IF d.recording = <<>> \/ d.ev.t \in {"start", "docend", "streamend"} THEN d
      ELSE IF depth = 0 THEN finish_recording(noted)
      ELSE noted
anchor_and_record(d) == maybe_record(handle_anchor(d))

resolve_alias(d, name) ==
  IF name \notin DOMAIN d.anchors THEN Fail(d, "located")
  ELSE [d EXCEPT !.ev = Head(d.anchors[name]),
                 !.replay = IF Len(d.anchors[name]) = 1 THEN @
                            ELSE Append(@, Tail(d.anchors[name]))]

Recorded(d) == IF d.err # None THEN d ELSE anchor_and_record(d)
process_event(d) ==
  IF d.err # None THEN d
  ELSE Recorded(IF d.ev.t = "alias" THEN resolve_alias(d, d.ev.v) ELSE d)

\* Empty frames are drained first; then the innermost replay, or the parser.
TakeRaw(d) ==
  LET live == SelectSeq(d.replay, LAMBDA b : b # <<>>)
      trim == [d EXCEPT !.replay = live]
  IN  IF live = <<>> THEN pull_parser_event(trim)
      ELSE [trim EXCEPT !.ev = Head(Last(live)), !.replay[Len(live)] = Tail(Last(live))]

Slot(d, raw) == IF d.err # None THEN d ELSE [d EXCEPT !.current = <<[raw |-> raw, ev |-> d.ev]>>]
FromSlot(d) == [d EXCEPT !.ev = d.current[1].ev, !.current = <<>>]

peek_event(d) ==
  IF d.current # <<>> THEN [d EXCEPT !.ev = d.current[1].ev]
  ELSE Slot(process_event(TakeRaw(d)), FALSE)
next_event(d) ==
  IF d.current # <<>> THEN FromSlot(d)
  ELSE process_event(TakeRaw(d))

PeekOk(d) == IF d.err # None THEN d ELSE peek_event(d)

\* The raw accessors of the merge path read past the replay stack.
peek_parser_event(d) ==
  IF d.current # <<>> THEN [d EXCEPT !.ev = d.current[1].ev] ELSE Slot(pull_parser_event(d), TRUE)
next_parser_event(d) ==
  IF d.current # <<>>
  THEN IF d.current[1].raw THEN anchor_and_record(FromSlot(d)) ELSE FromSlot(d)
  ELSE Recorded(pull_parser_event(d))

(***************************************************************************)
(* Skipping.                                                               *)
(***************************************************************************)
SkipLevel(is_map) == [is_map |-> is_map, key_next |-> TRUE, keys |-> {}]

\* skip_note_node: a repeated key is refused under the Error policy only.
skip_note_node(s, scalar) ==
  LET n == Len(s.levels)
      top == s.levels[n]
  IN  IF n = 0 \/ ~top.is_map THEN s
      ELSE IF ~top.key_next \/ scalar = None
           THEN [s EXCEPT !.levels[n].key_next = ~@]
      ELSE IF policy = "Error" /\ scalar \in top.keys THEN [s EXCEPT !.d.err = "plain"]
      ELSE [s EXCEPT !.levels[n].key_next = FALSE, !.levels[n].keys = @ \cup {scalar}]

\* One turn of skip_value_levels, the event in hand.
SkipDone(r, ev) ==
  [r EXCEPT !.done = r.d.err # None \/ (r.levels = <<>> /\ (ev.t = "scalar" \/ Closes(ev)))]
SkipEvent(s, d) ==
  LET t == [s EXCEPT !.d = d]
      noted == skip_note_node(t, IF d.ev.t = "scalar" THEN d.ev.v ELSE None)
      deeper == [noted EXCEPT !.levels = Append(@, SkipLevel(d.ev.t = "map")), !.d.depth = @ + 1]
      shallower == [t EXCEPT !.levels = IF @ = <<>> THEN @ ELSE Front(@),
                             !.d.depth = IF @ = 0 THEN 0 ELSE @ - 1]
  IN  SkipDone(IF d.err # None THEN t
               ELSE IF d.ev.t = "scalar" THEN noted
               ELSE IF Closes(d.ev) THEN shallower
               ELSE IF ~Opens(d.ev) THEN t
               ELSE IF noted.d.err # None THEN noted
               ELSE IF deeper.d.depth > MaxDepth THEN [deeper EXCEPT !.d.err = "plain"]
               ELSE deeper,
               d.ev)
SkipStep(s) == SkipEvent(s, next_event(s.d))

RECURSIVE skip_value_levels(_)
skip_value_levels(s) == IF s.done THEN s ELSE skip_value_levels(SkipStep(s))

\* The depth is restored whatever happened.
skip_value(d) ==
  [skip_value_levels([d |-> d, levels |-> <<>>, done |-> d.err # None]).d EXCEPT !.depth = d.depth]

(***************************************************************************)
(* Merge keys.                                                             *)
(***************************************************************************)
\* The events after `from` that belong to the node starting there.
skip_buffered_value(buf, from) ==
  LET kind == buf[from].t
      end == IF kind = "seq" THEN "seqend" ELSE "mapend"
      open[j \in from .. Len(buf)] ==
        (IF buf[j].t = kind THEN 1 ELSE 0) + (IF j = from THEN 0 ELSE open[j - 1])
        - (IF buf[j].t = end THEN 1 ELSE 0)
  IN  IF kind \notin {"seq", "map"} THEN from
      ELSE IF \A j \in from .. Len(buf) : open[j] > 0 THEN Len(buf)
      ELSE CHOOSE j \in from .. Len(buf) : open[j] = 0 /\ \A i \in from .. j - 1 : open[i] > 0

extract_mapping_body(buf) == SubSeq(buf, 2, Len(buf) - 1)
IsMapping(buf) == Len(buf) >= 2 /\ buf[1].t = "map" /\ Last(buf).t = "mapend"

\* The entries of a mapping's body, each as its slice; a key that is not a
\* scalar, or has no value, makes the body unusable.
Entries(body) ==
  LET at[n \in 0 .. Len(body)] ==
        IF n = 0 THEN [next |-> 1, out |-> <<>>, ok |-> TRUE]
        ELSE LET s == at[n - 1]
             IN  IF ~s.ok \/ s.next > Len(body) THEN s
                 ELSE IF body[s.next].t # "scalar" \/ s.next = Len(body) THEN [s EXCEPT !.ok = FALSE]
                 ELSE LET end == skip_buffered_value(body, s.next + 1)
                      IN  [s EXCEPT !.next = end + 1, !.out = Append(@, SubSeq(body, s.next, end))]
  IN  at[Len(body)]

collect_keys(body) == {e[1].v : e \in ToSet(Entries(body).out)}
\* Mutant: every entry of the source is taken.
filter_merge_entries_all(body, seen) == FlattenSeq(Entries(body).out)
filter_merge_entries(body, seen) ==
  FlattenSeq(SelectSeq(Entries(body).out, LAMBDA e : e[1].v \notin seen))

\* The keys at the top of what is left of the mapping.
extract_local_keys(buf) ==
  LET at[j \in 0 .. Len(buf)] ==
        IF j = 0 THEN [d |-> 0, key |-> TRUE, keys |-> {}]
        ELSE LET s == at[j - 1]
                 ev == buf[j]
             IN  IF Opens(ev) THEN [s EXCEPT !.d = @ + 1]
                 ELSE IF Closes(ev)
                      THEN [s EXCEPT !.d = IF @ = 0 THEN 0 ELSE @ - 1, !.key = @ \/ s.d = 1]
                 ELSE IF s.d # 0 THEN s
                 ELSE [s EXCEPT !.key = ~@,
                                !.keys = IF s.key /\ ev.t = "scalar" THEN @ \cup {ev.v} ELSE @]
  IN  at[Len(buf)].keys

\* buffer_rest_of_mapping: read raw, so aliases stay aliases.
BufferEvent(s, r) ==
  LET note == [s EXCEPT !.d = r, !.buf = Append(@, Event(r.ev.t, r.ev.v))]
  IN  IF r.err # None THEN [s EXCEPT !.d = r, !.done = TRUE]
      ELSE IF r.ev.t = "mapend" /\ s.depth = 0 THEN [note EXCEPT !.done = TRUE]
      ELSE IF Opens(r.ev) THEN [note EXCEPT !.depth = @ + 1]
      ELSE IF Closes(r.ev) THEN [note EXCEPT !.depth = IF @ = 0 THEN 0 ELSE @ - 1]
      ELSE IF r.ev.t \in {"scalar", "alias"} THEN note
      ELSE [s EXCEPT !.d = r]
RECURSIVE BufferRest(_)
BufferRest(s) == IF s.done THEN s ELSE BufferRest(BufferEvent(s, next_parser_event(s.d)))
buffer_rest_of_mapping(d) == BufferRest([d |-> d, buf |-> <<>>, depth |-> 0, done |-> FALSE])

\* The rest of the mapping goes under the sources, the first source on top.
MergeSources(rest, sources) ==
  LET at[n \in 0 .. Len(sources)] ==
        IF n = 0 THEN [seen |-> extract_local_keys(rest.buf), out |-> <<>>, err |-> None]
        ELSE LET s == at[n - 1]
                 buf == rest.d.anchors[sources[n]]
                 body == extract_mapping_body(buf)
             IN  IF s.err # None THEN s
                 ELSE IF sources[n] \notin DOMAIN rest.d.anchors THEN [s EXCEPT !.err = "located"]
                 ELSE IF ~IsMapping(buf) \/ ~Entries(body).ok THEN [s EXCEPT !.err = "fallback"]
                 ELSE [s EXCEPT !.out = <<filter_merge_entries(body, s.seen)>> \o @,
                                !.seen = @ \cup collect_keys(body)]
  IN  at[Len(sources)]
Inject(rest, end) ==
  IF rest.d.err # None THEN rest.d
  ELSE IF end.err # None THEN Fail(rest.d, end.err)
  ELSE [rest.d EXCEPT !.replay = @ \o <<rest.buf>> \o end.out]
InjectRest(rest, sources) == Inject(rest, MergeSources(rest, sources))
inject_multi_merge_mapping_contents(d, sources) == InjectRest(buffer_rest_of_mapping(d), sources)

\* The aliases of a merge sequence, to its end: r is the event peeked at.
Merged(d, names) == [d |-> d, names |-> names]
RECURSIVE MergeNames(_, _)
MergeNames(r, names) ==
  IF r.err # None THEN Merged(r, names)
  ELSE IF r.ev.t = "seqend" THEN Merged(FromSlot(r), names)
  ELSE IF r.ev.t = "alias" THEN MergeNames(peek_parser_event(FromSlot(r)), Append(names, r.ev.v))
  ELSE Merged(Fail(r, "fallback"), names)

\* `<<: *a` and `<<: [*a, *b]`; anything else is left to the tree loader.
MergeValue(value) ==
  IF value.err # None THEN Merged(value, <<>>)
  ELSE IF value.ev.t = "alias" THEN Merged([value EXCEPT !.current = <<>>], <<value.ev.v>>)
  ELSE IF value.ev.t # "seq" THEN Merged(Fail(value, "fallback"), <<>>)
  ELSE MergeNames(peek_parser_event(FromSlot(value)), <<>>)
InjectMerged(m) ==
  IF m.d.err # None THEN m.d ELSE inject_multi_merge_mapping_contents(m.d, m.names)
expand_merge_key(d) == InjectMerged(MergeValue(peek_parser_event(next_event(d))))

(***************************************************************************)
(* Reading a value: the deserialize_* methods.                             *)
(***************************************************************************)
RECURSIVE ToContent(_)
ToContent(r) ==
  IF r.err # None \/ r.ev.t # "start" THEN r ELSE ToContent(peek_event(FromSlot(r)))
skip_to_content(d) == ToContent(peek_event(d))

Frame(kind, path) ==
  [kind |-> kind, path |-> path, n |-> 0, key |-> None, emitted |-> FALSE, seen |-> {},
   finished |-> FALSE]
Read(d, push, leaves, skips) == [d |-> d, push |-> push, leaves |-> leaves, skips |-> skips]
Refuse(d, e) == Read(Fail(d, e), <<>>, {}, {})

\* A collection opens one level deeper.
OpenCollection(d, path) ==
  LET deeper == [d EXCEPT !.depth = @ + 1]
  IN  IF deeper.depth > MaxDepth THEN Refuse(deeper, "plain")
      ELSE Read(deeper, <<Frame(d.ev.t, path)>>, {<<path, d.ev.t>>}, {})

deserialize_any(d, path) ==
  LET c == skip_to_content(d)
      e == next_event(c)
  IN  IF c.err # None THEN Refuse(c, c.err)
      ELSE IF c.ev.tag THEN Refuse(c, "fallback")
      ELSE IF e.ev.t = "scalar" THEN Read(e, <<>>, {<<path, e.ev.v>>}, {})
      ELSE IF Opens(e.ev) THEN OpenCollection(e, path)
      ELSE Refuse(e, "fallback")

deserialize_str(d, path) ==
  LET c == skip_to_content(d)
  IN  IF c.err # None THEN Refuse(c, c.err)
      ELSE IF c.ev.tag \/ c.ev.t # "scalar" THEN Refuse(c, "fallback")
      ELSE Read(next_event(c), <<>>, {<<path, c.ev.v>>}, {})

\* deserialize_bool, _i64, _u64, _f64, _unit: the tag is not looked at.
DeserializeScalar(d, path) ==
  LET e == next_event(skip_to_content(d))
  IN  IF e.err # None THEN Refuse(e, e.err)
      ELSE IF e.ev.t # "scalar" THEN Refuse(e, "plain")
      ELSE Read(e, <<>>, {<<path, e.ev.v>>} \cup IF e.ev.tag THEN {<<path, "!">>} ELSE {}, {})

deserialize_seq(d, path) ==
  LET c == skip_to_content(d)
      e == next_event(c)
  IN  IF c.err # None THEN Refuse(c, c.err)
      ELSE IF c.ev.tag THEN Refuse(c, "fallback")
      ELSE IF e.ev.t = "seq" THEN OpenCollection(e, path)
      ELSE Refuse(e, "plain")

\* An empty stream and a null are a mapping without entries.
deserialize_map(d, path) ==
  LET c == skip_to_content(d)
      e == next_event(c)
  IN  IF c.err # None THEN Refuse(c, c.err)
      ELSE IF c.ev.t = "streamend" THEN Read(c, <<>>, {<<path, "null">>}, {})
      ELSE IF c.ev.tag THEN Refuse(c, "fallback")
      ELSE IF e.ev.t = "map" THEN OpenCollection(e, path)
      ELSE IF e.ev.t = "scalar" /\ e.ev.v = "null" THEN Read(e, <<>>, {<<path, "null">>}, {})
      ELSE Refuse(e, "plain")

\* A plain null is None; anything else is read as the inner type.
deserialize_option(d, path) ==
  LET c == skip_to_content(d)
  IN  IF c.err # None THEN Refuse(c, c.err)
      ELSE IF c.ev.t = "scalar" /\ c.ev.v = "null"
           THEN Read(next_event(c), <<>>,
                     {<<path, "null">>} \cup IF c.ev.tag THEN {<<path, "!">>} ELSE {}, {})
      ELSE deserialize_any(c, path)

\* The variant's name is a scalar, or the one key of a mapping; a mapping is
\* left open until its variant has been read.  No type has a variant `<<`.
\* The mapping is not charged to the depth.
deserialize_enum(d, path) ==
  LET c == skip_to_content(d)
      e == next_event(c)
      name == next_event(e)
  IN  IF c.err # None THEN Refuse(c, c.err)
      ELSE IF c.ev.tag
           THEN LET r == deserialize_any([c EXCEPT !.current[1].ev.tag = FALSE], path)
                IN  [r EXCEPT !.leaves = @ \cup {<<path, "!">>}]
      ELSE IF e.ev.t = "scalar" THEN Read(e, <<>>, {<<path, e.ev.v>>}, {})
      ELSE IF e.ev.t # "map" THEN Refuse(e, "plain")
      ELSE IF name.err # None THEN Refuse(name, name.err)
      ELSE IF name.ev.t # "scalar" \/ name.ev.v = "<<" THEN Refuse(name, "plain")
      ELSE Read(name, <<[Frame("variant", path) EXCEPT !.key = name.ev.v]>>, {<<path, "map">>, <<path, "enum">>}, {})

deserialize_ignored_any(d, path) == Read(skip_value(d), <<>>, {}, {path})

Targets == {"any", "str", "scalar", "seq", "map", "option", "enum", "ignored"}
Deserialize(d, path, target) ==
  CASE target = "any"     -> deserialize_any(d, path)
    [] target = "str"     -> deserialize_str(d, path)
    [] target = "scalar"  -> DeserializeScalar(d, path)
    [] target = "seq"     -> deserialize_seq(d, path)
    [] target = "map"     -> deserialize_map(d, path)
    [] target = "option"  -> deserialize_option(d, path)
    [] target = "enum"    -> deserialize_enum(d, path)
    [] target = "ignored" -> deserialize_ignored_any(d, path)

(***************************************************************************)
(* The access objects.                                                     *)
(***************************************************************************)
next_element_seed(d, f) ==
  LET r == peek_event(d)
  IN  IF f.finished THEN [d |-> d, some |-> FALSE]
      ELSE IF r.err # None THEN [d |-> r, some |-> FALSE]
      ELSE IF r.ev.t = "seqend" THEN [d |-> FromSlot(r), some |-> FALSE]
      ELSE [d |-> r, some |-> TRUE]

\* admit_key and the loop around it: an entry the policy refuses is skipped,
\* key and value, and the next one tried.
Stepped(s, d) == [s EXCEPT !.d = d, !.stop = d.err # None]
KeyPeeked(s, f, r) ==
  LET repeated == r.ev.t = "scalar" /\ policy # "Last" /\ r.ev.v \in s.seen
  IN  IF r.err # None THEN [s EXCEPT !.d = r, !.stop = TRUE]
      ELSE IF r.ev.t = "mapend" THEN [s EXCEPT !.d = FromSlot(r), !.stop = TRUE]
      ELSE IF r.ev.t = "scalar" /\ r.ev.v = "<<"
           THEN IF f.emitted THEN [s EXCEPT !.d = Fail(r, "fallback"), !.stop = TRUE]
                ELSE Stepped(s, expand_merge_key(r))
      ELSE IF repeated /\ policy = "Error" THEN [s EXCEPT !.d = Fail(r, "plain"), !.stop = TRUE]
      ELSE IF repeated THEN Stepped(s, skip_value(skip_value(r)))
      ELSE [s EXCEPT !.d = deserialize_str(r, <<>>).d, !.stop = TRUE, !.key = r.ev.v, !.seen = @ \cup {r.ev.v}]
RECURSIVE KeyLoop(_, _)
KeyLoop(s, f) == IF s.stop THEN s ELSE KeyLoop(KeyPeeked(s, f, peek_event(s.d)), f)
next_key_seed(d, f) == KeyLoop([d |-> d, key |-> None, seen |-> f.seen, stop |-> f.finished], f)

\* Drop: what is left is skipped value by value, in a mapping two at a time;
\* the first error ends the skip and is not reported.
\* Mutant: one value only.
DropAccess_once(r, f) ==
  IF f.finished \/ r.err # None THEN r
  ELSE IF Closes(r.ev) THEN FromSlot(r)
  ELSE IF f.kind = "map" THEN skip_value(skip_value(r)) ELSE skip_value(r)
RECURSIVE DropAccess(_, _)
DropAccess(r, f) ==
  IF f.finished \/ r.err # None THEN r
  ELSE IF r.ev.t = (IF f.kind = "seq" THEN "seqend" ELSE "mapend") THEN FromSlot(r)
  ELSE DropAccess(PeekOk(IF f.kind = "map" THEN skip_value(skip_value(r)) ELSE skip_value(r)), f)

(***************************************************************************)
(* The visitor's calls.                                                    *)
(***************************************************************************)
Fresh ==
  [pos |-> 1, ev |-> Event("start", None), err |-> None, current |-> <<>>,
   anchors |-> [n \in {} |-> <<>>], replay |-> <<>>, recording |-> <<>>, depth |-> 0]

Init ==
  /\ doc \in Documents /\ policy \in Policies
  /\ de = Fresh /\ frames = <<>> /\ got = {} /\ skipped = {} /\ left = {} /\ lost = FALSE
  /\ astray = {} /\ outcome = "start"

\* An error drops the deserializer and all it built.
End(e) ==
  /\ outcome' = IF e = "located" THEN "refused" ELSE "tree"
  /\ de' = Fresh /\ frames' = <<>> /\ got' = {} /\ skipped' = {}
  /\ UNCHANGED <<doc, policy, left, lost, astray>>

\* r was read under the frames given.
Continue(r, under) ==
  IF r.d.err # None THEN End(r.d.err)
  ELSE /\ de' = r.d /\ frames' = under \o r.push
       /\ got' = got \cup r.leaves /\ skipped' = skipped \cup r.skips
       /\ outcome' = IF under \o r.push = <<>> THEN "draining" ELSE "reading"
       /\ UNCHANGED <<doc, policy, left, lost, astray>>

Top == Last(frames)
Retop(f) == Append(Front(frames), f)
Under(path) == {l \in got : Len(l[1]) >= Len(path) /\ SubSeq(l[1], 1, Len(path)) = path}

Start == outcome = "start" /\ \E t \in Targets : Continue(Deserialize(de, <<>>, t), <<>>)

NextElement ==
  /\ frames # <<>> /\ Top.kind = "seq"
  /\ \E a \in {next_element_seed(de, Top)} :
         IF a.d.err # None THEN End(a.d.err)
         ELSE IF ~a.some THEN Continue(Read(a.d, <<>>, {}, {}), Retop([Top EXCEPT !.finished = TRUE]))
         ELSE \E t \in Targets :
                Continue(Deserialize(a.d, Append(Top.path, ToString(Top.n)), t),
                         Retop([Top EXCEPT !.n = @ + 1]))

NextKey ==
  /\ frames # <<>> /\ Top.kind = "map" /\ Top.key = None
  /\ \E k \in {next_key_seed(de, Top)} :
         IF k.d.err # None THEN End(k.d.err)
         ELSE /\ de' = k.d
              /\ frames' = Retop([Top EXCEPT !.finished = k.key = None, !.key = k.key, !.seen = k.seen,
                                             !.emitted = @ \/ k.key # None])
              /\ got' = got \ Under(Append(Top.path, k.key))
              /\ UNCHANGED <<doc, policy, skipped, left, lost, astray, outcome>>

NextValue ==
  /\ frames # <<>> /\ Top.kind = "map" /\ Top.key # None
  /\ \E t \in Targets :
       Continue(Deserialize(de, Append(Top.path, Top.key), t), Retop([Top EXCEPT !.key = None]))

\* The visitor returns: at the end, or having seen enough.  When it has a key
\* and not its value, the drop's pairs are one off from there.
Leave ==
  /\ frames # <<>> /\ Top.kind \in {"seq", "map"}
  /\ \E d \in {DropAccess(IF Top.finished THEN de ELSE peek_event(de), Top)} :
         /\ de' = [d EXCEPT !.err = None, !.depth = IF @ = 0 THEN 0 ELSE @ - 1]
         /\ lost' = (lost \/ d.err # None)
  /\ frames' = Front(frames)
  /\ left' = IF Top.finished THEN left ELSE left \cup {Top.path}
  /\ astray' = astray \cup (IF Top.key = None THEN {} ELSE {"value"})
  /\ outcome' = IF Len(frames) = 1 THEN "draining" ELSE outcome
  /\ UNCHANGED <<doc, policy, got, skipped>>

\* newtype_variant, tuple_variant and struct_variant.
Variant ==
  /\ frames # <<>> /\ Top.kind = "variant" /\ Top.n = 0
  /\ \E t \in {"any", "seq", "map"} :
       Continue(Deserialize(de, Append(Top.path, Top.key), t), Retop([Top EXCEPT !.n = 1]))
VariantEnd ==
  /\ frames # <<>> /\ Top.kind = "variant" /\ Top.n = 1
  /\ LET e == next_event(de)
     IN  IF e.err # None THEN End(e.err)
         ELSE IF e.ev.t # "mapend" THEN End("plain")
         ELSE Continue(Read(e, <<>>, {}, {}), Front(frames))
unit_variant ==
  /\ frames # <<>> /\ Top.kind = "variant" /\ Top.n = 0
  /\ \E e \in {next_event(de)} :
     \E done \in {IF e.err # None \/ e.ev.t = "mapend" THEN e
                  ELSE next_event(skip_value(Slot(e, FALSE)))} :
         IF done.err # None THEN End(done.err)
         ELSE IF done.ev.t # "mapend" THEN End("plain")
         ELSE Continue(Read(done, <<>>, {}, {Append(Top.path, Top.key)}), Front(frames))

\* The visitor returns without having asked for the variant's content, which
\* stays unread: these accesses have no Drop.
LeaveVariant ==
  /\ frames # <<>> /\ Top.kind = "variant" /\ Top.n = 0
  /\ frames' = Front(frames) /\ left' = left \cup {Top.path} /\ astray' = astray \cup {"variant"}
  /\ outcome' = IF Len(frames) = 1 THEN "draining" ELSE outcome
  /\ UNCHANGED <<doc, policy, de, got, skipped, lost>>

\* end: nothing but the end of the stream may follow.
Drain ==
  /\ outcome = "draining"
  /\ LET e == next_event(de)
     IN  IF e.err # None THEN End(e.err)
         ELSE IF e.ev.t = "docend" THEN de' = e /\ UNCHANGED <<doc, policy, frames, got, skipped, left, lost, astray, outcome>>
         ELSE IF e.ev.t = "start" THEN End("plain")
         ELSE /\ outcome' = "ok" /\ de' = Fresh
              /\ UNCHANGED <<doc, policy, frames, got, skipped, left, lost, astray>>

Next ==
  \/ Start \/ NextElement \/ NextKey \/ NextValue \/ Leave
  \/ Variant \/ VariantEnd \/ unit_variant \/ LeaveVariant \/ Drain

Spec == Init /\ [][Next]_vars
============================================================================
