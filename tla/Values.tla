------------------------------- MODULE Values -------------------------------
(* A program holding one value and working on it through the public API of    *)
(* value.rs and value/mapping.rs: path reads and writes, deep merges, merge   *)
(* keys, interpolation, the mapping operations, and the moves between a       *)
(* `Mapping` and a `MappingAny`.                                              *)
EXTENDS QueryPath, PostProcess

CONSTANTS
    InitialValues,     \* the values the program may start from
    Inputs,            \* values handed to insert, merge and path writes
    MergeInputs,       \* values handed to merge and merge_concat
    KeyInputs,         \* keys handed to insert and remove
    PathValues,        \* the values paths are spelled for
    PathKeys,          \* keys paths are spelled from
    AnyKeys,           \* values used as keys of a MappingAny
    Denied,            \* values the configured policy refuses
    Properties,        \* the property map: records [name, text]
    Pieces,            \* pieces of strings: [spelled, strict, lossy]
    MaxSegments,       \* bound: segments of the path being spelled
    MaxEdits           \* bound: operations applied to the value

VARIABLES
    held,      \* "value" or "any": which of the two the program holds
    value,     \* the Value
    any,       \* the entries of the MappingAny
    path,      \* the path text spelled so far
    segments,  \* what was spelled into it
    failed,    \* whether the last operation returned an error
    edits      \* operations so far

vars == <<held, value, any, path, segments, failed, edits>>

-----------------------------------------------------------------------------
(* Path reads.  A result is an address.                                       *)

RECURSIVE query_recursive(_, _)
query_recursive(v, segs) ==
    IF segs = <<>> THEN <<<<>>>>
    ELSE LET s == Head(segs)
             rest == Tail(segs)
             Under(addr, more) ==
                 LET sub == query_recursive(At(v, addr), more)
                 IN  [i \in DOMAIN sub |-> addr \o sub[i]]
             steps == Children(v)
             all(more) == FlattenSeq([i \in DOMAIN steps |-> Under(<<steps[i]>>, more)])
         IN  CASE s.step \in {"key", "index"} ->
                    FlattenSeq(SetToSeq({Under(a, rest) : a \in index_into(v, s)}))
               [] s.step = "wildcard" -> all(rest)
               [] s.step = "descent" ->
                    IF rest = <<>> THEN <<>>
                    ELSE query_recursive(v, rest) \o all(segs)
                         \o (IF v.kind = "tag" THEN Under(<<ThroughTag>>, segs) ELSE <<>>)

query(v, p) == query_recursive(v, parse_query_path(p))

(* One step of the reading walk: the set holds the reference, if any.         *)
Follow(v, from, s) == UNION {{a \o b : b \in index_into(At(v, a), s)} : a \in from}

Literal(segs) == \A i \in DOMAIN segs : segs[i].step \in {"key", "index"}

(* Follows keys and indices; at the first wildcard or descent, unless a step  *)
(* before it failed, it answers the first match of the whole query.           *)
get_path(v, p) ==
    LET segs == parse_query_path(p)
        cut == SelectInSeq(segs, LAMBDA s : s.step \in {"wildcard", "descent"})
        walked == IF cut = 0 THEN segs ELSE SubSeq(segs, 1, cut - 1)
        here == FoldLeft(LAMBDA from, s : Follow(v, from, s), {<<>>}, walked)
        found == query(v, p)
    IN  IF cut = 0 \/ here = {} THEN here
        ELSE IF found = <<>> THEN {} ELSE {Head(found)}

(* The mutable walk refuses wildcards and descents.                           *)
get_path_mut(v, p) ==
    LET segs == parse_query_path(p)
        step(from, s) == UNION {{a \o b : b \in index_into_mut(At(v, a), s)} : a \in from}
    IN  IF Literal(segs) THEN FoldLeft(step, {<<>>}, segs) ELSE {}

-----------------------------------------------------------------------------
(* Deep merges.                                                               *)

RECURSIVE merge(_, _)
merge(base, other) ==
    IF base.kind = "map" /\ other.kind = "map"
    THEN Mapping(FoldLeft(
           LAMBDA m, e :
               IF StrMap!contains_key(m, e[1])
               THEN StrMap!insert(m, e[1], merge(m[StrMap!get_index_of(m, e[1])][2], e[2]))
               ELSE StrMap!insert(m, e[1], e[2]),
           base.entries, other.entries))
    ELSE other

RECURSIVE merge_concat(_, _)
merge_concat(base, other) ==
    CASE base.kind = "map" /\ other.kind = "map" ->
           Mapping(FoldLeft(
             LAMBDA m, e :
                 IF StrMap!contains_key(m, e[1])
                 THEN StrMap!insert(m, e[1],
                          merge_concat(m[StrMap!get_index_of(m, e[1])][2], e[2]))
                 ELSE StrMap!insert(m, e[1], e[2]),
             base.entries, other.entries))
      [] base.kind = "seq" /\ other.kind = "seq" -> Sequence(base.items \o other.items)
      [] OTHER -> other

-----------------------------------------------------------------------------
(* apply_merge: children first, stopping at the first error; then the `<<`    *)
(* key is removed and its sources are folded in, again up to the first error. *)
(* What was done before the error stays done.                                 *)

MergeKey == <<"<", "<">>

\* Mutant: a later source overrides what is there.
MergeSourcesOverriding(entries, sources) ==
    [ok |-> \A i \in DOMAIN sources : sources[i].kind = "map",
     v |-> Mapping(FoldLeft(LAMBDA m, s : IF s.kind = "map" THEN StrMap!extend(m, s.entries) ELSE m,
                            entries, sources))]

RECURSIVE MergeSources(_, _)
MergeSources(entries, sources) ==
    IF sources = <<>> THEN [ok |-> TRUE, v |-> Mapping(entries)]
    ELSE IF Head(sources).kind # "map" THEN [ok |-> FALSE, v |-> Mapping(entries)]
    ELSE MergeSources(FoldLeft(LAMBDA m, e : StrMap!or_insert(m, e[1], e[2]),
                               entries, Head(sources).entries),
                      Tail(sources))

(* The children in order; those behind a failure are left as they were.       *)
RECURSIVE apply_merge(_)
RECURSIVE ApplyAll(_, _)
ApplyAll(done, vs) ==
    IF vs = <<>> THEN [ok |-> TRUE, vs |-> done]
    ELSE LET r == apply_merge(Head(vs))
         IN  IF r.ok THEN ApplyAll(Append(done, r.v), Tail(vs))
             ELSE [ok |-> FALSE, vs |-> Append(done, r.v) \o Tail(vs)]

apply_merge(v) ==
    CASE v.kind = "seq" ->
           LET r == ApplyAll(<<>>, v.items) IN [ok |-> r.ok, v |-> Sequence(r.vs)]
      [] v.kind = "tag" ->
           LET r == apply_merge(v.inner) IN [ok |-> r.ok, v |-> Tagged(v.tag, r.v)]
      [] v.kind = "map" ->
           LET r == ApplyAll(<<>>, [i \in DOMAIN v.entries |-> v.entries[i][2]])
               entries == [i \in DOMAIN v.entries |-> <<v.entries[i][1], r.vs[i]>>]
               at == StrMap!get_index_of(entries, MergeKey)
               source == entries[at][2]
           IN  IF ~r.ok \/ at = 0 THEN [ok |-> r.ok, v |-> Mapping(entries)]
               ELSE MergeSources(StrMap!shift_remove(entries, MergeKey),
                                 IF as_sequence(source) = {} THEN <<source>> ELSE source.items)
      [] OTHER -> [ok |-> TRUE, v |-> v]

-----------------------------------------------------------------------------
Init ==
    /\ held = "value" /\ value \in InitialValues /\ any = <<>>
    /\ path = <<>> /\ segments = <<>>
    /\ failed = FALSE /\ edits = 0

(* Spelling a path: it does not touch the value, so it is done first.         *)
Spell(text, seg) ==
    /\ edits = 0 /\ value \in PathValues /\ Len(segments) < MaxSegments
    /\ path' = text
    /\ segments' = Append(segments, seg)
    /\ UNCHANGED <<held, value, any, failed, edits>>

PushKey(k) == Spell(push_key(path, k), ToKey(k))
PushIndex(i) == Spell(path \o <<"[">> \o Spelled(i) \o <<"]">>, ToIndex(i))
PushWildcard == Spell(path \o <<"[", "*", "]">>, Wildcard)
PushDescent == Spell(path \o <<".", ".">>, RecursiveDescent)

(* One call on the value that may fail: `ok` is its result.  A call that      *)
(* takes no path is explored from the empty one only.                         *)
Called(ok, v) ==
    /\ held = "value" /\ edits < MaxEdits
    /\ value' = v
    /\ failed' = ~ok
    /\ edits' = edits + 1
    /\ UNCHANGED <<held, any, path, segments>>

Became(ok, v) == path = <<>> /\ Called(ok, v)

(* `*value.get_path_mut(path)? = v`                                           *)
WritePath(v) ==
    \E at \in {get_path_mut(value, path)} :
        Called(at # {}, IF at = {} THEN value ELSE Write(value, CHOOSE a \in at : TRUE, v))

Merge(o) == Became(TRUE, merge(value, o))
MergeConcat(o) == Became(TRUE, merge_concat(value, o))
ApplyMerge == LET r == apply_merge(value) IN Became(r.ok, r.v)

InterpolateProperties ==
    \E r \in {interpolate_inner_bounded(value, Properties, "error", -1)} : Became(r.ok, r.v)

(* The lossy form drops the result of the walk.                               *)
InterpolatePropertiesLossy ==
    Became(TRUE, interpolate_inner_bounded(value, Properties, "empty", -1).v)

PostProcessDocument(missing) ==
    \E r \in {post_process_document(value, Properties, missing, Denied)} :
        Became(r.ok, IF r.ok THEN r.v ELSE value)

(* `untag` strips the tags of the whole tree.                                 *)
RECURSIVE untag(_)
untag(v) ==
    CASE v.kind = "tag" -> untag(v.inner)
      [] v.kind = "seq" -> Sequence([i \in DOMAIN v.items |-> untag(v.items[i])])
      [] v.kind = "map" -> Mapping([i \in DOMAIN v.entries |->
                                       <<v.entries[i][1], untag(v.entries[i][2])>>])
      [] OTHER -> v
Untag == Became(TRUE, untag(value))

(* `value[k] = v`: null becomes a mapping, a missing key is created, a tag is *)
(* looked through; anything else panics.                                      *)
RECURSIVE index_or_insert(_, _, _)
index_or_insert(v, k, new) ==
    CASE v.kind = "null" -> {Mapping(<<<<k, new>>>>)}
      [] v.kind = "map" -> {Mapping(StrMap!insert(StrMap!or_insert(v.entries, k, Null), k, new))}
      [] v.kind = "tag" -> {Tagged(v.tag, t) : t \in index_or_insert(v.inner, k, new)}
      [] OTHER -> {}
IndexOrInsert(k, v) == \E t \in index_or_insert(value, k, v) : Became(TRUE, t)

(* The operations of `Mapping`, on the mapping at the root.                   *)
Entries(m) == as_mapping(value) # {} /\ Became(TRUE, Mapping(m))

Insert(k, v) == Entries(StrMap!insert(value.entries, k, v))
Extend(m) == m.kind = "map" /\ Entries(StrMap!extend(value.entries, m.entries))
ShiftRemove(k) == Entries(StrMap!shift_remove(value.entries, k))
SwapRemove(k) == Entries(StrMap!swap_remove(value.entries, k))
PopFirst == value.kind = "map" /\ value.entries # <<>> /\ Entries(Tail(value.entries))
PopLast == value.kind = "map" /\ value.entries # <<>> /\ Entries(Front(value.entries))
SortKeys == Entries(SortSeq(value.entries, LAMBDA a, b : text_cmp(a[1], b[1]) < 0))
ReverseKeys == Entries(Reverse(value.entries))
Retain == Entries(StrMap!retain(value.entries, Inputs))
Clear == Entries(<<>>)

(* A write through get_index_mut, first_mut or last_mut.                      *)
Slot(i, v) == value.kind = "map" /\ i \in DOMAIN value.entries
              /\ Entries([value.entries EXCEPT ![i][2] = v])
GetIndexMut(i, v) == Slot(i, v)
FirstMut(v) == Slot(1, v)
LastMut(v) == value.kind = "map" /\ Slot(Len(value.entries), v)

(* The operations of `MappingAny`, and the moves between the two.             *)
AnyBecame(m) ==
    /\ held = "any" /\ edits < MaxEdits
    /\ any' = m
    /\ failed' = FALSE /\ edits' = edits + 1
    /\ UNCHANGED <<held, value, path, segments>>

AnyInsert(k, v) == AnyBecame(AnyMap!insert(any, k, v))
AnyShiftRemove(k) == AnyBecame(AnyMap!shift_remove(any, k))
AnySwapRemove(k) == AnyBecame(AnyMap!swap_remove(any, k))
AnyPopFirst == any # <<>> /\ AnyBecame(Tail(any))
AnyPopLast == any # <<>> /\ AnyBecame(Front(any))
AnySortKeys == AnyBecame(SortSeq(any, LAMBDA a, b : cmp(a[1], b[1]) < 0))
AnyReverse == AnyBecame(Reverse(any))
AnyRetain == AnyBecame(AnyMap!retain(any, Inputs))
AnyClear == AnyBecame(<<>>)
AnyGetIndexMut(i, v) == i \in DOMAIN any /\ AnyBecame([any EXCEPT ![i][2] = v])
AnyLastMut(v) == any # <<>> /\ AnyBecame([any EXCEPT ![Len(any)][2] = v])
AnyExtend(k, v) == AnyBecame(AnyMap!extend(any, <<<<k, v>>, <<k, Null>>>>))

FromMapping ==
    /\ held = "value" /\ value.kind = "map" /\ edits < MaxEdits /\ path = <<>>
    /\ held' = "any"
    /\ any' = FoldLeft(LAMBDA m, e : AnyMap!insert(m, Str(e[1]), e[2]), <<>>, value.entries)
    /\ value' = Null
    /\ failed' = FALSE /\ edits' = edits + 1
    /\ UNCHANGED <<path, segments>>

(* `into_mapping` consumes the map: a key that is no string loses it.         *)
IntoMapping ==
    /\ held = "any" /\ edits < MaxEdits
    /\ held' = "value"
    /\ LET ok == \A i \in DOMAIN any : any[i][1].kind = "str"
       IN  /\ value' = IF ok THEN Mapping(FoldLeft(LAMBDA m, e : StrMap!insert(m, e[1].str, e[2]),
                                                  <<>>, any))
                              ELSE Null
           /\ failed' = ~ok
    /\ any' = <<>> /\ edits' = edits + 1
    /\ UNCHANGED <<path, segments>>

Next ==
    \/ \E k \in PathKeys : PushKey(k)
    \/ \E i \in 0 .. 1 : PushIndex(i)
    \/ PushWildcard \/ PushDescent
    \/ \E v \in Inputs : WritePath(v)
    \/ \E o \in MergeInputs : Merge(o) \/ MergeConcat(o) \/ Extend(o)
    \/ ApplyMerge \/ InterpolateProperties \/ InterpolatePropertiesLossy
    \/ \E missing \in {"empty", "error"} : PostProcessDocument(missing)
    \/ \E v \in Inputs :
          \/ \E i \in 1 .. 2 : GetIndexMut(i, v) \/ AnyGetIndexMut(i, v)
          \/ FirstMut(v) \/ LastMut(v) \/ AnyLastMut(v)
    \/ Untag \/ PopFirst \/ PopLast \/ SortKeys \/ ReverseKeys \/ Retain \/ Clear
    \/ \E k \in KeyInputs :
          \/ ShiftRemove(k) \/ SwapRemove(k)
          \/ \E v \in Inputs : Insert(k, v) \/ IndexOrInsert(k, v)
    \/ \E k \in AnyKeys :
          \/ AnyShiftRemove(k) \/ AnySwapRemove(k)
          \/ \E v \in Inputs : AnyInsert(k, v) \/ AnyExtend(k, v)
    \/ AnyPopFirst \/ AnyPopLast \/ AnySortKeys \/ AnyReverse \/ AnyRetain \/ AnyClear
    \/ FromMapping \/ IntoMapping

Spec == Init /\ [][Next]_vars

-----------------------------------------------------------------------------
(* Paths.                                                                     *)

(* A path spelled with push_key and bracket segments, keys of any content     *)
(* included, parses to exactly the segments that were spelled, and so does    *)
(* the canonical spelling of the parsed path and the join of its keys         *)
(* (path.rs push_key, join_keys, Display).                                    *)
PathsReadBack ==
    /\ parse_query_path_checked(path) = Parsed(segments)
    /\ parse_query_path_checked(display(segments)) = Parsed(segments)
    /\ (\A i \in DOMAIN segments : segments[i].step = "key") =>
          parse_query_path_checked(join_keys([i \in DOMAIN segments |-> segments[i].key]))
             = Parsed(segments)

AddressSet(v) == ToSet(Addresses(v))

(* A write through get_path_mut lands where get_path reads, is read back, and *)
(* leaves every address outside it as it was; a path that names no single     *)
(* place (a wildcard, a descent, a missing step) writes nothing.              *)
WriteLandsWhereRead ==
    [][\A v \in Inputs : WritePath(v) =>
          IF failed' THEN value' = value /\ (Literal(segments) => get_path(value, path) = {})
          ELSE /\ get_path(value', path) = get_path(value, path)
               /\ \A a \in get_path(value', path) :
                     /\ At(value', a) = v
                     /\ \A b \in AddressSet(value) :
                           \/ IsPrefix(a, b)
                           \/ b \in AddressSet(value')
                              /\ (IsPrefix(b, a) \/ At(value', b) = At(value, b))]_vars

-----------------------------------------------------------------------------
(* Deep merges, stated by key paths.                                          *)

KeysOf(v) == [i \in DOMAIN v.entries |-> v.entries[i][1]]
Field(v, k) == Child(v, ToKey(k))
Has(v, k) == v.kind = "map" /\ StrMap!contains_key(v.entries, k)

(* `m` is the merge of `b` and `o`, `concat` telling what sequences do.       *)
RECURSIVE IsMerge(_, _, _, _)
IsMerge(m, b, o, concat) ==
    CASE b.kind = "map" /\ o.kind = "map" ->
           /\ KeysOf(m) = KeysOf(b) \o SelectSeq(KeysOf(o), LAMBDA k : ~Has(b, k))
           /\ \A k \in ToSet(KeysOf(m)) :
                 CASE ~Has(o, k) -> Field(m, k) = Field(b, k)
                   [] ~Has(b, k) -> Field(m, k) = Field(o, k)
                   [] OTHER -> IsMerge(Field(m, k), Field(b, k), Field(o, k), concat)
      [] concat /\ b.kind = "seq" /\ o.kind = "seq" -> m.items = b.items \o o.items
      [] OTHER -> m = o

(* merge and merge_concat keep the base's keys in place and in order, append  *)
(* the new ones, recurse under shared mappings only, and merging the same     *)
(* value again changes nothing (value.rs merge).                              *)
MergeLaw ==
    \A o \in MergeInputs :
       /\ Merge(o) => IsMerge(value', value, o, FALSE) /\ merge(value', o) = value'
       /\ MergeConcat(o) => IsMerge(value', value, o, TRUE)

(* Addresses that meet no merge key on the way.                               *)
Explicit(v) == {a \in AddressSet(v) : ToKey(MergeKey) \notin ToSet(a)}

Sources(m) ==
    IF ~Has(m, MergeKey) THEN <<>>
    ELSE IF Field(m, MergeKey).kind = "seq" THEN Field(m, MergeKey).items
    ELSE <<Field(m, MergeKey)>>

(* apply_merge never overrides an explicit entry, even where it fails half    *)
(* way; and where it succeeds no merge key is left, and every inherited key   *)
(* comes from the first source that has it (value.rs apply_merge).            *)
MergeKeysLaw ==
    ApplyMerge =>
       /\ \A a \in Explicit(value) :
             /\ a \in AddressSet(value')
             /\ LET was == At(value, a) IN
                was.kind \in {"num", "str", "null"} => At(value', a) = was
       /\ ~failed' =>
             /\ Explicit(value') = AddressSet(value')
             /\ \A a \in Explicit(value) : At(value, a).kind = "map" =>
                   LET old == At(value, a)
                       new == At(value', a)
                       sources == [i \in DOMAIN Sources(old) |->
                                      apply_merge(Sources(old)[i]).v]
                       From(k) == SelectInSeq(sources, LAMBDA m : Has(m, k))
                   IN  \A k \in ToSet(KeysOf(new)) : ~Has(old, k) =>
                          From(k) > 0 /\ Field(new, k) = Field(sources[From(k)], k)

(* Both merges combine mappings by their law, half-way failures included.     *)
MergesByLaw == [][MergeLaw /\ MergeKeysLaw]_vars

-----------------------------------------------------------------------------
(* Interpolation.  `Pieces` says what each piece of a string means.           *)

PieceStrings == {<<p>> : p \in Pieces} \cup {<<p, q>> : p \in Pieces, q \in Pieces}
Text(ps) == FlattenSeq([i \in DOMAIN ps |-> ps[i].spelled])
Meaning(ps, missing) ==
    LET m == [i \in DOMAIN ps |-> IF missing = "empty" THEN ps[i].lossy ELSE ps[i].strict]
    IN  IF \E i \in DOMAIN m : m[i] = {} THEN {}
        ELSE {FlattenSeq([i \in DOMAIN m |-> CHOOSE t \in m[i] : TRUE])}

Means(s, missing) == Meaning(CHOOSE ps \in PieceStrings : Text(ps) = s, missing)
Strings(v) == SelectSeq(Addresses(v), LAMBDA a : At(v, a).kind = "str")
InPieces(s) == \E ps \in PieceStrings : Text(ps) = s

(* Every string is expanded piece by piece and exactly once, escapes and      *)
(* substituted text never being read again; the first string without a        *)
(* meaning stops the walk, the strings before it expanded and it and those    *)
(* behind it untouched (value.rs interpolate_walk, expand_placeholders).      *)
InterpolatesOnce ==
    [][\A missing \in {"empty", "error"} :
          /\ IF missing = "empty" THEN InterpolatePropertiesLossy ELSE InterpolateProperties
          /\ \A i \in DOMAIN Strings(value) : InPieces(At(value, Strings(value)[i]).str)
          => LET at == Strings(value)
                 m == [i \in DOMAIN at |-> Means(At(value, at[i]).str, missing)]
                 bad == SelectInSeq(m, LAMBDA x : x = {})
             IN  /\ failed' = (bad > 0 /\ missing = "error")
                 /\ \A i \in DOMAIN at :
                       IF bad = 0 \/ i < bad THEN At(value', at[i]).str \in m[i]
                       ELSE At(value', at[i]) = At(value, at[i])]_vars

-----------------------------------------------------------------------------
(* Includes.                                                                  *)

(* What a value stands for when includes cost nothing; `seen` are the files   *)
(* being read.                                                                *)
RECURSIVE Unfolded(_, _)
Unfolded(v, seen) ==
    CASE Includes(v) ->
           LET spec == split_fragment(v.inner.str)
               whole == Unfolded(Files[spec.path].value, seen \cup {spec.path})
           IN  IF spec.path \in seen THEN None
               ELSE IF spec.fragment = {} THEN whole
               ELSE Field(whole, CHOOSE f \in spec.fragment : TRUE)
      [] v.kind = "tag" /\ ~Includes(v) -> Tagged(v.tag, Unfolded(v.inner, seen))
      [] v.kind = "seq" -> Sequence([i \in DOMAIN v.items |-> Unfolded(v.items[i], seen)])
      [] v.kind = "map" -> Mapping([i \in DOMAIN v.entries |->
                              <<v.entries[i][1], Unfolded(v.entries[i][2], seen)>>])
      [] OTHER -> v

(* A document the pipeline lets through is the full substitution, with no     *)
(* include and no cycle left in it, and the tree the caller gets, includes    *)
(* and interpolated text counted together, is within max_depth, max_nodes and *)
(* max_total_scalar_bytes and holds nothing a policy denies (de.rs            *)
(* IncludeWalk, post_process_document).                                       *)
IncludesBounded ==
    [][\A missing \in {"empty", "error"} :
          PostProcessDocument(missing) /\ ~failed' =>
             LET whole == Unfolded(value, {}) IN
             /\ value' = interpolate_inner_bounded(whole, Properties, missing, -1).v
             /\ \A i \in DOMAIN Addresses(whole) : At(whole, Addresses(whole)[i]) # None
             /\ Measure(value').height <= Limits.depth
             /\ Measure(value').nodes <= Limits.nodes
             /\ Measure(value').text <= Limits.text
             /\ \A a \in AddressSet(value') : At(value', a) \notin Denied]_vars

=============================================================================
