----------------------------- MODULE Serialize -----------------------------
(***************************************************************************)
(* From a Rust value to a Value (src/crates/noyalib/src/ser.rs, the        *)
(* Serializer), with the identity of shared pointers kept by the tracking  *)
(* state of src/crates/noyalib/src/anchors.rs.                             *)
(*                                                                         *)
(* A Rust value is a record of the shape serde hands the serializer: the   *)
(* scalars, seq and map of Emitter (a map's keys are values), variant for  *)
(* an enum variant with data, tagged for a TaggedValue, the wrappers of    *)
(* fmt.rs under their directive's name, bytes, rc and weak for a pointer   *)
(* to an address, cell for a recursive one, and dangling.  Heap gives what *)
(* an address holds; it has no cycle, which serialize would not leave.     *)
(*                                                                         *)
(* st is the thread-local STATE: Inactive, or the ids given to addresses.  *)
(***************************************************************************)
EXTENDS Emitter

CONSTANT Heap   \* what each address holds

\* The wrappers: each is its inner value to everything but the Serializer.
FlowSeq(x) == [kind |-> "flow_seq", inner |-> x]
FlowMap(x) == [kind |-> "flow_map", inner |-> x]
LitStr(t) == [kind |-> "lit_str", inner |-> Str(t)]
FoldStr(t) == [kind |-> "fold_str", inner |-> Str(t)]
Commented(x, rows) == [kind |-> "commented", inner |-> x, comment |-> rows]
SpaceAfter(x) == [kind |-> "space_after", inner |-> x]
TaggedValue(tag, x) == [kind |-> "tagged", tag |-> tag, inner |-> x]
RcAnchor(addr) == [kind |-> "rc", addr |-> addr]
RcWeakAnchor(addr) == [kind |-> "weak", addr |-> addr]
RcRecursive(addr) == [kind |-> "cell", addr |-> addr]
Vacant == [kind |-> "vacant"]   \* what a cell holds before it is set

Inactive == [on |-> FALSE, seen |-> <<>>, next_id |-> 0]
AnchorState == [on |-> TRUE, seen |-> <<>>, next_id |-> 1]

\* AnchorScope::enter and Drop: only the scope that installed the state clears it.
enter(st) == IF st.on THEN [owns |-> FALSE, st |-> st] ELSE [owns |-> TRUE, st |-> AnchorState]
DropOnSuccess(scope, st, ok) == IF scope.owns /\ ok THEN Inactive ELSE st
drop(scope, st, ok) == IF scope.owns THEN Inactive ELSE st

format_id(n) == <<"id", CHOOSE d \in DOMAIN Digits : Digits[d] = n>>

\* track: the id of an address, a new one on the first sighting.
track(st, addr) ==
  IF addr \in DOMAIN st.seen THEN [st |-> st, new |-> FALSE, id |-> st.seen[addr]]
  ELSE [st |-> [st EXCEPT !.next_id = @ + 1,
                          !.seen = [a \in DOMAIN @ \cup {addr} |-> IF a = addr THEN st.next_id ELSE @[a]]],
        new |-> TRUE, id |-> st.next_id]

\* What a serialize call returns: the value, the tracking state, and its error.
Ok(v, st) == [v |-> v, st |-> st, err |-> FALSE]
Err(st) == [v |-> Null, st |-> st, err |-> TRUE]
Then(r, v) == [r EXCEPT !.v = v]

\* SerializeMap::serialize_key: strings, integers and booleans; no pointer that
\* is tracked, which is a tagged value here.
key_string(r) == r.v.text
IsKey(r) == ~r.err /\ r.v.kind \in {"str", "num", "bool"}

\* Mapping::insert: a repeated key keeps its place and takes the new value.
insert(es, k, v) ==
  IF \E i \in DOMAIN es : es[i][1] = k
  THEN [i \in DOMAIN es |-> IF es[i][1] = k THEN <<k, v>> ELSE es[i]]
  ELSE Append(es, <<k, v>>)

RECURSIVE serialize(_, _)
RECURSIVE SerializeSeq(_, _, _)
RECURSIVE SerializeMap(_, _, _)

\* SerializeSeq::serialize_element over the items, and end.
SerializeSeq(items, done, st) ==
  IF items = <<>> THEN Ok(Seq1(done), st)
  ELSE LET r == serialize(Head(items), st)
       IN  IF r.err THEN Err(r.st) ELSE SerializeSeq(Tail(items), Append(done, r.v), r.st)

\* SerializeMap and SerializeStruct: serialize_key, serialize_value and end.
SerializeMap(entries, done, st) ==
  IF entries = <<>> THEN Ok(Map1(done), st)
  ELSE LET k == serialize(Head(entries)[1], st)
           r == serialize(Head(entries)[2], k.st)
       IN  CASE ~IsKey(k) -> Err(k.st)
             [] r.err -> Err(r.st)
             [] OTHER -> SerializeMap(Tail(entries), insert(done, key_string(k), r.v), r.st)

\* RcAnchor and ArcAnchor: the definition at the first sighting, an alias after.
SerializeStrong(addr, st) ==
  LET t == track(st, addr)
      r == serialize(Heap[addr], t.st)
      id == format_id(t.id)
  IN  CASE ~st.on -> serialize(Heap[addr], st)
        [] ~t.new -> Ok([kind |-> "anchor_ref", id |-> id], st)
        [] OTHER -> Then(r, [kind |-> "anchor_def", id |-> id, inner |-> r.v])

\* RcWeakAnchor and ArcWeakAnchor with peek: an alias if the target is anchored
\* already, the value itself otherwise.
SerializeWeak(addr, st) ==
  IF addr \in DOMAIN st.seen THEN Ok([kind |-> "anchor_ref", id |-> format_id(st.seen[addr])], st)
  ELSE serialize(Heap[addr], st)

\* RcRecursive and ArcRecursive: what the cell holds, with no identity of its own.
SerializeCell(addr, st) == IF Heap[addr] = Vacant THEN Ok(Null, st) ELSE serialize(Heap[addr], st)

\* serialize_newtype_struct under a directive's name, and MAGIC_TAGGED.
SerializeNewtype(x, r) ==
  CASE x.kind = "commented" -> [kind |-> "commented", inner |-> r.v, comment |-> x.comment]
    [] x.kind = "tagged" -> [kind |-> "tag", tag |-> x.tag, inner |-> r.v]
    [] x.kind = "variant" -> Map1(<<<<x.name, r.v>>>>)
    [] OTHER -> [kind |-> x.kind, inner |-> r.v]

serialize(x, st) ==
  CASE x.kind \in {"null", "bool", "num", "str"} -> Ok(x, st)
    [] x.kind = "dangling" -> Ok(Null, st)
    [] x.kind = "bytes" -> Ok([kind |-> "tag", tag |-> <<"!", "!", "b">>, inner |-> Str(x.text)], st)
    [] x.kind = "seq" -> SerializeSeq(x.items, <<>>, st)
    [] x.kind = "map" -> SerializeMap(x.entries, <<>>, st)
    [] x.kind = "rc" -> SerializeStrong(x.addr, st)
    [] x.kind = "weak" -> SerializeWeak(x.addr, st)
    [] x.kind = "cell" -> SerializeCell(x.addr, st)
    [] OTHER -> LET r == serialize(x.inner, st) IN IF r.err THEN r ELSE Then(r, SerializeNewtype(x, r))

\* to_string_with_config.
Outcome(r, out) == [ok |-> ~r.err /\ "deep" \notin ToSet(out), text |-> out, st |-> r.st]
Written(r, c) == Outcome(r, value_to_string(r.v, c))
to_string_with_config(x, c, st) == Written(serialize(x, st), c)

\* to_string_multi_with_config: a marker and the document's own line break for each;
\* the first failing document fails the call.
RECURSIVE to_string_multi(_, _, _)
to_string_multi(xs, c, st) ==
  IF xs = <<>> THEN [ok |-> TRUE, text |-> <<>>, st |-> st]
  ELSE LET front == to_string_multi(Front(xs), c, st)
           Document(r) == Outcome(r, write_value(<<>>, r.v, 0, TRUE, c, 0))
           Joined(last) ==
             [ok |-> front.ok /\ last.ok, st |-> st,
              text |-> front.text \o (IF Len(xs) > 1 THEN <<"\n">> ELSE <<>>)
                         \o <<"-", "-", "-", "\n">> \o last.text \o <<"\n">>]
       IN  Joined(Document(serialize(Last(xs), st)))

\* to_string_tracking_shared_with_config: the scope is dropped on every way out.
to_string_tracking_shared(x, c, st) ==
  LET scope == enter(st)
      Left(r) == [r EXCEPT !.st = drop(scope, r.st, r.ok)]
  IN  Left(to_string_with_config(x, c, scope.st))
=============================================================================
