------------------------------ MODULE Borrowed ------------------------------
(***************************************************************************)
(* The third tree builder: BorrowedBuilder of borrowed.rs, behind          *)
(* from_str_borrowed.  It keeps slices of the input where the owned        *)
(* loaders keep Values, has no place for a tag and leaves a merge key as   *)
(* an ordinary one.  It is fed the events the owned loaders are fed.       *)
(***************************************************************************)
EXTENDS Loader

VARIABLE builder    \* the BorrowedBuilder

bvars == <<vars, builder>>

NewBuilder ==
  [stack |-> <<>>, result |-> Atom("Null", <<"null">>), depth |-> 0,
   anchors |-> [a \in Anchors |-> None], alias_bytes |-> 0, err |-> "none"]

Stop(B, err) == [B EXCEPT !.err = err]
SetFrame(B, frame) == [B EXCEPT !.stack[Len(B.stack)] = frame]

\* Mutant: a repeated key is appended.
insert_entry_again(map, key, v) == Append(map, [key |-> key, val |-> v])

insert_entry(map, key, v) ==
  LET idx == get_index_of(map, key)
  IN  CASE idx = 0 -> Append(map, [key |-> key, val |-> v])
        [] idx # 0 /\ config.duplicate = "Last" -> [map EXCEPT ![idx].val = v]
        [] OTHER -> map

\* The name `push_value` belongs to the NoSpanLoader's.  A value that arrives
\* where a key is due is dropped: scalars go through set_key.
PlaceValue(B, v) ==
  LET f == Last(B.stack)
  IN  CASE B.stack = <<>> -> [B EXCEPT !.result = v]
        [] B.stack # <<>> /\ f.f = "key" -> B
        [] B.stack # <<>> /\ f.f = "seq" ->
             IF Len(f.items) >= MaxSequenceLength THEN Stop(B, "sequence_length")
             ELSE SetFrame(B, [f EXCEPT !.items = Append(@, v)])
        [] OTHER ->
             IF Len(f.map) >= MaxMappingKeys THEN Stop(B, "mapping_keys")
             ELSE IF config.duplicate = "Error" /\ get_index_of(f.map, f.key) # 0
                  THEN Stop(B, "duplicate_key")
             ELSE SetFrame(B, [f EXCEPT !.f = "key", !.map = insert_entry(@, f.key, v)])

AwaitsKey(B) == B.stack # <<>> /\ Last(B.stack).f = "key"
set_key(B, key) == SetFrame(B, [Last(B.stack) EXCEPT !.f = "value", !.key = key])

record_anchor(B, anchor, v) == IF anchor = None THEN B ELSE [B EXCEPT !.anchors[anchor] = v]

\* A key's anchor is not recorded.
on_scalar(B, s) ==
  IF ~AwaitsKey(B) THEN PlaceValue(record_anchor(B, s.anchor, s.val), s.val)
  ELSE IF s.plain /\ s.val.key = MERGE_KEY /\ config.merge = "Error" THEN Stop(B, "merge_rejected")
  ELSE set_key(B, s.val.key)

open_collection(B, frame) ==
  LET deeper == [B EXCEPT !.depth = @ + 1]
  IN  IF depth_exceeded(deeper.depth, MaxDepth) THEN Stop(deeper, "depth")
      ELSE [deeper EXCEPT !.stack = Append(@, frame)]

close_collection(B) ==
  LET f == Last(B.stack)
      v == IF f.f = "seq" THEN SequenceOf(f.items) ELSE MappingOf(f.map)
      up == [B EXCEPT !.stack = Front(@), !.depth = IF @ = 0 THEN 0 ELSE @ - 1]
  IN  IF B.stack = <<>> THEN Stop(B, "unexpected_end")
      ELSE PlaceValue(record_anchor(up, f.anchor, v), v)

\* borrowed_cost and charge_expansion.
Charged(B, v) ==
  IF depth_exceeded(B.depth + v.height, MaxDepth) THEN Stop(B, "depth")
  ELSE LET after == [B EXCEPT !.alias_bytes = alias_bytes_total(@, alias_cost(v))]
       IN  IF alias_bytes_exceeded(B.alias_bytes, alias_cost(v), MaxDocumentLength)
           THEN Stop(after, "alias_bytes") ELSE after

\* The referent is copied; only a scalar can be a key.
on_alias(B, anchor) ==
  LET v == B.anchors[anchor]
      charged == Charged(B, v)
  IN  IF v = None THEN Stop(B, "unknown_anchor")
      ELSE IF charged.err # "none" THEN charged
      ELSE IF ~AwaitsKey(B) THEN PlaceValue(charged, v)
      ELSE IF v.t \in {"Seq", "Map"} THEN Stop(charged, "alias_key")
      ELSE set_key(charged, v.key)

\* The meter's alias counters restart with the document, the anchors end with it.
process(B, ev, what) ==
  CASE ev = "DocumentStart" -> [B EXCEPT !.alias_bytes = 0]
    [] ev = "DocumentEnd" -> [B EXCEPT !.anchors = [a \in Anchors |-> None]]
    [] ev = "Scalar" -> on_scalar(B, what)
    [] ev = "Alias" -> on_alias(B, what)
    [] ev = "SequenceStart" ->
         open_collection(B, [f |-> "seq", items |-> <<>>, anchor |-> what.anchor])
    [] ev = "MappingStart" ->
         open_collection(B, [f |-> "key", map |-> <<>>, key |-> <<>>, anchor |-> what.anchor])
    [] ev \in {"SequenceEnd", "MappingEnd"} -> close_collection(B)
    [] OTHER -> B

BInit == Init /\ builder = NewBuilder

\* from_str_borrowed stops at its own first error.
BNext ==
  /\ Next
  /\ builder' = CASE event' \in Errors -> Stop(builder, "refused")
                  [] builder.err # "none" -> builder
                  [] OTHER -> process(builder, event', node')

BSpec == BInit /\ [][BNext]_bvars

-----------------------------------------------------------------------------
(* Properties.                                                             *)

RECURSIVE Untag(_)
Untag(v) ==
  CASE v.t = "Tagged" -> Untag(v.parts[1])
    [] v.t = "Seq" -> SequenceOf([i \in DOMAIN v.parts |-> Untag(v.parts[i])])
    [] v.t = "Map" -> MappingOf([i \in DOMAIN v.pairs |-> [v.pairs[i] EXCEPT !.val = Untag(@)]])
    [] OTHER -> v

\* What the two graphs are documented to treat differently, and the one they are
\* not: a collection as a key, which the builder drops.
Comparable ==
  /\ config.merge = "AsOrdinary" \/ \A s \in input.scalars : s.val.key # MERGE_KEY
  /\ config.non_scalar = "Error" \/ input.mappings = {}

\* from_str_borrowed reads what the owned loaders read, tags apart, and refuses
\* what they refuse for depth, length, key count, a repeated key or an alias
\* (borrowed.rs, the meter's comment: "so every limit holds here too").  It refuses
\* more only for an alias of a key's anchor, which on_scalar does not record.
BorrowedAgrees ==
  Comparable =>
    /\ full.err = "none" /\ builder.err = "none" /\ phase = "rooted" =>
         builder.result = Untag(Last(full.docs).val)
    /\ full.err = "none" => builder.err \in {"none", "unknown_anchor"}
    /\ full.err \in {"depth", "sequence_length", "mapping_keys", "duplicate_key", "unknown_anchor", "self_reference"}
         => builder.err # "none"

\* One text has one meaning, whichever of the three loaders reads it.
AllLoadersAgree == LoadersAgree /\ BorrowedAgrees
=============================================================================
