---------------------------- MODULE MCRoundTrip ----------------------------
(***************************************************************************)
(* Strings of every style in every position, and wrappers nested in each   *)
(* other, under the configurations that change the layout.                 *)
(***************************************************************************)
EXTENDS RoundTrip

a == Str(<<"a">>)
Num(t) == [kind |-> "num", text |-> t]
Key(t) == Str(t)
Keep(t) == block_chomping(t) = <<"+">>

MCHeap == <<a, Seq1(<<a, RcAnchor(1)>>), Map1(<<<<Key(<<"k">>), a>>>>), Vacant, Seq1(<<RcAnchor(2), RcRecursive(4)>>)>>

-----------------------------------------------------------------------------
(* Strings. *)

Over(C, n) == UNION {[1..k -> C] : k \in 0..n}

Texts ==
  Over({"a", " ", "\n", "\t"}, 4)
    \cup Over({"a", " ", "-", ":", "#", ",", "'", "\"", "\\", "1", "true", "ctl", ".", "!", "<", "+", "]"}, 2)
    \cup Over({"a", " ", ":", "#", "-", ".", ","}, 3) \cup Over({"1", ":", ".", "-"}, 3)

\* The text as an item, a key, a value and next to siblings.
InSequence(t) == Seq1(<<Str(t), Map1(<<<<Key(t), Str(t)>>, <<Key(t \o <<"k">>), a>>>>), Str(t)>>)
InMapping(t) ==
  Map1(<<<<Key(<<"k">>), Map1(<<<<Key(<<"b">>), Str(t)>>>>)>>, <<Key(<<"b">>), Seq1(<<Str(t)>>)>>,
         <<Key(t), FlowMap(Map1(<<<<Key(t), Str(t)>>, <<Key(<<"k">>), LitStr(t)>>>>))>>>>)

-----------------------------------------------------------------------------
(* Structure. *)

Leaves == {a, Str(<<"a", "\n">>), Seq1(<<>>), Num(<<"-", "1">>), RcAnchor(2), RcAnchor(3)}

\* A TaggedValue holds a Value, which has neither hints nor pointers.
RECURSIVE IsValue(_)
IsValue(x) ==
  CASE x.kind = "seq" -> \A i \in DOMAIN x.items : IsValue(x.items[i])
    [] x.kind = "map" -> \A i \in DOMAIN x.entries : IsValue(x.entries[i][2])
    [] x.kind = "tagged" -> IsValue(x.inner)
    [] OTHER -> x.kind \in {"null", "bool", "num", "str"}

\* Hints right around a tag or a pointer are left out: the space before the tag or
\* the anchor is lost when the payload is a block collection (README, findings).
Hinted(x) == IF x.kind \in {"tagged", "rc"} THEN {} ELSE {FlowSeq(x), SpaceAfter(x), Commented(x, <<<<"a">>, <<>>>>)}

Wraps(x) ==
  { Seq1(<<x>>), Seq1(<<x, a>>), Map1(<<<<Key(<<"k">>), x>>>>), Map1(<<<<Key(<<"k">>), x>>, <<Key(<<"a">>), a>>>>) }
    \cup Hinted(x) \cup IF IsValue(x) THEN {TaggedValue(<<"!", "b">>, x)} ELSE {}

RECURSIVE Nested(_)
Nested(n) == IF n = 0 THEN Leaves ELSE Leaves \cup UNION {Wraps(x) : x \in Nested(n - 1)}

-----------------------------------------------------------------------------
(* Tags, pointers, hints on strings, and keys of other types. *)

Tags == {<<"!", "a">>, <<"!", "!", "a">>, <<"a">>, <<"!", "<", "a">>, <<"!", "a", ",">>, <<"!", "a", "!", "b">>,
         <<"!">>, <<"!", "a", " ">>}

Pair(x) == Map1(<<<<Key(<<"k">>), x>>, <<Key(<<"b">>), a>>>>)

TagIn(tag) ==
  UNION {{TaggedValue(tag, x), Seq1(<<TaggedValue(tag, x), a>>), Pair(TaggedValue(tag, x)), FlowSeq(Seq1(<<TaggedValue(tag, x), a>>))} :
           x \in {a, Seq1(<<a>>), Pair(a), Seq1(<<>>), TaggedValue(<<"!", "b">>, Pair(a))}}

\* A tag no spelling can carry stands for a mapping, where a mapping may stand.
Unspelled(tag) == {TaggedValue(tag, a), Seq1(<<TaggedValue(tag, a), a>>), FlowSeq(Seq1(<<TaggedValue(tag, a), a>>))}

Styled == {LitStr(t) : t \in {<<"a">>, <<"a", "\n">>, <<" ", "a", "\n", "a", "\n">>, <<"\n", "a">>}}
            \cup {FoldStr(t) : t \in {<<"a">>, <<"a", " ", "a", "\n">>}}

Pointers ==
  { Seq1(<<RcWeakAnchor(2), RcAnchor(2), RcWeakAnchor(1), RcAnchor(1), RcAnchor(2), [kind |-> "dangling"]>>),
    Map1(<<<<Key(<<"k">>), RcAnchor(2)>>, <<RcAnchor(1), a>>>>),
    Map1(<<<<Num(<<"1">>), RcAnchor(3)>>, <<[kind |-> "bool", text |-> <<"true">>], RcAnchor(3)>>>>),
    [kind |-> "variant", name |-> <<"k">>, inner |-> Seq1(<<RcAnchor(3), RcAnchor(3)>>)],
    FlowSeq(Seq1(<<RcAnchor(2), RcAnchor(3), RcWeakAnchor(3)>>)),
    Seq1(<<RcRecursive(5), RcAnchor(2), RcRecursive(5), RcAnchor(1)>>),
    Seq1(<<[kind |-> "bytes", text |-> <<"a">>], Null, RcAnchor(1)>>) }

\* Values of a multi-document stream.  A scalar whose line breaks are all kept gains
\* those that end the document (README, findings).
Several ==
  {Str(t) : t \in {u \in Over({"a", " ", "\n", "-"}, 2) : ~Keep(u)} \cup {<<"-", "-", "-">>, <<"a", "\n", "-", "-", "-">>}}
    \cup {Null, Seq1(<<>>), Seq1(<<Pair(a), Str(<<"a", "\n">>)>>), Pair(Seq1(<<a>>)), LitStr(<<"a", "\n">>),
          TaggedValue(<<"!", "b">>, Seq1(<<a>>)), SpaceAfter(Pair(a)), RcAnchor(2)}

Special ==
  UNION {TagIn(t) : t \in Tags} \cup UNION {Unspelled(t) : t \in {<<"!", "\t">>, <<"!", ">">>}}
    \cup UNION {{x, Seq1(<<x, a>>), Pair(x), Seq1(<<Pair(x)>>)} : x \in Styled \cup {Num(<<"-", "1">>)}} \cup Pointers

-----------------------------------------------------------------------------
(* Configurations and calls. *)

Default ==
  [indent |-> 2, compact_list_indent |-> FALSE, flow_style |-> "Block", flow_threshold |-> 1, quote_all |-> FALSE,
   prefer_single_quotes |-> FALSE, block_scalars |-> TRUE, block_scalar_threshold |-> 1, document_start |-> FALSE,
   document_end |-> FALSE, max_depth |-> 9, in_flow |-> FALSE]

Compact == [Default EXCEPT !.compact_list_indent = TRUE, !.document_end = TRUE, !.prefer_single_quotes = TRUE]
Auto == [Default EXCEPT !.flow_style = "Auto", !.document_start = TRUE, !.block_scalar_threshold = 2]
AllFlow == [Default EXCEPT !.flow_style = "Flow", !.quote_all = TRUE]
Shallow == [Default EXCEPT !.max_depth = 2]
Wide == [Default EXCEPT !.indent = 3]

\* A sequence holds a mapping of two entries: its first key stands two columns
\* past the dash whatever the indent is, the second one a level past it.
RECURSIVE ListOfMappings(_)
ListOfMappings(x) ==
  CASE x.kind = "seq" -> \E i \in DOMAIN x.items : \/ ListOfMappings(x.items[i])
                                                   \/ x.items[i].kind = "map" /\ Len(x.items[i].entries) > 1
    [] x.kind = "map" -> \E i \in DOMAIN x.entries : ListOfMappings(x.entries[i][2])
    [] x.kind \in {"rc", "null", "num", "str"} -> FALSE
    [] OTHER -> ListOfMappings(x.inner)

Call(X, C, how) == {[inputs |-> <<x>>, config |-> c, how |-> how] : x \in X, c \in C}
Multi(X, c) == {[inputs |-> <<x, y>>, config |-> c, how |-> "multi"] : x, y \in X}

MCCalls ==
  Call({Str(t) : t \in Texts}, {Default, Compact, Auto, AllFlow}, "plain")
    \cup Call({InSequence(t) : t \in Texts}, {Compact, Auto}, "plain")
    \cup Call({InMapping(t) : t \in Texts}, {Default}, "plain")
    \cup Call(Nested(3), {Default, Compact}, "tracking")
    \cup Call(Nested(2), {Auto, Shallow}, "tracking")
    \cup Call({x \in Nested(2) : ~ListOfMappings(x)}, {Wide}, "tracking")
    \cup Multi(Several, Default) \cup Multi(Several, Compact)
    \cup Call(Special, {Default, Compact, Auto, AllFlow}, "tracking") \cup Call(Pointers, {Default}, "plain")
=============================================================================
