------------------------------ MODULE MCValues ------------------------------
(* Small values for the value API: nested and tagged collections, merge keys, *)
(* placeholder strings, includes, and keys the path grammar must quote.       *)
EXTENDS Values

A == <<"a">>
B == <<"b">>
C == <<"c">>
Num0 == Num(0)
Num1 == Num(1)
M1(k, v) == Mapping(<<<<k, v>>>>)
M2(k, v, l, w) == Mapping(<<<<k, v>>, <<l, w>>>>)
Tag1 == <<"!", "a">>
Merging(v) == <<MergeKey, v>>

MCPieces ==
    { [spelled |-> <<"a">>, strict |-> {<<"a">>}, lossy |-> {<<"a">>}],
      [spelled |-> <<"$", "$">>, strict |-> {<<"$">>}, lossy |-> {<<"$">>}],
      [spelled |-> <<"$", "{", "{">>, strict |-> {<<"$", "{">>}, lossy |-> {<<"$", "{">>}],
      [spelled |-> <<"}", "}">>, strict |-> {<<"}">>}, lossy |-> {<<"}">>}],
      [spelled |-> <<"$", "{", "a", "}">>,
       strict |-> {<<"$", "{", "b", "}">>}, lossy |-> {<<"$", "{", "b", "}">>}],
      [spelled |-> <<"$", "{", "b", "}">>, strict |-> {<<>>}, lossy |-> {<<>>}],
      [spelled |-> <<"$", "{", "c", "}">>, strict |-> {}, lossy |-> {<<>>}],
      [spelled |-> <<"$", "{", "c", ":", "-", "$", "}">>, strict |-> {<<"$">>}, lossy |-> {<<"$">>}],
      [spelled |-> <<"$", "{", ".", "]", "}">>, strict |-> {}, lossy |-> {}],
      [spelled |-> <<"$", "{", "}">>, strict |-> {}, lossy |-> {}] }

MCProperties ==
    { [name |-> <<"a">>, text |-> <<"$", "{", "b", "}">>],
      [name |-> <<"b">>, text |-> <<>>] }

Inc(spec) == Tagged(IncludeTag, Str(spec))

MCFiles ==
    (<<"a">> :> [bytes |-> 2, value |-> M2(A, Inc(<<"b">>), C, Num1)]) @@
    (<<"b">> :> [bytes |-> 1, value |-> Sequence(<<Num1>>)]) @@
    (<<"c">> :> [bytes |-> 1, value |-> Sequence(<<Inc(<<"c">>)>>)]) @@
    (<<"0">> :> [bytes |-> 1, value |-> Str(<<"$", "{", "a", "}">>)]) @@
    (<<"1">> :> [bytes |-> 3, value |-> M1(A, M1(B, Sequence(<<Num1>>)))])

MCLimits == [depth |-> 3, nodes |-> 7, text |-> 8, includes |-> 2, sources |-> 3,
             bytes |-> 4, length |-> 3]

Specs == {<<"a">>, <<"b">>, <<"c">>, <<"0">>, <<"1">>, <<"a", "#", "a">>, <<"a", "#", "b">>,
          <<"b", "#", "a">>, <<"]">>}

Leaves == {Null, Num0, Num1}
Shallow ==
    Leaves
    \cup {Sequence(<<>>), Sequence(<<Num0, Num1>>), Mapping(<<>>)}
    \cup {M1(A, v) : v \in Leaves} \cup {M2(B, Num0, A, v) : v \in Leaves}
Nested ==
    Shallow
    \cup {M2(k, v, C, Num0) : k \in {A, B}, v \in Shallow}
    \cup {Sequence(<<Num1, v>>) : v \in Shallow}
    \cup {Tagged(Tag1, v) : v \in Shallow}
    \cup {M1(A, Tagged(Tag1, v)) : v \in Shallow}

Quoted == M2(<<"a", ".", "b">>, Num0, <<"*">>, M2(<<>>, Num1, <<"\"", ".", "\\">>, Num0))

Sourced == {M1(A, Num1), M2(B, Num1, A, Num0), Num0, Tagged(Tag1, M1(A, Num0)),
            Mapping(<<<<A, Num0>>, Merging(M1(C, Num1))>>)}
MergeKeyed ==
    {Mapping(<<<<B, Num0>>, Merging(s)>>) : s \in Sourced}
    \cup {Mapping(<<Merging(Sequence(<<s, t>>)), <<C, Num0>>>>) : s, t \in Sourced}
    \cup {M2(A, Mapping(<<Merging(s)>>), B, Mapping(<<Merging(t)>>)) : s, t \in Sourced}
    \cup {Sequence(<<Mapping(<<Merging(s)>>), M1(A, Num0)>>) : s \in Sourced}

Worded ==
    {Str(Text(ps)) : ps \in PieceStrings}
    \cup {Sequence(<<Str(p.spelled), Str(q.spelled)>>) : p, q \in Pieces}
    \cup {M2(A, Tagged(Tag1, Str(p.spelled)), B, Str(q.spelled)) : p, q \in Pieces}

Included ==
    {Inc(s) : s \in Specs}
    \cup {Sequence(<<Inc(s), Inc(t)>>) : s, t \in Specs}
    \cup {M1(A, M1(B, Inc(s))) : s \in Specs}
    \cup {Sequence(<<Inc(s), Str(p.spelled), Num0>>) : s \in Specs, p \in Pieces}

MCPathValues ==
    {Quoted, M2(A, Tagged(Tag1, M2(B, Num0, A, Sequence(<<Num1, Null>>))), B, Num0)}
MCInitialValues == Nested \cup MCPathValues \cup MergeKeyed \cup Worded \cup Included
MCInputs == {Num1, Mapping(<<>>)}
MCMergeInputs == {Num0, M2(C, Num1, A, M1(A, Num1)), Sequence(<<Num1>>),
                  M2(A, Sequence(<<Num0>>), B, M1(C, Null))}
MCKeyInputs == {A, C}
MCPathKeys == {A, B, <<>>, <<"*">>, <<"a", ".", "b">>, <<"\"", ".", "\\">>}
MCAnyKeys == {Num0, Str(A), M2(A, Num1, B, Num0), M2(B, Num0, A, Num1), Tagged(<<"a">>, Num0),
              Tagged(<<"!", "a">>, Num0)}
MCDenied == {Num(0)}
=============================================================================
