----------------------------- MODULE MCScanner -----------------------------
(***************************************************************************)
(* The scanner over six families of texts: structure, flow collections,    *)
(* long keys, plain and quoted scalars, block scalars, and directives with *)
(* tags.  Each is every concatenation of a few pieces.  A seventh holds    *)
(* documents, one per shape of block structure, that every splice of at    *)
(* most MaxCut cells is applied to.                                        *)
(***************************************************************************)
EXTENDS GreenTree

\* Every concatenation of at most n of the pieces, after a prefix.
Made(prefix, pieces, n) ==
  {prefix \o FlattenSeq(w) : w \in UNION {[1..k -> pieces] : k \in 0..n}}

Cells(C) == {<<c>> : c \in C}

\* Implicit, explicit and nested block structure.
Structure ==
  Made(<<>>, Cells({"a", "\n", " ", "[", "]", "\t"}) \cup
             {<<"a", ":">>, <<"-", " ">>, <<"?", " ">>, <<":", " ">>, <<"#">>, <<"&", "a", " ">>,
              <<"*", "a", " ">>, <<"'", "a", "'">>}, 4)

\* Flow collections under a block mapping, with keys of every kind.
Flow ==
  UNION {Made(p, Cells({"a", "\n", " ", "[", "]", "{", "}", ",", ":", "?", "-"}) \cup {<<"\"", "a", "\"">>}, 3) :
           p \in {<<"a", ":", " ", "[">>, <<"{">>, <<"[", "a">>, <<"{", "[", "a", "]">>}}

\* Keys about as long as the limits: a collection of more tokens than a scalar has.
LongKeys ==
  UNION {Made(p, Cells({"a", ",", "]", ":", "\n"}), 4) :
           p \in {<<"[", "a", "a", "a">>, <<"[", "[", "a", "a", "a">>, <<"[", "a", "a", "a", ":", ":">>}}

\* Plain and quoted scalars on several lines, at the top and as a value.
FlowScalars ==
  UNION {Made(p, Cells({"a", " ", "\n", "\t", "#", ":"}), 4) : p \in {<<"a">>, <<"a", ":", " ", "a">>}}
    \cup UNION {Made(p, Cells({"a", " ", "\n", "\t", "\\", "\""}), 4) :
                  p \in {<<"\"">>, <<"a", ":", " ", "\"">>}}
    \cup Made(<<"-", " ", "'">>, Cells({"a", " ", "\n", "'", "ctl"}), 4)
    \cup {<<"\"", "\\", "uH", "\\", "uL", "\"">>, <<"\"", "\\", "uL", "\"">>, <<"\"", "\\", "uH", "\"">>,
          <<"\"", "\\", "x", "\\", "n", "\"">>, <<"\"", "a", "\n", "-", "-", "-", "\n", "\"">>}

\* Literal and folded scalars: headers, indentation, chomping.
BlockScalars ==
  UNION {Made(p, Cells({"a", " ", "\n", "\t", "+", "-", "1", "#"}), 3) : p \in {<<"|">>, <<"-", " ", ">">>}}
    \cup UNION {Made(p, Cells({"a", " ", "\n", "\t"}), 5) :
                  p \in {<<">", "\n">>, <<"a", ":", " ", "|", "1", "\n">>, <<"-", " ", ">", "+", "\n">>}}

\* Directives, document markers and tags.
Documents ==
  Made(<<>>, {<<"%", "TAG", " ", "!", "a", "!", " ", "b", "\n">>, <<"%", "YAML", " ", "1", "\n">>,
              <<"%", "a", "#", "\n">>, <<"-", "-", "-">>, <<".", ".", ".">>, <<"\n">>, <<" ">>, <<"a", "\n">>,
              <<"!", "a", "!", "a", " ">>, <<"!", "!", "a", " ">>, <<"!", "<", "!", "a", ">", " ">>,
              <<"!", "a">>}, 4)
    \cup Made(<<"BOM">>, {<<"a", ":", "a">>, <<"a", ":", " ">>, <<"\n">>, <<"#", "ctl">>, <<"#">>, <<"BOM">>,
                          <<"@">>, <<"-", "\t", "-">>}, 3)

\* Documents to edit.
Line(w) == w \o <<"\n">>
Entry == <<"a", ":", " ", "a">>
Item == <<"-", " ", "a">>
MCEditTexts ==
  { Line(Entry),
    Line(Item) \o Line(Item) \o Item,
    \* collections inside each other, on their parent's line or below it
    <<"a", ":">> \o Line(<<>>) \o Line(<<" ">> \o Entry) \o Line(<<" ">> \o Entry) \o Line(Entry),
    <<"a", ":">> \o Line(<<>>) \o Line(<<" ", " ">> \o Item) \o Line(<<" ", " ">> \o Item) \o Line(Entry),
    <<"a", ":">> \o Line(<<>>) \o Line(Item) \o Line(Item) \o <<"a", ":", "\n">>,
    <<"a", ":", "\n", " ", "a", ":", "\n", " ", " ">> \o Line(Item) \o <<" ", "a", ":", "\n", "a", ":", "\n">>,
    <<"-", " ">> \o Line(Item) \o Line(<<" ", " ">> \o Item) \o Line(Item),
    <<"-", " ">> \o Line(Entry) \o Line(<<" ", " ">> \o Entry) \o Line(Item),
    <<"-", "\n", " ">> \o Line(Item) \o <<" ">> \o Line(Item) \o Line(Item),
    <<"-", "\n", "-", "\n", " ", "a", ":", "\n", " ">> \o Line(Entry) \o Line(Item),
    \* keys and values of every style
    Line(Entry) \o <<" ", "a", "\n">> \o Line(Entry),
    <<"a", ":", " ", "'", "a", "\n", " ", "a", "'", "\n">> \o Line(Entry),
    <<"a", ":", " ", "|", "\n", " ", "a", "\n", " ", "a", "\n">> \o Line(Entry),
    <<"a", ":", " ", ">", "\n", " ", "a", "\n", "\n", "#", "\n", "a", ":", " ", "'", "a", "'", " ", "#", "\n">>,
    <<"a", ":", " ", "[", "a", ",", " ", "a", "]", "\n">> \o Line(Entry),
    <<"?", " ", "a", "\n", ":", " ", "a", "\n">> \o Line(Entry),
    <<"?", "\n", " ">> \o Line(Item) \o <<":", "\n", " ">> \o Line(Entry) \o <<" ">> \o Line(Entry),
    <<"a", ":", " ", "&", "a", " ", "a", "\n", "a", ":", " ", "*", "a", "\n">>,
    \* comments, blank lines and markers around them
    <<"#", "a", "\n">> \o Entry \o <<" ", "#", "a", "\n", "a", ":", "\n">>,
    <<"-", "-", "-", "\n">> \o Line(Entry) \o <<".", ".", ".", "\n">>,
    <<"\n", "#", "\n", " ", "a", ":", "\n", " ", " ">> \o Line(Entry) \o <<"\n", " ", " ">> \o Line(Entry)
      \o <<" ", "a", ":", " ", "\"", "a", "\"", "\n">> }

\* What a splice puts in: nothing, content, white space, indicators, whole lines.
MCReplacements ==
  {<<>>, <<"a">>, <<"\n">>, <<" ">>, <<"\n", " ">>, <<":", " ">>, <<"-", " ">>, <<"?", " ">>, <<"#">>, <<" ", "#">>,
   <<"'">>, <<"|">>, <<"[">>, <<"]">>, <<"\n", "-", " ", "a">>, Line(Entry), <<"-", "-", "-">>, <<"&", "a", " ">>}

Texts == MCEditTexts \cup Structure \cup Flow \cup LongKeys \cup FlowScalars \cup BlockScalars \cup Documents

MCInit == \E t \in Texts : Init(t)
Spec == MCInit /\ [][Next]_vars
=============================================================================
