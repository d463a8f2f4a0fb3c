------------------------------ MODULE MCLoader ------------------------------
(* Documents small enough to enumerate: keys that collide, keys that merge, *)
(* and anchors that nest, repeat and cross documents.                       *)
EXTENDS Borrowed

Plain(v) == [plain |-> TRUE, val |-> v, anchor |-> None]
Quoted(v) == [plain |-> FALSE, val |-> v, anchor |-> None]
Coll(anchor, tag) == [anchor |-> anchor, tag |-> tag]

One == Atom("Int", <<"1">>)
Text(s) == Atom("Str", s)

\* 1, "1" and [1] against "[1]".
KeyInput ==
  [scalars |-> {Plain(One), Quoted(Text(<<"1">>)), Quoted(Text(<<"[", "1", "]">>))},
   sequences |-> {Coll(None, FALSE)}, mappings |-> {Coll(None, FALSE)},
   aliases |-> {}, events |-> 9]

\* << with mappings and aliases.
MergeInput ==
  [scalars |-> {Plain(Text(MERGE_KEY)), Plain(One)},
   sequences |-> {Coll(None, FALSE)},
   mappings |-> {Coll(None, FALSE), Coll("a", FALSE)},
   aliases |-> {"a"}, events |-> 10]

\* Several sources of one key: nothing but << and 1 in nested mappings.
SourcesInput ==
  [MergeInput EXCEPT !.sequences = {}, !.mappings = {Coll(None, FALSE)},
                     !.aliases = {}, !.events = 13]

\* A quoted << is an ordinary key.
OrdinaryInput ==
  [SourcesInput EXCEPT !.scalars = @ \cup {Quoted(Text(MERGE_KEY))}, !.events = 8]

\* Anchors and tags, over two documents.
AnchorInput ==
  [scalars |-> {Plain(One), [Plain(One) EXCEPT !.anchor = "a"]},
   sequences |-> {Coll(None, FALSE), Coll("a", FALSE), Coll("b", TRUE)},
   mappings |-> {},
   aliases |-> {"a", "b"}, events |-> 9]

\* Aliases as keys and as values; a key may carry the anchor.
KeyAliasInput ==
  [AnchorInput EXCEPT !.sequences = {Coll("b", FALSE)}, !.mappings = {Coll(None, FALSE)},
                      !.events = 8]

Policy(d, m, k) == [duplicate |-> d, merge |-> m, non_scalar |-> k]

MCSetups ==
  {[config |-> Policy(d, "Auto", k), input |-> KeyInput] :
     d \in {"First", "Last", "Error"}, k \in {"Stringify", "Error"}}
  \cup {[config |-> Policy("Last", "Auto", "Stringify"), input |-> i] :
     i \in {MergeInput, SourcesInput, AnchorInput}}
  \cup {[config |-> Policy("First", m, "Stringify"), input |-> OrdinaryInput] :
     m \in {"Auto", "AsOrdinary", "Error"}}
  \cup {[config |-> Policy("First", "AsOrdinary", "Error"), input |-> OrdinaryInput],
        [config |-> Policy("Last", "Auto", "Error"), input |-> KeyAliasInput]}
=============================================================================
