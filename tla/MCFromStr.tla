----------------------------- MODULE MCFromStr -----------------------------
(***************************************************************************)
(* Instance of FromStr: documents in which recordings, replays, merges and *)
(* skips meet.  Every visitor is tried on each of them.                    *)
(***************************************************************************)
EXTENDS FromStr

S(v) == <<Event("scalar", v)>>
Sq(items) == <<Event("seq", None)>> \o FlattenSeq(items) \o <<Event("seqend", None)>>
Mp(items) == <<Event("map", None)>> \o FlattenSeq(items) \o <<Event("mapend", None)>>
Al(name) == <<Event("alias", name)>>
Anchored(name, node) == [node EXCEPT ![1].anchor = name]
Tagged(node) == [node EXCEPT ![1].tag = TRUE]
One(node) ==
  <<Event("start", None), Event("start", None)>> \o node
    \o <<Event("docend", None), Event("streamend", None)>>

Bad == <<Event("bad", None)>>
K1 == Mp(<<S("k"), S("1")>>)
X == Anchored("x", K1)

MCDocuments ==
  { \* a scalar and a collection, each aliased; an unknown alias
    One(Mp(<<S("a"), Anchored("x", S("1")), S("b"), Al("x")>>)),
    One(Sq(<<X, Al("x"), S("2")>>)),
    One(Sq(<<Al("x"), X>>)),
    \* an anchor redefined, and an alias inside a recorded node
    One(Sq(<<Anchored("x", S("1")), Anchored("y", Sq(<<Al("x")>>)), Anchored("x", S("2")), Al("y")>>)),
    \* a merge before and after a key of the mapping's own
    One(Mp(<<S("a"), X, S("b"), Mp(<<S("<<"), Al("x"), S("k"), S("2")>>)>>)),
    One(Mp(<<S("a"), X, S("b"), Mp(<<S("l"), S("2"), S("<<"), Al("x")>>)>>)),
    \* a merge of a list, the sources in conflict
    One(Sq(<<X, Anchored("y", Mp(<<S("k"), S("2"), S("l"), S("3")>>)),
             Mp(<<S("<<"), Sq(<<Al("x"), Al("y")>>)>>)>>)),
    \* an anchor behind a merge, and a merge that brings aliases
    One(Sq(<<X, Mp(<<S("<<"), Al("x"), S("l"), Anchored("z", S("2"))>>), Al("z")>>)),
    One(Mp(<<S("a"), X, S("b"), Mp(<<S("<<"), Al("x"), S("n"), Al("x")>>)>>)),
    \* an anchor inside an anchored node
    One(Sq(<<Anchored("x", Sq(<<Anchored("y", S("1"))>>)), Al("y")>>)),
    \* a merge of a scalar, of null, of a written mapping
    One(Mp(<<S("<<"), S("1")>>)), One(Mp(<<S("<<"), S("null")>>)), One(Mp(<<S("<<"), K1>>)),
    One(Sq(<<Anchored("x", S("1")), Mp(<<S("<<"), Al("x")>>)>>)),
    \* repeated keys, inside a skipped value too
    One(Mp(<<S("k"), S("1"), S("k"), S("2")>>)),
    One(Sq(<<Mp(<<S("k"), K1, S("k"), S("2")>>), S("3")>>)),
    \* mappings below a sequence and below mappings, with entries after them
    One(Mp(<<S("a"), Sq(<<K1, S("2")>>), S("b"), S("3")>>)),
    One(Mp(<<S("a"), Mp(<<S("b"), K1, S("l"), S("2")>>), S("n"), S("3")>>)),
    \* tags, nothing at all, null, two documents, a syntax error, depth
    One(Sq(<<Tagged(S("1")), S("2")>>)), One(Mp(<<S("k"), Tagged(S("1"))>>)),
    <<Event("start", None), Event("streamend", None)>>, One(S("null")),
    Front(One(S("1"))) \o Tail(One(S("2"))), One(Sq(<<S("1")>> \o <<Bad>>)),
    One(Sq(<<Sq(<<Sq(<<Sq(<<Mp(<<S("k"), K1>>)>>)>>)>>), S("2")>>)), One(Sq(<<Sq(<<S("1")>>), Sq(<<>>), S("2")>>)) }
============================================================================
