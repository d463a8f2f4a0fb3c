---------------------------- MODULE MCDocument ----------------------------
(***************************************************************************)
(* Documents of up to seven lines: keys and items, comments, a key written *)
(* twice, an anchor declared twice, an alias inside the sequence it names. *)
(***************************************************************************)
EXTENDS Document

E(k, v) == Entry(k, None, None, v)
A(k, n, v) == Entry(k, n, None, v)
R(k, n) == Entry(k, None, n, Null)
I(v) == Item(None, None, v)

MCOpenings == {
  <<Note, E("a", "1"), E("b", "2")>>,
  <<E("a", "1"), E("b", "2"), E("a", "2")>>,
  <<A("a", "x", "1"), A("b", "x", "2"), R("c", "x")>>,
  <<A("a", "x", "1"), R("b", "x")>>,
  <<E("a", "1"), E("b", Null), I("1"), Note, I("2"), I("1")>>,
  <<A("a", "x", Null), I("1"), I("2"), R("b", "x")>>,
  <<A("a", "x", "1"), A("b", "x", Null), Item(None, "x", Null), I("2"), R("c", "x")>>,
  <<E("a", Null), Item("x", None, "1"), Item(None, "x", Null), R("b", "x")>>,
  <<A("a", "x", Null), I("1"), R("b", "x"), A("a", "x", "2"), R("c", "x")>>,
  <<E("a", "1")>>,
  <<Note>>}

Frag(anchor, ref, val, more) == [anchor |-> anchor, ref |-> ref, val |-> val, more |-> more]
MCFragments == {
  Frag(None, None, "2", <<>>), Frag("x", None, "1", <<>>), Frag(None, "x", Null, <<>>),
  Frag(None, None, "1", <<Bad>>), Frag(None, None, "1", <<E("a", "2")>>),
  Frag(None, None, "2", <<I("1")>>), Frag(None, None, "3", <<>>)}
MCKeys == {"a", "b", "c"}
MCNames == {"x", "y"}
MCScalars == {"1", "2", "3"}
MCRefused == {"3"}
============================================================================
