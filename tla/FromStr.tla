------------------------------ MODULE FromStr ------------------------------
(***************************************************************************)
(* from_str over the streaming deserializer: what a typed reader is given  *)
(* is what the document's tree holds.  The tree is defined here without    *)
(* the machinery of streaming.rs: aliases are expanded to the node they    *)
(* name and merge keys to the entries they bring, as the loaders do.       *)
(***************************************************************************)
EXTENDS Streaming, TLC

(***************************************************************************)
(* The tree.                                                               *)
(***************************************************************************)
\* The events of the document with every alias expanded.  A node's anchor
\* names it from its end on; the latest definition holds.
Expanded ==
  LET at[n \in 0 .. Len(doc)] ==
        IF n = 0 THEN [out |-> <<>>, env |-> [x \in {} |-> <<>>], open |-> <<>>, ok |-> TRUE]
        ELSE LET s == at[n - 1]
                 ev == doc[n]
                 out == Append(s.out, ev)
                 o == Last(s.open)
                 Named(name, from) ==
                   IF name = None THEN s.env ELSE (name :> SubSeq(out, from, Len(out))) @@ s.env
             IN  CASE ev.t = "alias" ->
                        IF ev.v \in DOMAIN s.env THEN [s EXCEPT !.out = @ \o s.env[ev.v]]
                        ELSE [s EXCEPT !.ok = FALSE]
                   [] ev.t = "scalar" -> [s EXCEPT !.out = out, !.env = Named(ev.anchor, Len(out))]
                   [] Opens(ev) ->
                        [s EXCEPT !.out = out,
                                  !.open = Append(@, [name |-> ev.anchor, from |-> Len(out)])]
                   [] Closes(ev) ->
                        [s EXCEPT !.out = out, !.open = Front(@), !.env = Named(o.name, o.from)]
                   [] ev.t = "bad" -> [s EXCEPT !.ok = FALSE]
                   [] OTHER -> s
  IN  at[Len(doc)]

RECURSIVE NodeEnd(_, _, _)
NodeEnd(s, i, open) ==
  LET now == open + (IF Opens(s[i]) THEN 1 ELSE 0) - (IF Closes(s[i]) THEN 1 ELSE 0)
  IN  IF now = 0 THEN i ELSE NodeEnd(s, i + 1, now)

\* Where the children of the collection at i start.
RECURSIVE Siblings(_, _)
Siblings(s, i) == IF Closes(s[i]) THEN <<>> ELSE <<i>> \o Siblings(s, NodeEnd(s, i, 0) + 1)
Children(s, i) == Siblings(s, i + 1)
Keys(s, i) == SelectSeq(Children(s, i), LAMBDA c : \E n \in DOMAIN Children(s, i) :
                                                     n % 2 = 1 /\ Children(s, i)[n] = c)
ValueAt(s, i, k) == NodeEnd(s, k, 0) + 1
Explicit(s, i) == SelectSeq(Keys(s, i), LAMBDA k : s[k].v # "<<")
Merges(s, i) == SelectSeq(Keys(s, i), LAMBDA k : s[k].v = "<<")

\* The mappings a merge value brings, the strongest first; <<0>> when it is
\* no mapping.
RECURSIVE Sources(_, _)
Sources(s, v) ==
  CASE s[v].t = "map" -> <<v>>
    [] s[v].t = "seq" -> FlattenSeq([n \in DOMAIN Children(s, v) |-> Sources(s, Children(s, v)[n])])
    [] s[v].v = "null" -> <<>>
    [] OTHER -> <<0>>
AllSources(s, i) ==
  FlattenSeq([n \in DOMAIN Merges(s, i) |-> Sources(s, ValueAt(s, i, Merges(s, i)[n]))])

\* Key to the place of its value: the mapping's own entries, then merged ones.
RECURSIVE MapOf(_, _)
MapOf(s, i) ==
  LET own == Explicit(s, i)
      Pick(k) == LET at == {n \in DOMAIN own : s[own[n]].v = k}
                 IN  IF policy = "Last" THEN CHOOSE n \in at : \A j \in at : j <= n
                     ELSE CHOOSE n \in at : \A j \in at : n <= j
      mine == [k \in {s[own[n]].v : n \in DOMAIN own} |-> ValueAt(s, i, own[Pick(k)])]
      from == SelectSeq(AllSources(s, i), LAMBDA src : src # 0)
  IN  FoldLeft(LAMBDA m, src : m @@ MapOf(s, src), mine, from)

RECURSIVE Leaves(_, _, _)
Leaves(s, i, path) ==
  (IF s[i].tag THEN {<<path, "!">>} ELSE {}) \cup
  CASE s[i].t = "seq" ->
         {<<path, "seq">>} \cup
         UNION {Leaves(s, Children(s, i)[n], Append(path, ToString(n - 1))) : n \in DOMAIN Children(s, i)}
    [] s[i].t = "map" ->
         LET m == MapOf(s, i)
         IN  {<<path, "map">>} \cup UNION {Leaves(s, m[k], Append(path, k)) : k \in DOMAIN m}
    [] OTHER -> {<<path, s[i].v>>}

Tree == IF Expanded.out = <<>> THEN {<<<<>>, "null">>} ELSE Leaves(Expanded.out, 1, <<>>)

\* Every node is admitted: where they are looked at, nothing is deeper than
\* the limit, no key repeated under Error, and merges are of mappings only.
RECURSIVE Admitted(_, _, _, _, _)
Admitted(s, i, depth, keys, merges) ==
  /\ Opens(s[i]) => depth <= MaxDepth
  /\ s[i].t = "map" =>
       /\ \A a, b \in ToSet(Explicit(s, i)) : keys /\ policy = "Error" /\ a # b => s[a].v # s[b].v
       /\ merges => 0 \notin ToSet(AllSources(s, i))
  /\ Opens(s[i]) => \A c \in ToSet(Children(s, i)) : Admitted(s, c, depth + 1, keys, merges)

Accepted(deep, keys, merges) ==
  /\ Expanded.ok
  /\ Cardinality({n \in DOMAIN doc : doc[n].t = "docend"}) <= 1
  /\ Expanded.out = <<>> \/ Admitted(Expanded.out, 1, IF deep THEN 1 ELSE 0, keys, merges)

(***************************************************************************)
(* The properties.                                                         *)
(***************************************************************************)
IsPrefixPath(p, q) == Len(p) <= Len(q) /\ SubSeq(q, 1, Len(p)) = p
Shown(leaves) ==
  {l \in leaves : \A p \in skipped \cup left : ~IsPrefixPath(p, l[1])}

\* What a recording does not keep: a tag of the anchored node, and a tag, an
\* anchor or the source of a merge inside it.
RecordingIncomplete ==
  \E i \in DOMAIN doc :
    /\ doc[i].anchor # None
    /\ \E j \in i .. NodeEnd(doc, i, 0) :
         doc[j].tag \/ (i < j /\ (doc[j].anchor # None \/ doc[j].v = "<<"))

VariantRead == \E l \in got : l[2] = "enum"
Held == {l \in got : l[2] # "enum"}

\* A document the streaming reader accepts is one the loaders accept, but for
\* merges and the keys of collections the visitor did not look at and for the
\* depth of enums; and what
\* the visitor was given is what the tree holds at the paths it read: through
\* recordings, replays, spliced merges, repeated keys, early returns and
\* calls made after the end.  A mapping left at a value ends in a refusal or in
\* the tree loader; an unread variant shifts what follows, and is left out.
NeverWrong ==
  outcome = "ok" /\ ~lost /\ "variant" \notin astray /\ ~RecordingIncomplete =>
    /\ Accepted(~VariantRead, left = {}, skipped \cup left = {})
    /\ Shown(Held) = Shown(Tree)
    /\ policy # "Last" => Held \subseteq Tree

\* from_str returns a located error without asking the tree loader, so the
\* loader must refuse the document too.  (Not so for a stream without a
\* document, read as IgnoredAny: skip_value asks the parser past its end; nor
\* when a mapping or a variant was left half way.)
Refused == ~Accepted(TRUE, TRUE, TRUE) \/ Expanded.out = <<>>
RefusedRightly ==
  outcome = "refused" /\ ~lost /\ astray = {} /\ ~RecordingIncomplete => Refused

\* A collection left between two of its elements or entries is skipped up to its
\* own end, through replays and spliced merges: the ends still to come are the
\* ends of the collections still open.  (StreamingSeqAccess::drop and
\* StreamingMapAccess::drop; not so when a mapping is left at a value, or a
\* variant unread.)
Aligned ==
  outcome \in {"reading", "draining"} /\ ~lost /\ astray = {} /\ ~RecordingIncomplete =>
    LET ahead == (IF de.current = <<>> THEN <<>> ELSE <<de.current[1].ev>>)
                 \o FlattenSeq(Reverse(de.replay))
                 \o SubSeq(doc, de.pos, Len(doc))
        ends == Cardinality({n \in DOMAIN ahead : Closes(ahead[n])})
        opens == Cardinality({n \in DOMAIN ahead : Opens(ahead[n])})
    IN  ends - opens = Cardinality({n \in DOMAIN frames : ~frames[n].finished})
============================================================================
