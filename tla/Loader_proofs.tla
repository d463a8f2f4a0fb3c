--------------------------- MODULE Loader_proofs ---------------------------
(***************************************************************************)
(* Proofs about the two owned tree builders, for every document, policy    *)
(* and limit: their frames follow the events, an alias means what the      *)
(* document says, the span-free loader is the same loader, a mapping holds *)
(* what the duplicate-key policy and the merge keys say, and no document   *)
(* grows deeper or larger than its budgets.                                *)
(*                                                                         *)
(* Every event ends in a push, which gives the innermost frame one node    *)
(* and touches nothing else.  The first three look into no value: what the *)
(* loaders compute from them, they compute from the same arguments.  The   *)
(* fourth looks at the entries of a mapping only, the last at the nodes    *)
(* and the height of a value and at what it offers to a merge.             *)
(***************************************************************************)
EXTENDS Loader, SequenceTheorems, NaturalsInduction, WellFoundedInduction, TLAPS

-----------------------------------------------------------------------------
(* The shape of a loader.  Its values range over no set, so its types say  *)
(* which fields a record has.                                              *)

Has(r, fields) == r = [x \in fields |-> r[x]]
IsSeq(s) == \E S : s \in Seq(S)

LoaderFields ==
  {"spanned", "docs", "stack", "anchor_map", "anchor_def_spans", "earlier_anchor_defs",
   "alias_bytes", "depth", "in_document", "err", "at"}
SeqFields == {"f", "items", "spans", "anchor", "tag", "start"}
MapFields ==
  {"f", "map", "spans", "typed_keys", "merge_values", "anchor", "tag", "start", "key",
   "key_value", "key_may_merge", "key_span", "seen"}

IsFrame(f) ==
  /\ \/ f.f = "seq" /\ Has(f, SeqFields)
     \/ f.f \in {"key", "value"} /\ Has(f, MapFields)
  /\ f.anchor \in Anchors \cup {None}

IsLoader(L) ==
  /\ Has(L, LoaderFields)
  /\ IsSeq(L.docs) /\ IsSeq(L.stack)
  /\ \A i \in DOMAIN L.stack : IsFrame(L.stack[i])
  /\ L.anchor_def_spans \in [Anchors -> Nat] /\ L.depth \in Nat

-----------------------------------------------------------------------------
(* The inductive invariant.  Its parts speak of a loader and of what the   *)
(* events and the ghosts say, so that each holds of `full` in every state. *)

Kind == {"seq", "key", "value"}
InDocument == {"root", "inside", "rooted"}
Impossible == {"unexpected_end", "outside_document"}

\* A collection is open exactly inside the root node.
Grammar(ph, o) == o \in Seq(Kind) /\ (ph = "inside" <=> o # <<>>)

\* Each frame waits for what the grammar expects of its collection.
Match(L, o) ==
  /\ Len(L.stack) = Len(o)
  /\ \A i \in DOMAIN o : o[i] = IF i = Len(o) THEN L.stack[i].f ELSE Turn(L.stack[i].f)

\* FramesFollowEvents.
Follows(L, ph, o, d) ==
  /\ L.err \notin Impossible
  /\ L.err = "none" =>
       /\ Match(L, o) /\ L.depth = Len(o)
       /\ L.in_document <=> ph \in InDocument
       /\ Len(L.docs) = IF ph \in {"root", "inside"} THEN d - 1 ELSE d

\* A loader and the grammar at the same place in the stream.
Together(L, ph, o, d) == IsLoader(L) /\ Grammar(ph, o) /\ Follows(L, ph, o, d) /\ d \in Nat

\* AnchorScope: l holds the node last completed under each anchor.
Inside(L, a) == \E i \in DOMAIN L.stack : L.stack[i].anchor = a
Scope(L, d, l) ==
  \A a \in Anchors :
    /\ a \in DOMAIN L.anchor_map <=> l[a].doc = d
    /\ l[a].doc = d => L.anchor_map[a].val = l[a].val
    /\ L.anchor_def_spans[a] # 0 <=> l[a].doc = d \/ Inside(L, a)

\* Two frames that differ at most in their spans.
Twins(f, g) ==
  /\ g.f = f.f /\ g.anchor = f.anchor /\ g.tag = f.tag /\ g.start = f.start
  /\ f.f = "seq" => g.items = f.items
  /\ f.f # "seq" =>
       /\ g.map = f.map /\ g.typed_keys = f.typed_keys /\ g.merge_values = f.merge_values
       /\ g.key = f.key /\ g.key_value = f.key_value /\ g.key_may_merge = f.key_may_merge

\* Two loaders that differ at most in their spans.
Agree(L, M) ==
  /\ M.err = L.err /\ M.anchor_def_spans = L.anchor_def_spans
  /\ Len(M.docs) = Len(L.docs) /\ Vals(M.docs) = Vals(L.docs)
  /\ L.err = "none" =>
       /\ Len(M.stack) = Len(L.stack)
       /\ \A i \in DOMAIN L.stack : Twins(L.stack[i], M.stack[i])
       /\ M.alias_bytes = L.alias_bytes /\ M.depth = L.depth
       /\ M.in_document = L.in_document /\ M.anchor_map = L.anchor_map

\* Where the stream is, and what was completed under each anchor.
Ghosts(ph, d, l) ==
  /\ ph \in InDocument \cup {"start", "between", "end", "failed"}
  /\ ph \in InDocument => d > 0
  /\ Has(l, Anchors) /\ \A a \in Anchors : l[a].doc \in 0 .. d

Good(L, M, ph, o, d, l) ==
  /\ Together(L, ph, o, d) /\ IsLoader(M) /\ L.spanned = TRUE /\ M.spanned = FALSE
  /\ Ghosts(ph, d, l) /\ (ph = "failed" => L.err # "none")
  /\ L.err = "none" /\ ph \in InDocument => Scope(L, d, l)
  /\ Agree(L, M)

IInv ==
  /\ n \in Nat /\ \E s \in Setups : input = s.input
  /\ Good(full, bare, phase, open, doc, latest)

-----------------------------------------------------------------------------
(* Sequences of anything.                                                  *)

LEMMA NoneSeq == IsSeq(<<>>) /\ Len(<<>>) = 0
<1>1. <<>> \in Seq(Nat)
  BY EmptySeq
<1>2. IsSeq(<<>>)
  BY <1>1, Zenon DEF IsSeq
<1>. QED
  BY <1>2

LEMMA SeqFacts ==
  ASSUME NEW s, IsSeq(s)
  PROVE  /\ Len(s) \in Nat /\ DOMAIN s = 1 .. Len(s)
         /\ s = <<>> <=> Len(s) = 0
         /\ s # <<>> => Len(s) \in 1 .. Len(s) /\ Len(s) - 1 \in Nat
<1>1. PICK S : s \in Seq(S)
  BY DEF IsSeq
<1>. QED
  BY <1>1

LEMMA AppendSeq ==
  ASSUME NEW s, IsSeq(s), NEW x
  PROVE  /\ IsSeq(Append(s, x)) /\ Len(Append(s, x)) = Len(s) + 1
         /\ \A i \in 1 .. Len(s) : Append(s, x)[i] = s[i]
         /\ Append(s, x)[Len(s) + 1] = x /\ Append(s, x) # <<>>
<1>1. PICK S : s \in Seq(S)
  BY DEF IsSeq
<1>2. s \in Seq(S \cup {x}) /\ x \in S \cup {x}
  BY <1>1
<1>3. /\ Append(s, x) \in Seq(S \cup {x}) /\ Len(Append(s, x)) = Len(s) + 1
      /\ \A i \in 1 .. Len(s) : Append(s, x)[i] = s[i]
      /\ Append(s, x)[Len(s) + 1] = x
  BY <1>2, AppendProperties
<1>4. Append(s, x) # <<>>
  BY <1>2, <1>3
<1>5. IsSeq(Append(s, x))
  BY <1>3, Zenon DEF IsSeq
<1>. QED
  BY <1>3, <1>4, <1>5

\* The positions before the last.
LEMMA Before ==
  ASSUME NEW l \in Nat, l >= 1
  PROVE  /\ l \in 1 .. l /\ l - 1 \in Nat /\ (l - 1 = 0 <=> l = 1) /\ l - 1 + 1 = l /\ (l - 1) - 1 + 1 = l - 1
         /\ (IF 1 <= l - 1 THEN (l - 1) - 1 + 1 ELSE 0) = l - 1
         /\ \A i \in 1 .. l - 1 : i \in 1 .. l /\ i # l /\ 1 + i - 1 = i
         /\ \A i \in 1 .. l : i # l => i \in 1 .. l - 1
OBVIOUS

LEMMA FrontSeq ==
  ASSUME NEW s, IsSeq(s), s # <<>>
  PROVE  /\ IsSeq(SubSeq(s, 1, Len(s) - 1)) /\ Len(SubSeq(s, 1, Len(s) - 1)) = Len(s) - 1
         /\ \A i \in 1 .. Len(s) - 1 : SubSeq(s, 1, Len(s) - 1)[i] = s[i]
<1>1. PICK S : s \in Seq(S)
  BY DEF IsSeq
<1>2. Len(s) \in Nat /\ Len(s) >= 1
  BY <1>1
<1>3. \A i \in 1 .. Len(s) - 1 : s[i] \in S
  BY <1>1, <1>2
<1>4. /\ SubSeq(s, 1, Len(s) - 1) \in Seq(S)
      /\ Len(SubSeq(s, 1, Len(s) - 1)) = IF 1 <= Len(s) - 1 THEN (Len(s) - 1) - 1 + 1 ELSE 0
      /\ \A i \in 1 .. (Len(s) - 1) - 1 + 1 : SubSeq(s, 1, Len(s) - 1)[i] = s[1 + i - 1]
  BY <1>2, <1>3, SubSeqProperties
<1>5. \A i \in 1 .. Len(s) - 1 : SubSeq(s, 1, Len(s) - 1)[i] = s[i]
  <2>1. (Len(s) - 1) - 1 + 1 = Len(s) - 1
    BY <1>2
  <2>2. \A i \in 1 .. Len(s) - 1 : 1 + i - 1 = i
    BY <1>2
  <2>. QED BY <1>4, <2>1, <2>2
<1>6. IsSeq(SubSeq(s, 1, Len(s) - 1))
  BY <1>4, Zenon DEF IsSeq
<1>7. Len(SubSeq(s, 1, Len(s) - 1)) = Len(s) - 1
  <2>1. (IF 1 <= Len(s) - 1 THEN (Len(s) - 1) - 1 + 1 ELSE 0) = Len(s) - 1
    BY <1>2, Before, Zenon
  <2>. QED BY <1>4, <2>1
<1>. QED
  BY <1>5, <1>6, <1>7, Zenon

LEMMA ReplaceLastSeq ==
  ASSUME NEW s, IsSeq(s), s # <<>>, NEW x
  PROVE  LET t == [s EXCEPT ![Len(s)] = x]
         IN  /\ IsSeq(t) /\ Len(t) = Len(s) /\ t # <<>>
             /\ \A i \in 1 .. Len(s) - 1 : t[i] = s[i]
             /\ t[Len(s)] = x
<1>1. PICK S : s \in Seq(S)
  BY DEF IsSeq
<1>2. s \in Seq(S \cup {x}) /\ x \in S \cup {x} /\ Len(s) \in Nat /\ DOMAIN s = 1 .. Len(s)
  BY <1>1
<1>3. Len(s) \in 1 .. Len(s)
  BY <1>1
<1>4. [s EXCEPT ![Len(s)] = x] \in Seq(S \cup {x}) /\ Len([s EXCEPT ![Len(s)] = x]) = Len(s)
  BY <1>2, <1>3
<1>5. [s EXCEPT ![Len(s)] = x] # <<>>
  BY <1>3, <1>4
<1>6. IsSeq([s EXCEPT ![Len(s)] = x])
  BY <1>4, Zenon DEF IsSeq
<1>7. /\ \A i \in 1 .. Len(s) - 1 : [s EXCEPT ![Len(s)] = x][i] = s[i]
      /\ [s EXCEPT ![Len(s)] = x][Len(s)] = x
  <2>1. \A i \in 1 .. Len(s) - 1 : i \in 1 .. Len(s) /\ i # Len(s)
    <3>1. Len(s) \in Nat /\ Len(s) >= 1
      BY <1>3
    <3>. QED BY <3>1, Before, Zenon
  <2>. QED BY <1>2, <1>3, <2>1, Zenon
<1>. QED
  BY <1>4, <1>5, <1>6, <1>7, Zenon

-----------------------------------------------------------------------------
(* What the steps of a loader do to its fields.                            *)

\* The fields a push leaves alone.
Keeps(L, M) ==
  /\ M.spanned = L.spanned /\ M.anchor_map = L.anchor_map
  /\ M.anchor_def_spans = L.anchor_def_spans /\ M.alias_bytes = L.alias_bytes
  /\ M.depth = L.depth /\ M.in_document = L.in_document

LEMMA FailFacts ==
  ASSUME NEW L, IsLoader(L), NEW e, NEW p
  PROVE  LET M == Fail(L, e, p)
         IN  /\ IsLoader(M) /\ Keeps(L, M)
             /\ M.docs = L.docs /\ M.stack = L.stack /\ M.err = e
<1> DEFINE M == Fail(L, e, p)
<1>1. Has(L, LoaderFields)
  BY DEF IsLoader
<1>2. Has(M, LoaderFields)
  BY <1>1 DEF Has, LoaderFields, Fail
<1>3. M.docs = L.docs /\ M.stack = L.stack /\ M.err = e /\ Keeps(L, M)
  BY <1>1 DEF Has, LoaderFields, Fail, Keeps
<1>4. IsLoader(M)
  BY <1>2, <1>3 DEF IsLoader, Keeps
<1>. QED
  BY <1>3, <1>4

\* The innermost frame, and the frames below it.
LEMMA TopFrame ==
  ASSUME NEW L, IsLoader(L), L.stack # <<>>
  PROVE  /\ Len(L.stack) \in Nat /\ Len(L.stack) >= 1 /\ Len(L.stack) \in 1 .. Len(L.stack)
         /\ DOMAIN L.stack = 1 .. Len(L.stack)
         /\ IsFrame(Last(L.stack)) /\ Last(L.stack) = L.stack[Len(L.stack)]
<1>1. IsSeq(L.stack) /\ \A i \in DOMAIN L.stack : IsFrame(L.stack[i])
  BY DEF IsLoader
<1>2. /\ Len(L.stack) \in Nat /\ DOMAIN L.stack = 1 .. Len(L.stack)
      /\ Len(L.stack) \in 1 .. Len(L.stack)
  BY <1>1, SeqFacts
<1>3. Len(L.stack) >= 1
  BY <1>2
<1>. QED
  BY <1>1, <1>2, <1>3 DEF Last

LEMMA SetTopFacts ==
  ASSUME NEW L, IsLoader(L), L.stack # <<>>, NEW g, IsFrame(g)
  PROVE  LET M == SetTop(L, g)
         IN  /\ IsLoader(M) /\ Keeps(L, M) /\ M.docs = L.docs /\ M.err = L.err
             /\ M.stack # <<>> /\ Len(M.stack) = Len(L.stack) /\ Last(M.stack) = g
             /\ \A i \in 1 .. Len(L.stack) - 1 : M.stack[i] = L.stack[i]
<1> DEFINE M == SetTop(L, g)
           t == [L.stack EXCEPT ![Len(L.stack)] = g]
<1>1. Has(L, LoaderFields) /\ IsSeq(L.stack)
  BY DEF IsLoader
<1>2. M = [L EXCEPT !.stack = t]
  BY DEF SetTop
<1>3. /\ IsSeq(t) /\ Len(t) = Len(L.stack) /\ t # <<>>
      /\ \A i \in 1 .. Len(L.stack) - 1 : t[i] = L.stack[i]
      /\ t[Len(L.stack)] = g
  BY <1>1, ReplaceLastSeq
<1>. HIDE DEF t, M
<1>4. Has(M, LoaderFields)
  BY <1>1, <1>2 DEF Has, LoaderFields
<1>5. M.docs = L.docs /\ M.stack = t /\ M.err = L.err /\ Keeps(L, M)
  BY <1>1, <1>2 DEF Has, LoaderFields, Keeps
<1>6. \A i \in DOMAIN M.stack : IsFrame(M.stack[i])
  <2>1. DOMAIN t = 1 .. Len(L.stack)
    BY <1>3, SeqFacts
  <2>2. Len(L.stack) \in Nat /\ Len(L.stack) >= 1
    BY TopFrame
  <2>3. ASSUME NEW i \in 1 .. Len(L.stack) PROVE IsFrame(t[i])
    <3>1. CASE i = Len(L.stack)
      BY <1>3, <3>1
    <3>2. CASE i # Len(L.stack)
      <4>1. i \in 1 .. Len(L.stack) - 1
        BY <2>2, <3>2, Before
      <4>2. i \in DOMAIN L.stack
        BY TopFrame
      <4>. QED BY <1>3, <4>1, <4>2 DEF IsLoader
    <3>. QED BY <3>1, <3>2
  <2>. QED BY <1>5, <2>1, <2>3
<1>7. IsLoader(M)
  BY <1>3, <1>4, <1>5, <1>6 DEF IsLoader, Keeps
<1>8. Last(M.stack) = g
  BY <1>3, <1>5 DEF Last
<1>. QED
  BY <1>3, <1>5, <1>7, <1>8 DEF M

\* A node given to the innermost frame, which then waits for the next.
Placed(L, M) ==
  /\ M.docs = L.docs /\ M.err = "none"
  /\ M.stack # <<>> /\ Len(M.stack) = Len(L.stack)
  /\ \A i \in 1 .. Len(L.stack) - 1 : M.stack[i] = L.stack[i]
  /\ Last(M.stack).f = Turn(Last(L.stack).f)
  /\ Last(M.stack).anchor = Last(L.stack).anchor

\* A refused node.
RefusedNode(L, M) ==
  /\ M.docs = L.docs /\ M.err \notin {"none", "unexpected_end", "outside_document"}

LEMMA PlacedFacts ==
  ASSUME NEW L, IsLoader(L), L.err = "none", L.stack # <<>>, NEW g, IsFrame(g),
         g.f = Turn(Last(L.stack).f), g.anchor = Last(L.stack).anchor
  PROVE  IsLoader(SetTop(L, g)) /\ Keeps(L, SetTop(L, g)) /\ Placed(L, SetTop(L, g))
BY SetTopFacts DEF Placed

LEMMA RefusedFacts ==
  ASSUME NEW L, IsLoader(L), NEW p, NEW e,
         e \notin {"none", "unexpected_end", "outside_document"}
  PROVE  IsLoader(Fail(L, e, p)) /\ Keeps(L, Fail(L, e, p)) /\ RefusedNode(L, Fail(L, e, p))
BY FailFacts DEF RefusedNode

LEMMA PushItemFacts ==
  ASSUME NEW L, IsLoader(L), L.err = "none", L.stack # <<>>, Last(L.stack).f = "seq",
         NEW v, NEW spans
  PROVE  LET M == PushItem(L, v, spans)
         IN  IsLoader(M) /\ Keeps(L, M) /\ (Placed(L, M) \/ RefusedNode(L, M))
<1> DEFINE f == Last(L.stack)
           g == [f EXCEPT !.items = Append(@, v), !.spans = spans]
<1>1. Has(f, SeqFields) /\ f.anchor \in Anchors \cup {None}
  BY TopFrame DEF IsFrame
<1>2. g.f = "seq" /\ g.anchor = f.anchor /\ Has(g, SeqFields)
  BY <1>1 DEF Has, SeqFields
<1>3. IsFrame(g) /\ g.f = Turn(f.f)
  BY <1>1, <1>2 DEF IsFrame, Turn
<1>4. PushItem(L, v, spans) = SetTop(L, g) \/ PushItem(L, v, spans) = Fail(L, "sequence_length", 0)
  BY DEF PushItem
<1>. HIDE DEF g
<1>. QED
  BY <1>2, <1>3, <1>4, PlacedFacts, RefusedFacts

LEMMA PushKeyFacts ==
  ASSUME NEW L, IsLoader(L), L.err = "none", L.stack # <<>>, Last(L.stack).f = "key",
         NEW v, NEW may, NEW key_span, NEW start
  PROVE  LET M == PushKey(L, v, may, key_span, start)
         IN  IsLoader(M) /\ Keeps(L, M) /\ (Placed(L, M) \/ RefusedNode(L, M))
<1> DEFINE f == Last(L.stack)
<1>1. Has(f, MapFields) /\ f.anchor \in Anchors \cup {None}
  BY TopFrame DEF IsFrame
<1>2. ASSUME NEW shape
      PROVE  LET g == [f EXCEPT !.f = "value", !.key = v.key, !.key_may_merge = may,
                                !.key_value = shape, !.key_span = key_span]
             IN  IsFrame(g) /\ g.f = Turn(f.f) /\ g.anchor = f.anchor
  <2> DEFINE g == [f EXCEPT !.f = "value", !.key = v.key, !.key_may_merge = may,
                            !.key_value = shape, !.key_span = key_span]
  <2>1. g.f = "value" /\ g.anchor = f.anchor /\ Has(g, MapFields)
    BY <1>1 DEF Has, MapFields
  <2>. HIDE DEF g
  <2>2. IsFrame(g) /\ g.f = Turn(f.f)
    BY <1>1, <2>1 DEF IsFrame, Turn
  <2>. QED BY <2>1, <2>2 DEF g
<1>3. \/ PushKey(L, v, may, key_span, start) = Fail(L, "non_scalar_key", start)
      \/ \E shape : PushKey(L, v, may, key_span, start) =
           SetTop(L, [f EXCEPT !.f = "value", !.key = v.key, !.key_may_merge = may,
                               !.key_value = shape, !.key_span = key_span])
  BY DEF PushKey
<1>4. CASE PushKey(L, v, may, key_span, start) = Fail(L, "non_scalar_key", start)
  BY <1>4, RefusedFacts
<1>5. ASSUME NEW shape, PushKey(L, v, may, key_span, start) =
           SetTop(L, [f EXCEPT !.f = "value", !.key = v.key, !.key_may_merge = may,
                               !.key_value = shape, !.key_span = key_span])
      PROVE  LET M == PushKey(L, v, may, key_span, start)
             IN  IsLoader(M) /\ Keeps(L, M) /\ (Placed(L, M) \/ RefusedNode(L, M))
  <2> DEFINE g == [f EXCEPT !.f = "value", !.key = v.key, !.key_may_merge = may,
                            !.key_value = shape, !.key_span = key_span]
  <2>1. IsFrame(g) /\ g.f = Turn(f.f) /\ g.anchor = f.anchor
    BY <1>2
  <2>. HIDE DEF g
  <2>2. IsLoader(SetTop(L, g)) /\ Keeps(L, SetTop(L, g)) /\ Placed(L, SetTop(L, g))
    BY <2>1, PlacedFacts
  <2>. QED BY <1>5, <2>2 DEF g
<1>. QED
  BY <1>3, <1>4, <1>5

\* What becomes of a mapping's own fields when it is offered an entry.
SameNode(f, g) ==
  /\ Has(g, MapFields) /\ g.anchor = f.anchor /\ g.tag = f.tag /\ g.start = f.start
  /\ g.merge_values = f.merge_values

LEMMA InsertFacts ==
  ASSUME NEW f, Has(f, MapFields), NEW v, NEW span
  PROVE  /\ SameNode(f, InsertBare(f, v))
         /\ SameNode(f, InsertSpanned(f, v, span))
         /\ InsertSpanned(f, v, span).map = InsertBare(f, v).map
         /\ InsertSpanned(f, v, span).typed_keys = InsertBare(f, v).typed_keys
<1> DEFINE idx == get_index_of(f.map, f.key)
           entry == [key |-> f.key_span, val |-> span]
           new == Append(f.map, [key |-> f.key, val |-> v])
           shapes == record(f.typed_keys, Len(f.map), f.key_value)
           old == [f.map EXCEPT ![idx].val = v]
<1>1. Inserted(f, v) = [f EXCEPT !.map = new, !.typed_keys = shapes]
  BY DEF Inserted
<1>2. /\ InsertBare(f, v) =
           IF idx = 0 THEN [f EXCEPT !.map = new, !.typed_keys = shapes]
           ELSE IF config.duplicate = "Last" THEN [f EXCEPT !.map = old] ELSE f
      /\ InsertSpanned(f, v, span) =
           IF idx = 0 THEN [[f EXCEPT !.map = new, !.typed_keys = shapes]
                              EXCEPT !.spans = Append(@, entry)]
           ELSE IF config.duplicate = "Last"
                THEN [f EXCEPT !.map = old, !.spans = [f.spans EXCEPT ![idx] = entry]] ELSE f
  <2>1. [f EXCEPT !.map[idx].val = v] = [f EXCEPT !.map = old]
    BY Zenon
  <2>2. [f EXCEPT !.map[idx].val = v, !.spans[idx] = entry]
          = [f EXCEPT !.map = old, !.spans = [f.spans EXCEPT ![idx] = entry]]
    BY DEF Has, MapFields
  <2>. QED BY <1>1, <2>1, <2>2 DEF InsertBare, InsertSpanned
<1>. HIDE DEF idx, entry, new, shapes, old
<1>3. CASE idx = 0
  <2> DEFINE a == [f EXCEPT !.map = new, !.typed_keys = shapes]
  <2>1. SameNode(f, a)
    BY DEF Has, MapFields, SameNode
  <2>2. InsertBare(f, v) = a /\ InsertSpanned(f, v, span) = [a EXCEPT !.spans = Append(@, entry)]
    BY <1>2, <1>3
  <2>. HIDE DEF a
  <2>3. LET b == [a EXCEPT !.spans = Append(@, entry)]
        IN  SameNode(a, b) /\ b.map = a.map /\ b.typed_keys = a.typed_keys
    BY <2>1 DEF Has, MapFields, SameNode
  <2>. QED BY <2>1, <2>2, <2>3 DEF SameNode
<1>4. CASE idx # 0 /\ config.duplicate = "Last"
  <2> DEFINE a == [f EXCEPT !.map = old]
             b == [f EXCEPT !.map = old, !.spans = [f.spans EXCEPT ![idx] = entry]]
  <2>1. InsertBare(f, v) = a /\ InsertSpanned(f, v, span) = b
    BY <1>2, <1>4
  <2>2. SameNode(f, a) /\ a.map = old /\ a.typed_keys = f.typed_keys
    BY DEF Has, MapFields, SameNode
  <2>3. SameNode(f, b) /\ b.map = old /\ b.typed_keys = f.typed_keys
    BY DEF Has, MapFields, SameNode
  <2>. HIDE DEF a, b
  <2>. QED BY <2>1, <2>2, <2>3
<1>5. CASE idx # 0 /\ config.duplicate # "Last"
  BY <1>2, <1>5 DEF SameNode
<1>. QED
  BY <1>3, <1>4, <1>5

\* The frame waits for its next key.
LEMMA NextKeyFacts ==
  ASSUME NEW g, Has(g, MapFields), g.anchor \in Anchors \cup {None}
  PROVE  LET h == NextKey(g)
         IN  /\ IsFrame(h) /\ Has(h, MapFields)
             /\ h.f = "key" /\ h.anchor = g.anchor /\ h.tag = g.tag /\ h.start = g.start
             /\ h.map = g.map /\ h.typed_keys = g.typed_keys
             /\ h.merge_values = g.merge_values
             /\ h.key = <<>> /\ h.key_value = Str /\ h.key_may_merge = FALSE
<1> DEFINE h == NextKey(g)
<1>1. /\ Has(h, MapFields)
      /\ h.f = "key" /\ h.anchor = g.anchor /\ h.tag = g.tag /\ h.start = g.start
      /\ h.map = g.map /\ h.typed_keys = g.typed_keys /\ h.merge_values = g.merge_values
      /\ h.key = <<>> /\ h.key_value = Str /\ h.key_may_merge = FALSE
  BY DEF NextKey, Has, MapFields
<1>. HIDE DEF h
<1>2. IsFrame(h)
  BY <1>1 DEF IsFrame
<1>. QED
  BY <1>1, <1>2 DEF h

\* The entry is noted.
LEMMA SeenFacts ==
  ASSUME NEW g, Has(g, MapFields), NEW v, NEW span
  PROVE  LET h == Seen(g, v, span)
         IN  /\ Has(h, MapFields) /\ SameNode(g, h)
             /\ h.map = g.map /\ h.typed_keys = g.typed_keys
BY DEF Seen, Has, MapFields, SameNode

\* A merge value is buffered.
LEMMA BufferFacts ==
  ASSUME NEW f, Has(f, MapFields), NEW v
  PROVE  LET h == [f EXCEPT !.merge_values = Append(@, v)]
         IN  /\ Has(h, MapFields) /\ h.anchor = f.anchor /\ h.tag = f.tag /\ h.start = f.start
             /\ h.map = f.map /\ h.typed_keys = f.typed_keys
             /\ h.merge_values = Append(f.merge_values, v)
BY DEF Has, MapFields

\* What the innermost mapping becomes when the value of its key is accepted.
Entered(L, f, v, span) ==
  IF IsMerge(f) /\ config.merge # "AsOrdinary"
  THEN [f EXCEPT !.merge_values = Append(@, v)]
  ELSE IF L.spanned THEN Seen(InsertSpanned(f, v, span), v, span) ELSE InsertBare(f, v)

LEMMA EnteredFacts ==
  ASSUME NEW L, NEW f, Has(f, MapFields), NEW v, NEW span
  PROVE  LET h == Entered(L, f, v, span)
         IN  Has(h, MapFields) /\ h.anchor = f.anchor /\ h.tag = f.tag /\ h.start = f.start
<1>1. SameNode(f, InsertSpanned(f, v, span)) /\ SameNode(f, InsertBare(f, v))
  BY InsertFacts
<1>2. SameNode(InsertSpanned(f, v, span), Seen(InsertSpanned(f, v, span), v, span))
  BY <1>1, SeenFacts DEF SameNode
<1>. QED
  BY <1>1, <1>2, BufferFacts DEF Entered, SameNode

Refusals == {"merge_rejected", "mapping_keys", "key_collision", "duplicate_key"}

LEMMA PushValueCases ==
  ASSUME NEW L, NEW v, NEW span
  PROVE  \/ PushValue(L, v, span) = SetTop(L, NextKey(Entered(L, Last(L.stack), v, span)))
         \/ \E e \in Refusals : \E p : PushValue(L, v, span) = Fail(L, e, p)
BY DEF PushValue, Entered, Refusals

LEMMA PushValueFacts ==
  ASSUME NEW L, IsLoader(L), L.err = "none", L.stack # <<>>, Last(L.stack).f = "value",
         NEW v, NEW span
  PROVE  LET M == PushValue(L, v, span)
         IN  IsLoader(M) /\ Keeps(L, M) /\ (Placed(L, M) \/ RefusedNode(L, M))
<1> DEFINE f == Last(L.stack)
           g == NextKey(Entered(L, f, v, span))
<1>1. Has(f, MapFields) /\ f.anchor \in Anchors \cup {None}
  BY TopFrame DEF IsFrame
<1>2. Has(Entered(L, f, v, span), MapFields) /\ Entered(L, f, v, span).anchor = f.anchor
  BY <1>1, EnteredFacts
<1>3. IsFrame(g) /\ g.f = "key" /\ g.anchor = f.anchor
  BY <1>1, <1>2, NextKeyFacts
<1>. HIDE DEF g
<1>4. g.f = Turn(f.f)
  BY <1>3 DEF Turn
<1>5. IsLoader(SetTop(L, g)) /\ Keeps(L, SetTop(L, g)) /\ Placed(L, SetTop(L, g))
  BY <1>3, <1>4, PlacedFacts
<1>6. ASSUME NEW e \in Refusals, NEW p
      PROVE  IsLoader(Fail(L, e, p)) /\ Keeps(L, Fail(L, e, p)) /\ RefusedNode(L, Fail(L, e, p))
  <2>1. e \notin {"none", "unexpected_end", "outside_document"}
    BY DEF Refusals
  <2>. QED BY <2>1, RefusedFacts
<1>7. \/ PushValue(L, v, span) = SetTop(L, g)
      \/ \E e \in Refusals : \E p : PushValue(L, v, span) = Fail(L, e, p)
  BY PushValueCases DEF g
<1>. QED
  BY <1>5, <1>6, <1>7

\* A node with no frame open is a document.
Rooted(L, M) == M.stack = <<>> /\ M.err = "none" /\ IsSeq(M.docs) /\ Len(M.docs) = Len(L.docs) + 1

LEMMA RootFacts ==
  ASSUME NEW L, IsLoader(L), L.err = "none", L.stack = <<>>, NEW d
  PROVE  LET M == [L EXCEPT !.docs = Append(@, d)]
         IN  IsLoader(M) /\ Keeps(L, M) /\ Rooted(L, M) /\ M.docs = Append(L.docs, d)
<1> DEFINE M == [L EXCEPT !.docs = Append(@, d)]
<1>1. Has(L, LoaderFields) /\ IsSeq(L.docs) /\ IsSeq(L.stack)
  BY DEF IsLoader
<1>2. IsSeq(Append(L.docs, d)) /\ Len(Append(L.docs, d)) = Len(L.docs) + 1
  BY <1>1, AppendSeq
<1>3. /\ Has(M, LoaderFields) /\ Keeps(L, M) /\ M.stack = L.stack /\ M.err = L.err
      /\ M.docs = Append(L.docs, d)
  BY <1>1 DEF Has, LoaderFields, Keeps
<1>. HIDE DEF M
<1>4. IsLoader(M)
  BY <1>1, <1>2, <1>3 DEF IsLoader, Keeps
<1>5. Rooted(L, M)
  BY <1>2, <1>3 DEF Rooted
<1>. QED
  BY <1>3, <1>4, <1>5 DEF M

\* push_node and push_value: a document, or a node for the innermost frame,
\* or an error.
LEMMA PushFacts ==
  ASSUME NEW L, IsLoader(L), L.err = "none", NEW v, NEW span, NEW may
  PROVE  LET M == Push(L, v, span, may)
         IN  /\ IsLoader(M) /\ Keeps(L, M)
             /\ L.stack = <<>> => Rooted(L, M)
             /\ L.stack # <<>> => Placed(L, M) \/ RefusedNode(L, M)
<1> DEFINE M == Push(L, v, span, may)
<1>1. CASE L.stack = <<>>
  <2>1. \E d : M = [L EXCEPT !.docs = Append(@, d)]
    BY <1>1 DEF Push, push_node, push_value
  <2>. QED BY <1>1, <2>1, RootFacts
<1>2. CASE L.stack # <<>>
  <2>1. Last(L.stack).f \in {"seq", "key", "value"}
    BY <1>2, TopFrame DEF IsFrame
  <2>2. CASE Last(L.stack).f = "seq"
    <3>1. \E spans : M = PushItem(L, v, spans)
      BY <1>2, <2>2 DEF Push, push_node, push_value
    <3>. QED BY <1>2, <2>2, <3>1, PushItemFacts
  <2>3. CASE Last(L.stack).f = "key"
    <3>1. \E key_span, start : M = PushKey(L, v, may, key_span, start)
      BY <1>2, <2>3 DEF Push, push_node, push_value
    <3>. QED BY <1>2, <2>3, <3>1, PushKeyFacts
  <2>4. CASE Last(L.stack).f = "value"
    <3>1. M = PushValue(L, v, span)
      BY <1>2, <2>4 DEF Push, push_node, push_value
    <3>. QED BY <1>2, <2>4, <3>1, PushValueFacts
  <2>. QED BY <2>1, <2>2, <2>3, <2>4
<1>. QED
  BY <1>1, <1>2

-----------------------------------------------------------------------------
(* Events, one loader at a time.                                           *)

\* The outcome of an event that hands over a node.
Step(L, M) ==
  \/ RefusedNode(L, M)
  \/ L.stack = <<>> /\ Rooted(L, M)
  \/ L.stack # <<>> /\ Placed(L, M)

LEMMA PushStep ==
  ASSUME NEW L, IsLoader(L), L.err = "none", NEW v, NEW span, NEW may
  PROVE  LET M == Push(L, v, span, may) IN IsLoader(M) /\ Keeps(L, M) /\ Step(L, M)
BY PushFacts DEF Step

\* A step that starts from a loader with the same frames and documents.
LEMMA StepFrom ==
  ASSUME NEW L, NEW K, NEW M, K.stack = L.stack, K.docs = L.docs, Step(K, M)
  PROVE  Step(L, M)
BY DEF Step, RefusedNode, Rooted, Placed

LEMMA DefineSpanFacts ==
  ASSUME NEW L, IsLoader(L), NEW anchor \in Anchors \cup {None}, NEW pos \in Nat
  PROVE  LET M == DefineSpan(L, anchor, pos)
         IN  /\ IsLoader(M) /\ M.spanned = L.spanned /\ M.docs = L.docs /\ M.stack = L.stack
             /\ M.anchor_map = L.anchor_map /\ M.alias_bytes = L.alias_bytes
             /\ M.depth = L.depth /\ M.in_document = L.in_document /\ M.err = L.err
             /\ \A a \in Anchors :
                  M.anchor_def_spans[a] = IF a = anchor THEN pos ELSE L.anchor_def_spans[a]
<1> DEFINE M == DefineSpan(L, anchor, pos)
           t == [L.anchor_def_spans EXCEPT ![anchor] = pos]
<1>1. Has(L, LoaderFields) /\ L.anchor_def_spans \in [Anchors -> Nat]
  BY DEF IsLoader
<1>2. CASE anchor = None
  BY <1>2, LoaderAssumption DEF DefineSpan
<1>3. CASE anchor # None
  <2>1. M = [L EXCEPT !.anchor_def_spans = t]
    BY <1>3 DEF DefineSpan
  <2>2. t \in [Anchors -> Nat] /\ \A a \in Anchors : t[a] = IF a = anchor THEN pos ELSE L.anchor_def_spans[a]
    BY <1>1, <1>3
  <2>. HIDE DEF t, M
  <2>3. /\ Has(M, LoaderFields) /\ M.spanned = L.spanned /\ M.docs = L.docs
        /\ M.stack = L.stack /\ M.anchor_map = L.anchor_map /\ M.alias_bytes = L.alias_bytes
        /\ M.depth = L.depth /\ M.in_document = L.in_document /\ M.err = L.err
        /\ M.anchor_def_spans = t
    BY <1>1, <2>1 DEF Has, LoaderFields
  <2>4. IsLoader(M)
    BY <2>2, <2>3 DEF IsLoader
  <2>. QED BY <2>2, <2>3, <2>4 DEF M
<1>. QED
  BY <1>2, <1>3

\* What defining an anchor leaves alone.
SpanKeeps(L, M) ==
  /\ M.spanned = L.spanned /\ M.docs = L.docs /\ M.stack = L.stack
  /\ M.alias_bytes = L.alias_bytes /\ M.depth = L.depth
  /\ M.in_document = L.in_document /\ M.err = L.err

LEMMA DefineSpanKeeps ==
  ASSUME NEW L, IsLoader(L), NEW anchor \in Anchors \cup {None}, NEW pos \in Nat
  PROVE  /\ IsLoader(DefineSpan(L, anchor, pos))
         /\ SpanKeeps(L, DefineSpan(L, anchor, pos))
BY DefineSpanFacts DEF SpanKeeps

LEMMA DefineAnchorFacts ==
  ASSUME NEW L, IsLoader(L), NEW anchor \in Anchors \cup {None}, NEW v, NEW start
  PROVE  LET M == DefineAnchor(L, anchor, v, start)
         IN  /\ IsLoader(M) /\ M.spanned = L.spanned /\ M.docs = L.docs /\ M.stack = L.stack
             /\ M.anchor_def_spans = L.anchor_def_spans /\ M.alias_bytes = L.alias_bytes
             /\ M.depth = L.depth /\ M.in_document = L.in_document /\ M.err = L.err
             /\ \A a \in Anchors :
                  /\ a \in DOMAIN M.anchor_map <=> a = anchor \/ a \in DOMAIN L.anchor_map
                  /\ a = anchor => M.anchor_map[a].val = v
                  /\ a # anchor /\ a \in DOMAIN L.anchor_map => M.anchor_map[a] = L.anchor_map[a]
<1> DEFINE M == DefineAnchor(L, anchor, v, start)
           t == [a \in DOMAIN L.anchor_map \cup {anchor} |->
                   IF a = anchor THEN [val |-> v, start |-> start] ELSE L.anchor_map[a]]
<1>1. Has(L, LoaderFields)
  BY DEF IsLoader
<1>2. CASE anchor = None
  BY <1>2, LoaderAssumption DEF DefineAnchor
<1>3. CASE anchor # None
  <2>1. M = [L EXCEPT !.anchor_map = t]
    BY <1>3 DEF DefineAnchor
  <2>2. \A a \in Anchors :
          /\ a \in DOMAIN t <=> a = anchor \/ a \in DOMAIN L.anchor_map
          /\ a = anchor => t[a].val = v
          /\ a # anchor /\ a \in DOMAIN L.anchor_map => t[a] = L.anchor_map[a]
    OBVIOUS
  <2>. HIDE DEF t, M
  <2>3. /\ Has(M, LoaderFields) /\ M.spanned = L.spanned /\ M.docs = L.docs
        /\ M.stack = L.stack /\ M.anchor_def_spans = L.anchor_def_spans
        /\ M.alias_bytes = L.alias_bytes
        /\ M.depth = L.depth /\ M.in_document = L.in_document /\ M.err = L.err
        /\ M.anchor_map = t
    BY <1>1, <2>1 DEF Has, LoaderFields
  <2>4. IsLoader(M)
    BY <2>3 DEF IsLoader
  <2>. QED BY <2>2, <2>3, <2>4 DEF M
<1>. QED
  BY <1>2, <1>3

LEMMA DefineAnchorKeeps ==
  ASSUME NEW L, IsLoader(L), NEW anchor \in Anchors \cup {None}, NEW v, NEW start
  PROVE  LET M == DefineAnchor(L, anchor, v, start)
         IN  IsLoader(M) /\ SpanKeeps(L, M) /\ M.anchor_def_spans = L.anchor_def_spans
BY DefineAnchorFacts DEF SpanKeeps

LEMMA PopFacts ==
  ASSUME NEW L, IsLoader(L), L.stack # <<>>
  PROVE  LET M == Pop(L)
         IN  /\ IsLoader(M) /\ M.spanned = L.spanned /\ M.docs = L.docs
             /\ M.anchor_map = L.anchor_map /\ M.anchor_def_spans = L.anchor_def_spans
             /\ M.alias_bytes = L.alias_bytes /\ M.in_document = L.in_document
             /\ M.err = L.err /\ M.depth = IF L.depth = 0 THEN 0 ELSE L.depth - 1
             /\ Len(M.stack) = Len(L.stack) - 1
             /\ \A i \in 1 .. Len(L.stack) - 1 : M.stack[i] = L.stack[i]
<1> DEFINE M == Pop(L)
           t == Front(L.stack)
           d == IF L.depth = 0 THEN 0 ELSE L.depth - 1
<1>1. Has(L, LoaderFields) /\ IsSeq(L.stack) /\ L.depth \in Nat
  BY DEF IsLoader
<1>2. /\ IsSeq(t) /\ Len(t) = Len(L.stack) - 1
      /\ \A i \in 1 .. Len(L.stack) - 1 : t[i] = L.stack[i]
  BY <1>1, FrontSeq DEF Front
<1>3. M = [L EXCEPT !.stack = t, !.depth = d]
  BY DEF Pop
<1>4. d \in Nat
  BY <1>1
<1>. HIDE DEF t, M, d
<1>5. /\ Has(M, LoaderFields) /\ M.spanned = L.spanned /\ M.docs = L.docs
      /\ M.anchor_map = L.anchor_map /\ M.anchor_def_spans = L.anchor_def_spans
      /\ M.alias_bytes = L.alias_bytes /\ M.in_document = L.in_document
      /\ M.err = L.err /\ M.depth = d /\ M.stack = t
  BY <1>1, <1>3 DEF Has, LoaderFields
<1>6. \A i \in DOMAIN t : IsFrame(t[i])
  <2>1. DOMAIN t = 1 .. Len(L.stack) - 1
    BY <1>2, SeqFacts
  <2>2. Len(L.stack) \in Nat /\ Len(L.stack) >= 1 /\ DOMAIN L.stack = 1 .. Len(L.stack)
    BY TopFrame
  <2>3. \A i \in 1 .. Len(L.stack) - 1 : i \in 1 .. Len(L.stack)
    BY <2>2, Before, Zenon
  <2>. QED BY <1>2, <2>1, <2>2, <2>3 DEF IsLoader
<1>7. IsLoader(M)
  BY <1>2, <1>4, <1>5, <1>6 DEF IsLoader
<1>. QED
  BY <1>2, <1>5, <1>7 DEF M, d

\* A scalar: the anchor means it, and it is pushed.
LEMMA ScalarFacts ==
  ASSUME NEW L, IsLoader(L), L.err = "none", NEW s, s.anchor \in Anchors \cup {None},
         NEW pos \in Nat
  PROVE  LET M == Scalar(L, s, pos)
         IN  /\ IsLoader(M) /\ Step(L, M) /\ M.spanned = L.spanned
             /\ M.depth = L.depth /\ M.in_document = L.in_document
             /\ \A a \in Anchors :
                  /\ a \in DOMAIN M.anchor_map <=> a = s.anchor \/ a \in DOMAIN L.anchor_map
                  /\ a = s.anchor => M.anchor_map[a].val = s.val
                  /\ a # s.anchor /\ a \in DOMAIN L.anchor_map => M.anchor_map[a] = L.anchor_map[a]
                  /\ M.anchor_def_spans[a] = IF a = s.anchor THEN pos ELSE L.anchor_def_spans[a]
<1> DEFINE J == DefineSpan(L, s.anchor, pos)
           K == DefineAnchor(J, s.anchor, s.val, pos)
           M == Scalar(L, s, pos)
<1>1. /\ IsLoader(J) /\ J.spanned = L.spanned /\ J.docs = L.docs /\ J.stack = L.stack
      /\ J.anchor_map = L.anchor_map
      /\ J.depth = L.depth /\ J.in_document = L.in_document /\ J.err = L.err
      /\ \A a \in Anchors :
           J.anchor_def_spans[a] = IF a = s.anchor THEN pos ELSE L.anchor_def_spans[a]
  BY DefineSpanFacts, SMTT(30)
<1>. HIDE DEF J
<1>2. /\ IsLoader(K) /\ K.spanned = J.spanned /\ K.docs = J.docs /\ K.stack = J.stack
      /\ K.anchor_def_spans = J.anchor_def_spans
      /\ K.depth = J.depth /\ K.in_document = J.in_document /\ K.err = J.err
      /\ \A a \in Anchors :
           /\ a \in DOMAIN K.anchor_map <=> a = s.anchor \/ a \in DOMAIN J.anchor_map
           /\ a = s.anchor => K.anchor_map[a].val = s.val
           /\ a # s.anchor /\ a \in DOMAIN J.anchor_map => K.anchor_map[a] = J.anchor_map[a]
  BY <1>1, DefineAnchorFacts
<1>3. M = Push(K, s.val, Span(TRUE, pos, pos), s.plain)
  BY DEF Scalar, J
<1>. HIDE DEF K, M
<1>4. IsLoader(M) /\ Keeps(K, M) /\ Step(K, M)
  BY <1>1, <1>2, <1>3, PushStep
<1>5. Step(L, M)
  BY <1>1, <1>2, <1>4, StepFrom
<1>. QED
  BY <1>1, <1>2, <1>4, <1>5 DEF Keeps, M

\* An alias: an error, or the node it names is pushed.
LEMMA AliasFacts ==
  ASSUME NEW L, IsLoader(L), L.err = "none", L.in_document, NEW anchor, NEW pos
  PROVE  LET M == resolve_alias(L, anchor, pos)
         IN  /\ IsLoader(M) /\ Step(L, M) /\ M.spanned = L.spanned
             /\ M.depth = L.depth /\ M.in_document = L.in_document
             /\ M.anchor_map = L.anchor_map /\ M.anchor_def_spans = L.anchor_def_spans
<1> DEFINE known == L.anchor_map[anchor]
           bytes == alias_bytes_total(L.alias_bytes, alias_cost(known.val))
           K == [L EXCEPT !.alias_bytes = bytes]
           M == resolve_alias(L, anchor, pos)
<1>1. Has(L, LoaderFields)
  BY DEF IsLoader
<1>2. /\ Has(K, LoaderFields) /\ K.spanned = L.spanned /\ K.docs = L.docs /\ K.stack = L.stack
      /\ K.anchor_map = L.anchor_map /\ K.anchor_def_spans = L.anchor_def_spans
      /\ K.depth = L.depth /\ K.in_document = L.in_document /\ K.err = L.err
  BY <1>1 DEF Has, LoaderFields
<1>3. \/ \E e \in {"self_reference", "unknown_anchor", "depth"} : \E p : M = Fail(L, e, p)
      \/ M = Fail(K, "alias_bytes", 0)
      \/ M = Push(K, known.val, Span(FALSE, pos, known.start), FALSE)
  BY DEF resolve_alias, missing_anchor
<1>. HIDE DEF K, M, known
<1>4. IsLoader(K)
  BY <1>2 DEF IsLoader
<1>5. ASSUME NEW e \in {"self_reference", "unknown_anchor", "depth"}, NEW p, M = Fail(L, e, p)
      PROVE  IsLoader(M) /\ Step(L, M) /\ Keeps(L, M)
  BY <1>5, RefusedFacts DEF Step
<1>6. CASE M = Fail(K, "alias_bytes", 0)
  <2>1. IsLoader(M) /\ Step(K, M) /\ Keeps(K, M)
    BY <1>4, <1>6, RefusedFacts DEF Step
  <2>2. Step(L, M)
    BY <1>2, <2>1, StepFrom
  <2>. QED BY <1>2, <2>1, <2>2 DEF Keeps, M
<1>7. CASE M = Push(K, known.val, Span(FALSE, pos, known.start), FALSE)
  <2>1. IsLoader(M) /\ Step(K, M) /\ Keeps(K, M)
    BY <1>2, <1>4, <1>7, PushStep
  <2>2. Step(L, M)
    BY <1>2, <2>1, StepFrom
  <2>. QED BY <1>2, <2>1, <2>2 DEF Keeps, M
<1>. QED
  BY <1>3, <1>5, <1>6, <1>7 DEF Keeps, M

\* A collection opens: an error, or one more frame.
LEMMA StartFacts ==
  ASSUME NEW L, IsLoader(L), L.err = "none", NEW c, c.anchor \in Anchors \cup {None},
         NEW frame, IsFrame(frame), frame.start \in Nat
  PROVE  LET M == CollectionStart(L, c, frame)
         IN  /\ IsLoader(M) /\ M.spanned = L.spanned /\ M.in_document = L.in_document
             /\ M.docs = L.docs /\ M.anchor_map = L.anchor_map /\ M.alias_bytes = L.alias_bytes
             /\ \/ M.err = "depth" /\ M.anchor_def_spans = L.anchor_def_spans
                \/ /\ M.err = "none" /\ M.depth = L.depth + 1
                   /\ M.stack = Append(L.stack, frame)
                   /\ \A a \in Anchors : M.anchor_def_spans[a] =
                        IF a = c.anchor THEN frame.start ELSE L.anchor_def_spans[a]
<1> DEFINE J == [L EXCEPT !.depth = @ + 1]
           K == DefineSpan(J, c.anchor, frame.start)
           N == [K EXCEPT !.stack = Append(@, frame)]
           M == CollectionStart(L, c, frame)
<1>1. Has(L, LoaderFields) /\ L.depth \in Nat
  BY DEF IsLoader
<1>2. /\ Has(J, LoaderFields) /\ J.spanned = L.spanned /\ J.docs = L.docs /\ J.stack = L.stack
      /\ J.anchor_map = L.anchor_map /\ J.anchor_def_spans = L.anchor_def_spans
      /\ J.alias_bytes = L.alias_bytes
      /\ J.depth = L.depth + 1 /\ J.in_document = L.in_document /\ J.err = L.err
  BY <1>1 DEF Has, LoaderFields
<1>3. M = IF depth_exceeded(J.depth, MaxDepth) THEN Fail(J, "depth", 0) ELSE N
  BY DEF CollectionStart
<1>. HIDE DEF J, N, M
<1>4. IsLoader(J)
  BY <1>1, <1>2 DEF IsLoader
<1>5. CASE depth_exceeded(J.depth, MaxDepth)
  <2>1. IsLoader(M) /\ Keeps(J, M) /\ M.docs = J.docs /\ M.err = "depth"
    BY <1>3, <1>4, <1>5, FailFacts
  <2>. QED BY <1>2, <2>1 DEF Keeps, M
<1>6. CASE ~depth_exceeded(J.depth, MaxDepth)
  <2>1. /\ IsLoader(K) /\ K.spanned = J.spanned /\ K.docs = J.docs /\ K.stack = J.stack
        /\ K.anchor_map = J.anchor_map /\ K.alias_bytes = J.alias_bytes
        /\ K.depth = J.depth /\ K.in_document = J.in_document /\ K.err = J.err
        /\ \A a \in Anchors :
             K.anchor_def_spans[a] = IF a = c.anchor THEN frame.start ELSE J.anchor_def_spans[a]
    BY <1>4, DefineSpanFacts
  <2>. HIDE DEF K
  <2>2. Has(K, LoaderFields) /\ IsSeq(K.stack) /\ M = N
    BY <1>3, <1>6, <2>1 DEF IsLoader
  <2>3. /\ Has(N, LoaderFields) /\ N.spanned = K.spanned /\ N.docs = K.docs
        /\ N.stack = Append(K.stack, frame)
        /\ N.anchor_map = K.anchor_map /\ N.anchor_def_spans = K.anchor_def_spans
        /\ N.alias_bytes = K.alias_bytes
        /\ N.depth = K.depth /\ N.in_document = K.in_document /\ N.err = K.err
    BY <2>2 DEF N, Has, LoaderFields
  <2>4. /\ IsSeq(Append(K.stack, frame)) /\ Len(Append(K.stack, frame)) = Len(K.stack) + 1
        /\ \A i \in 1 .. Len(K.stack) : Append(K.stack, frame)[i] = K.stack[i]
        /\ Append(K.stack, frame)[Len(K.stack) + 1] = frame
    BY <2>2, AppendSeq
  <2>5. \A i \in DOMAIN N.stack : IsFrame(N.stack[i])
    <3>1. DOMAIN N.stack = 1 .. Len(K.stack) + 1 /\ Len(K.stack) \in Nat /\ DOMAIN K.stack = 1 .. Len(K.stack)
      BY <2>2, <2>3, <2>4, SeqFacts
    <3>2. ASSUME NEW i \in 1 .. Len(K.stack) + 1 PROVE IsFrame(N.stack[i])
      <4>1. i \in 1 .. Len(K.stack) \/ i = Len(K.stack) + 1
        BY <3>1
      <4>2. \A j \in 1 .. Len(K.stack) : IsFrame(K.stack[j])
        BY <2>1, <3>1 DEF IsLoader
      <4>. QED BY <2>3, <2>4, <4>1, <4>2
    <3>. QED BY <3>1, <3>2
  <2>6. IsLoader(N)
    BY <2>1, <2>3, <2>4, <2>5 DEF IsLoader
  <2>. QED BY <1>2, <2>1, <2>2, <2>3, <2>6 DEF M
<1>. QED
  BY <1>5, <1>6

\* What a completed collection leaves: its frame is gone, its anchor means it,
\* and it was handed to the frame below.
Ended(L, M, v) ==
  LET f == Last(L.stack) IN
  /\ IsLoader(M) /\ Step(Pop(L), M) /\ M.spanned = L.spanned
  /\ M.depth = Pop(L).depth /\ M.in_document = L.in_document
  /\ M.anchor_def_spans = L.anchor_def_spans
  /\ M.err = "none" => \A a \in Anchors :
       /\ a \in DOMAIN M.anchor_map <=> a = f.anchor \/ a \in DOMAIN L.anchor_map
       /\ a = f.anchor => M.anchor_map[a].val = v
       /\ a # f.anchor /\ a \in DOMAIN L.anchor_map => M.anchor_map[a] = L.anchor_map[a]

LEMMA CompletedFacts ==
  ASSUME NEW L, IsLoader(L), L.err = "none", L.stack # <<>>, NEW inner
  PROVE  Ended(L, Completed(L, Last(L.stack), inner), wrap_with_tag(inner, Last(L.stack).tag))
<1> DEFINE f == Last(L.stack)
           v == wrap_with_tag(inner, f.tag)
           J == Pop(L)
           K == DefineAnchor(J, f.anchor, v, f.start)
           M == Completed(L, f, inner)
<1>1. f.anchor \in Anchors \cup {None}
  BY TopFrame DEF IsFrame
<1>2. /\ IsLoader(J) /\ J.spanned = L.spanned /\ J.docs = L.docs
      /\ J.anchor_map = L.anchor_map /\ J.anchor_def_spans = L.anchor_def_spans
      /\ J.in_document = L.in_document /\ J.err = L.err
  BY PopFacts
<1>. HIDE DEF v, J
<1>3. /\ IsLoader(K) /\ K.spanned = J.spanned /\ K.docs = J.docs /\ K.stack = J.stack
      /\ K.anchor_def_spans = J.anchor_def_spans
      /\ K.depth = J.depth /\ K.in_document = J.in_document /\ K.err = J.err
      /\ \A a \in Anchors :
           /\ a \in DOMAIN K.anchor_map <=> a = f.anchor \/ a \in DOMAIN J.anchor_map
           /\ a = f.anchor => K.anchor_map[a].val = v
           /\ a # f.anchor /\ a \in DOMAIN J.anchor_map => K.anchor_map[a] = J.anchor_map[a]
  BY <1>1, <1>2, DefineAnchorFacts
<1>4. M = Push(K, v, Span(FALSE, f.start, f.start), FALSE)
  BY DEF Completed, J, v
<1>. HIDE DEF K, M
<1>5. IsLoader(M) /\ Keeps(K, M) /\ Step(K, M)
  BY <1>2, <1>3, <1>4, PushStep
<1>6. Step(J, M)
  BY <1>3, <1>5, StepFrom
<1>7. Ended(L, M, v)
  BY <1>2, <1>3, <1>5, <1>6 DEF Keeps, Ended, J
<1>. QED
  BY <1>7 DEF M, v

LEMMA SequenceEndFacts ==
  ASSUME NEW L, IsLoader(L), L.err = "none", L.stack # <<>>, Last(L.stack).f = "seq", NEW pos
  PROVE  Ended(L, SequenceEnd(L, pos),
               wrap_with_tag(SequenceOf(Last(L.stack).items), Last(L.stack).tag))
BY CompletedFacts DEF SequenceEnd, Innermost

LEMMA MappingEndFacts ==
  ASSUME NEW L, IsLoader(L), L.err = "none", L.stack # <<>>, Last(L.stack).f = "key", NEW pos
  PROVE  Ended(L, MappingEnd(L, pos),
               wrap_with_tag(MappingOf(Merged(Last(L.stack))), Last(L.stack).tag))
<1> DEFINE M == MappingEnd(L, pos)
           J == Pop(L)
<1>1. \/ M = Completed(L, Last(L.stack), MappingOf(Merged(Last(L.stack))))
      \/ M = Fail(J, "scalar_in_merge", 0)
  BY DEF MappingEnd, Innermost
<1>2. /\ IsLoader(J) /\ J.spanned = L.spanned /\ J.docs = L.docs
      /\ J.anchor_map = L.anchor_map /\ J.anchor_def_spans = L.anchor_def_spans
      /\ J.in_document = L.in_document /\ J.err = L.err
  BY PopFacts
<1>. HIDE DEF M, J
<1>3. CASE M = Fail(J, "scalar_in_merge", 0)
  <2>1. IsLoader(M) /\ Keeps(J, M) /\ RefusedNode(J, M)
    BY <1>2, <1>3, RefusedFacts
  <2>2. M.err # "none"
    BY <2>1 DEF RefusedNode
  <2>3. Step(J, M)
    BY <2>1 DEF Step
  <2>4. Ended(L, M, wrap_with_tag(MappingOf(Merged(Last(L.stack))), Last(L.stack).tag))
    BY <1>2, <2>1, <2>2, <2>3 DEF Ended, Keeps, J
  <2>. QED BY <2>4 DEF M
<1>4. CASE M = Completed(L, Last(L.stack), MappingOf(Merged(Last(L.stack))))
  BY <1>4, CompletedFacts DEF M
<1>. QED
  BY <1>1, <1>3, <1>4

LEMMA DocumentStartFacts ==
  ASSUME NEW L, IsLoader(L)
  PROVE  LET M == DocumentStart(L)
         IN  /\ IsLoader(M) /\ M.spanned = L.spanned /\ M.docs = L.docs /\ M.stack = L.stack
             /\ M.anchor_map = NoAnchors /\ M.anchor_def_spans = [a \in Anchors |-> 0]
             /\ M.alias_bytes = 0 /\ M.depth = L.depth /\ M.in_document = TRUE /\ M.err = L.err
<1> DEFINE M == DocumentStart(L)
<1>1. Has(L, LoaderFields)
  BY DEF IsLoader
<1>2. /\ Has(M, LoaderFields) /\ M.spanned = L.spanned /\ M.docs = L.docs /\ M.stack = L.stack
      /\ M.anchor_map = NoAnchors /\ M.anchor_def_spans = [a \in Anchors |-> 0]
      /\ M.alias_bytes = 0 /\ M.depth = L.depth /\ M.in_document = TRUE /\ M.err = L.err
  BY <1>1 DEF Has, LoaderFields, DocumentStart
<1>. HIDE DEF M
<1>3. [a \in Anchors |-> 0] \in [Anchors -> Nat]
  OBVIOUS
<1>4. IsLoader(M)
  BY <1>2, <1>3 DEF IsLoader
<1>. QED
  BY <1>2, <1>4 DEF M

LEMMA DocumentEndFacts ==
  ASSUME NEW L, IsLoader(L)
  PROVE  LET M == DocumentEnd(L)
         IN  /\ IsLoader(M) /\ M.spanned = L.spanned /\ M.docs = L.docs /\ M.stack = L.stack
             /\ M.anchor_map = L.anchor_map /\ M.anchor_def_spans = L.anchor_def_spans
             /\ M.alias_bytes = L.alias_bytes
             /\ M.depth = L.depth /\ M.in_document = FALSE /\ M.err = L.err
<1> DEFINE M == DocumentEnd(L)
<1>1. Has(L, LoaderFields)
  BY DEF IsLoader
<1>2. /\ Has(M, LoaderFields) /\ M.spanned = L.spanned /\ M.docs = L.docs /\ M.stack = L.stack
      /\ M.anchor_map = L.anchor_map /\ M.anchor_def_spans = L.anchor_def_spans
      /\ M.alias_bytes = L.alias_bytes
      /\ M.depth = L.depth /\ M.in_document = FALSE /\ M.err = L.err
  BY <1>1 DEF Has, LoaderFields, DocumentEnd
<1>. HIDE DEF M
<1>3. IsLoader(M)
  BY <1>2 DEF IsLoader
<1>. QED
  BY <1>2, <1>3 DEF M

-----------------------------------------------------------------------------
(* The frames follow the events.                                           *)

LEMMA PlaceFacts ==
  ASSUME NEW o \in Seq(Kind), o # <<>>
  PROVE  /\ Place(o) \in Seq(Kind) /\ Len(Place(o)) = Len(o) /\ Place(o) # <<>>
         /\ Len(o) \in Nat /\ Len(o) >= 1 /\ DOMAIN o = 1 .. Len(o)
         /\ \A i \in 1 .. Len(o) - 1 : Place(o)[i] = o[i]
         /\ Place(o)[Len(o)] = Turn(o[Len(o)])
<1>1. Len(o) \in Nat /\ DOMAIN o = 1 .. Len(o) /\ Len(o) >= 1 /\ Len(o) \in 1 .. Len(o)
  OBVIOUS
<1>2. o[Len(o)] \in Kind
  BY <1>1
<1>3. Turn(o[Len(o)]) \in Kind
  BY <1>2 DEF Turn, Kind
<1>4. Place(o) = [o EXCEPT ![Len(o)] = Turn(o[Len(o)])]
  BY DEF Place
<1>. HIDE DEF Kind
<1>5. Place(o) \in Seq(Kind) /\ Len(Place(o)) = Len(o)
  BY <1>1, <1>3, <1>4
<1>6. /\ \A i \in 1 .. Len(o) - 1 : Place(o)[i] = o[i]
      /\ Place(o)[Len(o)] = Turn(o[Len(o)])
  <2>1. \A i \in 1 .. Len(o) - 1 : i \in 1 .. Len(o) /\ i # Len(o)
    BY <1>1, Before, Zenon
  <2>. QED BY <1>1, <1>4, <2>1, Zenon
<1>7. Place(o) # <<>>
  BY <1>1, <1>5
<1>. QED
  BY <1>1, <1>5, <1>6, <1>7

\* A node placed in a frame is placed in its collection.
LEMMA PlacedMatch ==
  ASSUME NEW L, NEW M, IsLoader(L), IsLoader(M), NEW o \in Seq(Kind), o # <<>>,
         Match(L, o), L.stack # <<>>, Placed(L, M)
  PROVE  Match(M, Place(o))
<1>1. /\ Len(Place(o)) = Len(o) /\ Len(o) \in Nat /\ Len(o) >= 1
      /\ DOMAIN o = 1 .. Len(o) /\ DOMAIN Place(o) = 1 .. Len(o)
      /\ \A i \in 1 .. Len(o) - 1 : Place(o)[i] = o[i]
      /\ Place(o)[Len(o)] = Turn(o[Len(o)])
  BY PlaceFacts
<1>2. /\ Len(L.stack) = Len(o) /\ Len(M.stack) = Len(o)
      /\ \A i \in 1 .. Len(o) - 1 : M.stack[i] = L.stack[i]
      /\ Last(M.stack).f = Turn(Last(L.stack).f)
  BY DEF Match, Placed
<1>3. Last(M.stack) = M.stack[Len(o)] /\ Last(L.stack) = L.stack[Len(o)]
  BY <1>2 DEF Last
<1>4. ASSUME NEW i \in 1 .. Len(o)
      PROVE  Place(o)[i] = IF i = Len(o) THEN M.stack[i].f ELSE Turn(M.stack[i].f)
  <2>1. o[i] = IF i = Len(o) THEN L.stack[i].f ELSE Turn(L.stack[i].f)
    BY <1>1 DEF Match
  <2>2. CASE i = Len(o)
    BY <1>1, <1>2, <1>3, <2>1, <2>2
  <2>3. CASE i # Len(o)
    <3>1. i \in 1 .. Len(o) - 1
      BY <1>1, <2>3, Before
    <3>. QED BY <1>1, <1>2, <2>1, <2>3, <3>1
  <2>. QED BY <2>2, <2>3
<1>. QED
  BY <1>1, <1>2, <1>4 DEF Match

\* A frame opened is a collection opened.
LEMMA BeginMatch ==
  ASSUME NEW L, NEW M, IsLoader(L), NEW o \in Seq(Kind), Match(L, o),
         NEW frame, M.stack = Append(L.stack, frame)
  PROVE  /\ o = <<>> => Match(M, <<frame.f>>)
         /\ o # <<>> => Match(M, Append(Place(o), frame.f))
<1>1. /\ IsSeq(L.stack) /\ Len(L.stack) = Len(o) /\ Len(o) \in Nat /\ DOMAIN o = 1 .. Len(o)
  BY DEF IsLoader, Match
<1>2. /\ Len(M.stack) = Len(o) + 1
      /\ \A i \in 1 .. Len(o) : M.stack[i] = L.stack[i]
      /\ M.stack[Len(o) + 1] = frame
  BY <1>1, AppendSeq
<1>3. CASE o = <<>>
  <2>1. Len(o) = 0 /\ Len(<<frame.f>>) = 1 /\ DOMAIN <<frame.f>> = 1 .. 1 /\ <<frame.f>>[1] = frame.f
    BY <1>3
  <2>. QED BY <1>2, <1>3, <2>1 DEF Match
<1>4. CASE o # <<>>
  <2> DEFINE q == Append(Place(o), frame.f)
  <2>1. /\ Place(o) \in Seq(Kind) /\ Len(Place(o)) = Len(o)
        /\ \A i \in 1 .. Len(o) - 1 : Place(o)[i] = o[i]
        /\ Place(o)[Len(o)] = Turn(o[Len(o)]) /\ Len(o) >= 1
    BY <1>4, PlaceFacts
  <2>2. IsSeq(Place(o))
    BY <2>1, Zenon DEF IsSeq
  <2>3. /\ IsSeq(q) /\ Len(q) = Len(o) + 1
        /\ \A i \in 1 .. Len(o) : q[i] = Place(o)[i]
        /\ q[Len(o) + 1] = frame.f
    BY <2>1, <2>2, AppendSeq
  <2>. HIDE DEF q
  <2>4. DOMAIN q = 1 .. Len(o) + 1
    BY <2>3, SeqFacts
  <2>5. ASSUME NEW i \in 1 .. Len(o) + 1
        PROVE  q[i] = IF i = Len(o) + 1 THEN M.stack[i].f ELSE Turn(M.stack[i].f)
    <3>1. CASE i = Len(o) + 1
      BY <1>2, <2>3, <3>1
    <3>2. CASE i # Len(o) + 1
      <4>1. i \in 1 .. Len(o)
        BY <1>1, <3>2
      <4>2. o[i] = IF i = Len(o) THEN L.stack[i].f ELSE Turn(L.stack[i].f)
        BY <1>1, <4>1 DEF Match
      <4>3. Place(o)[i] = Turn(L.stack[i].f)
        <5>1. CASE i = Len(o)
          BY <2>1, <4>2, <5>1
        <5>2. CASE i # Len(o)
          <6>1. i \in 1 .. Len(o) - 1
            BY <1>1, <2>1, <4>1, <5>2, Before
          <6>. QED BY <2>1, <4>2, <5>2, <6>1
        <5>. QED BY <5>1, <5>2
      <4>. QED BY <1>2, <2>3, <3>2, <4>1, <4>3
    <3>. QED BY <3>1, <3>2
  <2>6. Match(M, q)
    BY <1>2, <2>3, <2>4, <2>5 DEF Match
  <2>. QED BY <1>4, <2>6 DEF q
<1>. QED
  BY <1>3, <1>4

\* A frame closed is a collection closed, and given to the one around it.
LEMMA EndMatch ==
  ASSUME NEW L, NEW M, IsLoader(L), NEW o \in Seq(Kind), o # <<>>, Match(L, o),
         IsLoader(M), M.err = "none", Step(Pop(L), M)
  PROVE  LET q == SubSeq(o, 1, Len(o) - 1)
         IN  /\ q \in Seq(Kind) /\ Len(q) = Len(o) - 1 /\ Match(M, q)
             /\ Len(M.docs) = IF Len(o) = 1 THEN Len(L.docs) + 1 ELSE Len(L.docs)
<1> DEFINE q == SubSeq(o, 1, Len(o) - 1)
           J == Pop(L)
<1>1. /\ IsSeq(o) /\ IsSeq(L.stack) /\ Len(L.stack) = Len(o) /\ Len(o) \in Nat
      /\ DOMAIN o = 1 .. Len(o) /\ Len(o) >= 1
  <2>1. IsSeq(o)
    BY Zenon DEF IsSeq
  <2>. QED BY <2>1 DEF IsLoader, Match
<1>2. L.stack # <<>>
  BY <1>1, SeqFacts
<1>3. /\ IsLoader(J) /\ Len(J.stack) = Len(o) - 1 /\ J.docs = L.docs
      /\ \A i \in 1 .. Len(o) - 1 : J.stack[i] = L.stack[i]
  BY <1>1, <1>2, PopFacts
<1>4. /\ IsSeq(q) /\ Len(q) = Len(o) - 1 /\ \A i \in 1 .. Len(o) - 1 : q[i] = o[i]
  BY <1>1, FrontSeq
<1>5. q \in Seq(Kind)
  <2>1. \A i \in 1 .. Len(o) - 1 : o[i] \in Kind
    BY <1>1
  <2>. QED BY <1>1, <2>1, SubSeqProperties
<1>. HIDE DEF J, q
<1>6. DOMAIN q = 1 .. Len(o) - 1 /\ Len(o) - 1 \in Nat
  BY <1>1, <1>4, SeqFacts
<1>7. IsSeq(J.stack)
  BY <1>3 DEF IsLoader
<1>8. RefusedNode(J, M) \/ (J.stack = <<>> /\ Rooted(J, M)) \/ (J.stack # <<>> /\ Placed(J, M))
  BY DEF Step, J
<1>9. CASE J.stack = <<>>
  <2>1. Len(o) = 1
    <3>1. Len(o) - 1 = 0
      BY <1>3, <1>7, <1>9, SeqFacts
    <3>. QED BY <1>1, <3>1, Before, Zenon
  <2>2. M.stack = <<>> /\ Len(M.docs) = Len(L.docs) + 1
    BY <1>3, <1>8, <1>9 DEF RefusedNode, Rooted
  <2>3. Len(q) = 0 /\ DOMAIN q = {}
    BY <1>4, <1>6, <2>1
  <2>4. Match(M, q)
    BY <2>2, <2>3, NoneSeq DEF Match
  <2>. QED BY <1>4, <1>5, <2>1, <2>2, <2>4 DEF q
<1>10. CASE J.stack # <<>>
  <2>1. Len(o) # 1
    <3>1. Len(o) - 1 # 0
      BY <1>3, <1>7, <1>10, SeqFacts
    <3>. QED BY <1>1, <3>1, Before, Zenon
  <2>2. Placed(J, M)
    BY <1>8, <1>10 DEF RefusedNode
  <2>3. /\ Len(M.stack) = Len(o) - 1 /\ M.docs = L.docs
        /\ \A i \in 1 .. Len(J.stack) - 1 : M.stack[i] = J.stack[i]
        /\ Last(M.stack).f = Turn(Last(J.stack).f)
    BY <1>3, <2>2 DEF Placed
  <2>4. Last(M.stack) = M.stack[Len(J.stack)] /\ Last(J.stack) = J.stack[Len(J.stack)]
    BY <1>3, <2>3 DEF Last
  <2>5. ASSUME NEW i \in 1 .. Len(o) - 1
        PROVE  q[i] = IF i = Len(o) - 1 THEN M.stack[i].f ELSE Turn(M.stack[i].f)
    <3>1. i \in 1 .. Len(o) /\ i # Len(o)
      <4>1. \A j \in 1 .. Len(o) - 1 : j \in 1 .. Len(o) /\ j # Len(o)
        BY <1>1, Before, Zenon
      <4>. QED BY <4>1
    <3>2. q[i] = Turn(J.stack[i].f)
      BY <1>1, <1>3, <1>4, <3>1 DEF Match
    <3>3. CASE i = Len(o) - 1
      BY <1>3, <2>3, <2>4, <3>2, <3>3
    <3>4. CASE i # Len(o) - 1
      <4>1. i \in 1 .. Len(J.stack) /\ Len(J.stack) \in Nat /\ Len(J.stack) >= 1 /\ i # Len(J.stack)
        BY <1>3, <1>6, <3>4
      <4>2. i \in 1 .. Len(J.stack) - 1
        BY <4>1, Before
      <4>. QED BY <2>3, <3>2, <3>4, <4>2
    <3>. QED BY <3>3, <3>4
  <2>6. Match(M, q)
    BY <1>4, <1>6, <2>3, <2>5 DEF Match
  <2>. QED BY <1>4, <1>5, <2>1, <2>3, <2>6 DEF q
<1>. QED
  BY <1>9, <1>10

\* A loader without error has a frame open exactly inside the root node.
LEMMA StackOpen ==
  ASSUME NEW L, NEW ph, NEW o, NEW d, Together(L, ph, o, d), L.err = "none"
  PROVE  /\ o \in Seq(Kind) /\ Match(L, o) /\ L.depth = Len(o) /\ Len(o) \in Nat
         /\ ph = "inside" <=> L.stack # <<>>
         /\ ph = "inside" <=> o # <<>>
         /\ ph = "inside" => Last(L.stack).f = o[Len(o)]
<1>1. o \in Seq(Kind) /\ Match(L, o) /\ L.depth = Len(o) /\ IsSeq(L.stack)
  BY DEF Together, Grammar, Follows, IsLoader
<1>2. (o = <<>> <=> Len(o) = 0) /\ Len(L.stack) = Len(o) /\ Len(o) \in Nat
  BY <1>1 DEF Match
<1>3. L.stack = <<>> <=> o = <<>>
  BY <1>1, <1>2, SeqFacts
<1>4. ph = "inside" <=> o # <<>>
  BY DEF Together, Grammar
<1>5. o # <<>> => Last(L.stack).f = o[Len(o)]
  <2>1. o # <<>> => Len(o) \in DOMAIN o
    BY <1>1
  <2>. QED BY <1>1, <1>2, <2>1 DEF Match, Last
<1>. QED
  BY <1>1, <1>2, <1>3, <1>4, <1>5

LEMMA LeafFollows ==
  ASSUME NEW L, NEW ph, NEW o, NEW d, Together(L, ph, o, d), L.err = "none",
         NEW M, IsLoader(M), Step(L, M), M.depth = L.depth, M.in_document = L.in_document,
         NEW ph2, NEW o2,
         \/ ph = "root" /\ ph2 = "rooted" /\ o2 = <<>>
         \/ ph = "inside" /\ ph2 = "inside" /\ o2 = Place(o)
  PROVE  Together(M, ph2, o2, d)
<1>1. /\ o \in Seq(Kind) /\ Match(L, o) /\ L.depth = Len(o)
      /\ (ph = "inside" <=> L.stack # <<>>) /\ (ph = "inside" <=> o # <<>>)
  BY StackOpen
<1>2. /\ L.in_document <=> ph \in InDocument
      /\ Len(L.docs) = IF ph \in {"root", "inside"} THEN d - 1 ELSE d
      /\ IsLoader(L) /\ d \in Nat
  BY DEF Together, Follows
<1>3. Grammar(ph2, o2)
  <2>1. <<>> \in Seq(Kind)
    BY EmptySeq
  <2>2. o # <<>> => Place(o) \in Seq(Kind) /\ Place(o) # <<>>
    BY <1>1, PlaceFacts
  <2>. QED BY <1>1, <2>1, <2>2 DEF Grammar
<1>4. CASE RefusedNode(L, M)
  <2>1. M.err \notin Impossible /\ M.err # "none"
    BY <1>4 DEF RefusedNode, Impossible
  <2>. QED BY <1>2, <1>3, <2>1 DEF Together, Follows
<1>5. CASE L.stack = <<>> /\ Rooted(L, M)
  <2>1. ph = "root" /\ ph2 = "rooted" /\ o2 = <<>> /\ o = <<>>
    BY <1>1, <1>5
  <2>2. M.stack = <<>> /\ M.err = "none" /\ Len(M.docs) = d
    BY <1>2, <1>5, <2>1 DEF Rooted
  <2>3. Match(M, o2)
    BY <2>1, <2>2, NoneSeq DEF Match
  <2>4. M.in_document <=> ph2 \in InDocument
    BY <1>2, <2>1 DEF InDocument
  <2>5. M.err \notin Impossible
    BY <2>2 DEF Impossible
  <2>. QED BY <1>1, <1>2, <1>3, <2>1, <2>2, <2>3, <2>4, <2>5 DEF Together, Follows
<1>6. CASE L.stack # <<>> /\ Placed(L, M)
  <2>1. ph = "inside" /\ ph2 = "inside" /\ o2 = Place(o) /\ o # <<>>
    BY <1>1, <1>6
  <2>2. Match(M, o2) /\ Len(o2) = Len(o)
    BY <1>1, <1>2, <1>6, <2>1, PlacedMatch, PlaceFacts
  <2>3. M.err = "none" /\ M.docs = L.docs
    BY <1>6 DEF Placed
  <2>4. M.in_document <=> ph2 \in InDocument
    BY <1>2, <2>1 DEF InDocument
  <2>5. M.err \notin Impossible
    BY <2>3 DEF Impossible
  <2>. QED BY <1>1, <1>2, <1>3, <2>1, <2>2, <2>3, <2>4, <2>5 DEF Together, Follows
<1>. QED
  BY <1>4, <1>5, <1>6 DEF Step

LEMMA BeginFollows ==
  ASSUME NEW L, NEW ph, NEW o, NEW d, Together(L, ph, o, d), L.err = "none",
         NEW M, IsLoader(M), NEW frame, frame.f \in Kind,
         M.in_document = L.in_document, M.docs = L.docs,
         \/ M.err = "depth"
         \/ M.err = "none" /\ M.depth = L.depth + 1 /\ M.stack = Append(L.stack, frame),
         NEW o2,
         \/ ph = "root" /\ o2 = <<frame.f>>
         \/ ph = "inside" /\ o2 = Append(Place(o), frame.f)
  PROVE  Together(M, "inside", o2, d)
<1>1. /\ o \in Seq(Kind) /\ Match(L, o) /\ L.depth = Len(o) /\ Len(o) \in Nat
      /\ ph = "inside" <=> o # <<>>
  BY StackOpen
<1>2. /\ L.in_document <=> ph \in InDocument
      /\ Len(L.docs) = IF ph \in {"root", "inside"} THEN d - 1 ELSE d
      /\ IsLoader(L) /\ d \in Nat
  BY DEF Together, Follows
<1>3. o2 \in Seq(Kind) /\ o2 # <<>> /\ Len(o2) = Len(o) + 1
  <2>1. CASE ph = "root"
    <3>1. o = <<>> /\ o2 = <<frame.f>>
      BY <1>1, <2>1
    <3>2. Len(o) = 0
      BY <3>1
    <3>. HIDE DEF Kind
    <3>3. <<frame.f>> \in Seq(Kind) /\ Len(<<frame.f>>) = 1 /\ <<frame.f>> # <<>>
      OBVIOUS
    <3>. QED BY <3>1, <3>2, <3>3
  <2>2. CASE ph = "inside"
    <3>1. Place(o) \in Seq(Kind) /\ Len(Place(o)) = Len(o)
      BY <1>1, <2>2, PlaceFacts
    <3>. HIDE DEF Kind
    <3>2. Append(Place(o), frame.f) \in Seq(Kind) /\ Len(Append(Place(o), frame.f)) = Len(o) + 1
      BY <3>1, AppendProperties
    <3>. QED BY <1>1, <2>2, <3>2
  <2>. QED BY <2>1, <2>2
<1>4. Grammar("inside", o2)
  BY <1>3 DEF Grammar
<1>5. CASE M.err = "depth"
  <2>1. M.err \notin Impossible /\ M.err # "none"
    BY <1>5 DEF Impossible
  <2>. QED BY <1>2, <1>4, <2>1 DEF Together, Follows
<1>6. CASE M.err = "none" /\ M.depth = L.depth + 1 /\ M.stack = Append(L.stack, frame)
  <2>1. Match(M, o2)
    BY <1>1, <1>2, <1>6, BeginMatch
  <2>2. M.in_document <=> "inside" \in InDocument
    BY <1>2 DEF InDocument
  <2>3. M.err \notin Impossible
    BY <1>6 DEF Impossible
  <2>4. Len(M.docs) = d - 1 /\ M.depth = Len(o2)
    BY <1>1, <1>2, <1>3, <1>6
  <2>. QED BY <1>2, <1>4, <1>6, <2>1, <2>2, <2>3, <2>4 DEF Together, Follows
<1>. QED
  BY <1>5, <1>6

LEMMA FinishFollows ==
  ASSUME NEW L, NEW o, NEW d, Together(L, "inside", o, d), L.err = "none",
         NEW M, NEW v, Ended(L, M, v)
  PROVE  Together(M, IF Len(o) = 1 THEN "rooted" ELSE "inside",
                  SubSeq(o, 1, Len(o) - 1), d)
<1> DEFINE ph2 == IF Len(o) = 1 THEN "rooted" ELSE "inside"
           q == SubSeq(o, 1, Len(o) - 1)
           J == Pop(L)
<1>1. /\ o \in Seq(Kind) /\ Match(L, o) /\ L.depth = Len(o) /\ Len(o) \in Nat
      /\ L.stack # <<>> /\ o # <<>>
  BY StackOpen
<1>2. /\ L.in_document /\ Len(L.docs) = d - 1 /\ IsLoader(L) /\ d \in Nat
  BY DEF Together, Follows, InDocument
<1>3. /\ IsLoader(M) /\ Step(J, M) /\ M.depth = J.depth /\ M.in_document = L.in_document
  BY DEF Ended
<1>4. /\ J.depth = IF L.depth = 0 THEN 0 ELSE L.depth - 1
      /\ IsLoader(J) /\ J.docs = L.docs
  BY <1>1, <1>2, PopFacts
<1>5. Len(o) >= 1
  BY <1>1
<1>6. q \in Seq(Kind) /\ Len(q) = Len(o) - 1
  <2>1. \A i \in 1 .. Len(o) - 1 : o[i] \in Kind
    BY <1>1
  <2>2. IsSeq(o)
    BY <1>1, Zenon DEF IsSeq
  <2>3. Len(q) = Len(o) - 1
    BY <1>1, <2>2, FrontSeq
  <2>. QED BY <1>1, <2>1, <2>3, SubSeqProperties
<1>. HIDE DEF q, J, Kind
<1>7. q # <<>> <=> Len(o) # 1
  <2>1. IsSeq(q)
    BY <1>6, Zenon DEF IsSeq
  <2>2. q = <<>> <=> Len(q) = 0
    BY <2>1, SeqFacts
  <2>. QED BY <1>1, <1>5, <1>6, <2>2, Before
<1>8. Grammar(ph2, q)
  BY <1>6, <1>7 DEF Grammar
<1>9. CASE M.err # "none"
  <2>1. M.err \notin Impossible
    BY <1>3, <1>9 DEF Step, RefusedNode, Rooted, Placed, Impossible
  <2>. QED BY <1>2, <1>3, <1>8, <1>9, <2>1 DEF Together, Follows, q
<1>10. CASE M.err = "none"
  <2>1. /\ Match(M, q) /\ Len(M.docs) = IF Len(o) = 1 THEN Len(L.docs) + 1 ELSE Len(L.docs)
    BY <1>1, <1>2, <1>3, <1>10, EndMatch DEF q, J
  <2>2. M.depth = Len(q)
    BY <1>1, <1>3, <1>4, <1>5, <1>6
  <2>3. M.in_document <=> ph2 \in InDocument
    BY <1>2, <1>3 DEF InDocument
  <2>4. Len(M.docs) = IF ph2 \in {"root", "inside"} THEN d - 1 ELSE d
    BY <1>2, <2>1
  <2>5. M.err \notin Impossible
    BY <1>10 DEF Impossible
  <2>. QED BY <1>2, <1>3, <1>8, <1>10, <2>1, <2>2, <2>3, <2>4, <2>5 DEF Together, Follows, q
<1>. QED
  BY <1>9, <1>10

-----------------------------------------------------------------------------
(* An anchor means the node last completed under it.                       *)

\* A node handed over neither opens nor closes a collection.
LEMMA StepInside ==
  ASSUME NEW L, NEW M, IsLoader(L), IsLoader(M), Step(L, M), M.err = "none", NEW a
  PROVE  Inside(M, a) <=> Inside(L, a)
<1>1. CASE L.stack = <<>> /\ Rooted(L, M)
  BY <1>1 DEF Rooted, Inside
<1>2. CASE L.stack # <<>> /\ Placed(L, M)
  <2>1. /\ Len(L.stack) \in Nat /\ Len(L.stack) >= 1 /\ Len(L.stack) \in 1 .. Len(L.stack)
        /\ DOMAIN L.stack = 1 .. Len(L.stack) /\ Last(L.stack) = L.stack[Len(L.stack)]
    BY <1>2, TopFrame
  <2>2. M.stack # <<>> /\ Len(M.stack) = Len(L.stack)
    BY <1>2 DEF Placed
  <2>3. DOMAIN M.stack = 1 .. Len(L.stack) /\ Last(M.stack) = M.stack[Len(L.stack)]
    BY <2>2, TopFrame
  <2>4. ASSUME NEW i \in 1 .. Len(L.stack) PROVE M.stack[i].anchor = L.stack[i].anchor
    <3>1. CASE i = Len(L.stack)
      BY <1>2, <2>1, <2>3, <3>1 DEF Placed
    <3>2. CASE i # Len(L.stack)
      <4>1. i \in 1 .. Len(L.stack) - 1
        BY <2>1, <3>2, Before, Zenon
      <4>. QED BY <1>2, <4>1 DEF Placed
    <3>. QED BY <3>1, <3>2
  <2>. QED BY <2>1, <2>3, <2>4 DEF Inside
<1>. QED
  BY <1>1, <1>2 DEF Step, RefusedNode

\* The collection that closes is the one its anchor was inside.
LEMMA PopInside ==
  ASSUME NEW L, IsLoader(L), L.stack # <<>>, NEW a
  PROVE  Inside(L, a) <=> Inside(Pop(L), a) \/ a = Last(L.stack).anchor
<1> DEFINE J == Pop(L)
<1>1. /\ Len(L.stack) \in Nat /\ Len(L.stack) >= 1 /\ Len(L.stack) \in 1 .. Len(L.stack)
      /\ DOMAIN L.stack = 1 .. Len(L.stack) /\ Last(L.stack) = L.stack[Len(L.stack)]
  BY TopFrame
<1>2. /\ IsLoader(J) /\ Len(J.stack) = Len(L.stack) - 1
      /\ \A i \in 1 .. Len(L.stack) - 1 : J.stack[i] = L.stack[i]
  BY PopFacts
<1>. HIDE DEF J
<1>3. DOMAIN J.stack = 1 .. Len(L.stack) - 1
  BY <1>2, SeqFacts DEF IsLoader
<1>4. /\ \A i \in 1 .. Len(L.stack) - 1 : i \in 1 .. Len(L.stack)
      /\ \A i \in 1 .. Len(L.stack) : i # Len(L.stack) => i \in 1 .. Len(L.stack) - 1
  BY <1>1, Before, Zenon
<1>5. Inside(L, a) => Inside(J, a) \/ a = Last(L.stack).anchor
  <2>1. SUFFICES ASSUME NEW i \in 1 .. Len(L.stack), L.stack[i].anchor = a,
                        i # Len(L.stack)
                 PROVE  Inside(J, a)
    BY <1>1 DEF Inside
  <2>2. i \in 1 .. Len(L.stack) - 1
    BY <1>4, <2>1
  <2>. QED BY <1>2, <1>3, <2>1, <2>2 DEF Inside
<1>6. Inside(J, a) => Inside(L, a)
  BY <1>1, <1>2, <1>3, <1>4 DEF Inside
<1>7. a = Last(L.stack).anchor => Inside(L, a)
  BY <1>1 DEF Inside
<1>. QED
  BY <1>5, <1>6, <1>7 DEF J

LEMMA AppendInside ==
  ASSUME NEW L, IsLoader(L), NEW M, NEW frame, M.stack = Append(L.stack, frame), NEW a
  PROVE  Inside(M, a) <=> Inside(L, a) \/ a = frame.anchor
<1>1. IsSeq(L.stack)
  BY DEF IsLoader
<1>2. Len(L.stack) \in Nat /\ DOMAIN L.stack = 1 .. Len(L.stack)
  BY <1>1, SeqFacts
<1>3. /\ IsSeq(M.stack) /\ Len(M.stack) = Len(L.stack) + 1
      /\ \A i \in 1 .. Len(L.stack) : M.stack[i] = L.stack[i]
      /\ M.stack[Len(L.stack) + 1] = frame
  BY <1>1, AppendSeq
<1>4. DOMAIN M.stack = 1 .. Len(L.stack) + 1
  BY <1>3, SeqFacts
<1>5. /\ \A i \in 1 .. Len(L.stack) + 1 : i \in 1 .. Len(L.stack) \/ i = Len(L.stack) + 1
      /\ \A i \in 1 .. Len(L.stack) : i \in 1 .. Len(L.stack) + 1
      /\ Len(L.stack) + 1 \in 1 .. Len(L.stack) + 1
  BY <1>2
<1>. QED
  BY <1>2, <1>3, <1>4, <1>5, Zenon DEF Inside

\* The ghost after a node is completed under an anchor, if it has one.
Latest(l, anchor, v, d) ==
  IF anchor = None THEN l ELSE [l EXCEPT ![anchor] = [doc |-> d, val |-> v]]

LEMMA LatestFacts ==
  ASSUME NEW l, Has(l, Anchors), NEW anchor \in Anchors \cup {None}, NEW v, NEW d \in Nat,
         \A a \in Anchors : l[a].doc \in 0 .. d
  PROVE  LET m == Latest(l, anchor, v, d)
         IN  /\ Has(m, Anchors)
             /\ \A a \in Anchors : m[a].doc \in 0 .. d
             /\ \A a \in Anchors : m[a] = IF a = anchor THEN [doc |-> d, val |-> v] ELSE l[a]
<1>1. CASE anchor = None
  BY <1>1, LoaderAssumption DEF Latest
<1>2. CASE anchor # None
  <2> DEFINE m == [l EXCEPT ![anchor] = [doc |-> d, val |-> v]]
  <2>1. Latest(l, anchor, v, d) = m /\ anchor \in Anchors
    BY <1>2 DEF Latest
  <2>2. Has(m, Anchors)
    BY <2>1 DEF Has
  <2>3. \A a \in Anchors : m[a] = IF a = anchor THEN [doc |-> d, val |-> v] ELSE l[a]
    BY <2>1 DEF Has
  <2>. HIDE DEF m
  <2>4. \A a \in Anchors : m[a].doc \in 0 .. d
    <3>1. [doc |-> d, val |-> v].doc = d /\ d \in 0 .. d
      OBVIOUS
    <3>. QED BY <2>3, <3>1
  <2>. QED BY <2>1, <2>2, <2>3, <2>4
<1>. QED
  BY <1>1, <1>2

\* A node is completed, under an anchor that is now defined, or under none.
Defines(L, M, d, l, anchor, v, m) ==
  \A a \in Anchors :
    /\ a \in DOMAIN M.anchor_map <=> a = anchor \/ a \in DOMAIN L.anchor_map
    /\ a = anchor => M.anchor_map[a].val = v
    /\ a # anchor /\ a \in DOMAIN L.anchor_map => M.anchor_map[a] = L.anchor_map[a]
    /\ M.anchor_def_spans[a] # 0 <=> a = anchor \/ L.anchor_def_spans[a] # 0
    /\ a # anchor => (Inside(M, a) <=> Inside(L, a))
    /\ m[a] = IF a = anchor THEN [doc |-> d, val |-> v] ELSE l[a]

LEMMA ScopeDefined ==
  ASSUME NEW L, NEW M, NEW d, NEW l, Scope(L, d, l), NEW anchor, NEW v, NEW m,
         Defines(L, M, d, l, anchor, v, m)
  PROVE  Scope(M, d, m)
<1>. SUFFICES ASSUME NEW a \in Anchors
              PROVE  /\ a \in DOMAIN M.anchor_map <=> m[a].doc = d
                     /\ m[a].doc = d => M.anchor_map[a].val = m[a].val
                     /\ M.anchor_def_spans[a] # 0 <=> m[a].doc = d \/ Inside(M, a)
  BY DEF Scope
<1>1. /\ a \in DOMAIN L.anchor_map <=> l[a].doc = d
      /\ l[a].doc = d => L.anchor_map[a].val = l[a].val
      /\ L.anchor_def_spans[a] # 0 <=> l[a].doc = d \/ Inside(L, a)
  BY DEF Scope
<1>. USE DEF Defines
<1>2. CASE a = anchor
  <2>1. m[a].doc = d /\ m[a].val = v
    BY <1>2
  <2>. QED BY <1>2, <2>1
<1>3. CASE a # anchor
  <2>1. m[a] = l[a]
    BY <1>3
  <2>. QED BY <1>1, <1>3, <2>1
<1>. QED
  BY <1>2, <1>3

LEMMA ScalarScope ==
  ASSUME NEW L, IsLoader(L), L.err = "none", NEW s, s.anchor \in Anchors \cup {None},
         NEW pos \in Nat, pos # 0, Scalar(L, s, pos).err = "none",
         NEW d \in Nat, NEW l, Has(l, Anchors), \A a \in Anchors : l[a].doc \in 0 .. d,
         Scope(L, d, l)
  PROVE  Scope(Scalar(L, s, pos), d, Latest(l, s.anchor, s.val, d))
<1> DEFINE M == Scalar(L, s, pos)
           m == Latest(l, s.anchor, s.val, d)
<1>1. /\ IsLoader(M) /\ Step(L, M)
      /\ \A a \in Anchors :
           /\ a \in DOMAIN M.anchor_map <=> a = s.anchor \/ a \in DOMAIN L.anchor_map
           /\ a = s.anchor => M.anchor_map[a].val = s.val
           /\ a # s.anchor /\ a \in DOMAIN L.anchor_map => M.anchor_map[a] = L.anchor_map[a]
           /\ M.anchor_def_spans[a] = IF a = s.anchor THEN pos ELSE L.anchor_def_spans[a]
  BY ScalarFacts
<1>2. \A a \in Anchors : m[a] = IF a = s.anchor THEN [doc |-> d, val |-> s.val] ELSE l[a]
  BY LatestFacts
<1>. HIDE DEF M, m
<1>3. \A a : Inside(M, a) <=> Inside(L, a)
  BY <1>1, StepInside DEF M
<1>4. \A a \in Anchors : M.anchor_def_spans[a] # 0 <=> a = s.anchor \/ L.anchor_def_spans[a] # 0
  BY <1>1
<1>5. Defines(L, M, d, l, s.anchor, s.val, m)
  BY <1>1, <1>2, <1>3, <1>4, Zenon DEF Defines
<1>6. Scope(M, d, m)
  BY <1>5, ScopeDefined, Zenon
<1>. QED
  BY <1>6 DEF M, m

LEMMA AliasScope ==
  ASSUME NEW L, IsLoader(L), L.err = "none", L.in_document, NEW anchor, NEW pos,
         resolve_alias(L, anchor, pos).err = "none", NEW d, NEW l, Scope(L, d, l)
  PROVE  Scope(resolve_alias(L, anchor, pos), d, l)
<1> DEFINE M == resolve_alias(L, anchor, pos)
<1>1. /\ IsLoader(M) /\ Step(L, M)
      /\ M.anchor_map = L.anchor_map /\ M.anchor_def_spans = L.anchor_def_spans
  BY AliasFacts
<1>2. \A a : Inside(M, a) <=> Inside(L, a)
  BY <1>1, StepInside
<1>. HIDE DEF M
<1>3. Scope(M, d, l)
  BY <1>1, <1>2 DEF Scope
<1>. QED
  BY <1>3 DEF M

LEMMA StartScope ==
  ASSUME NEW L, IsLoader(L), L.err = "none", NEW c, c.anchor \in Anchors \cup {None},
         NEW frame, IsFrame(frame), frame.start \in Nat, frame.start # 0,
         frame.anchor = c.anchor, CollectionStart(L, c, frame).err = "none",
         NEW d, NEW l, Scope(L, d, l)
  PROVE  Scope(CollectionStart(L, c, frame), d, l)
<1> DEFINE M == CollectionStart(L, c, frame)
<1>1. /\ M.anchor_map = L.anchor_map /\ M.stack = Append(L.stack, frame)
      /\ \A a \in Anchors : M.anchor_def_spans[a] =
           IF a = c.anchor THEN frame.start ELSE L.anchor_def_spans[a]
  BY StartFacts
<1>. HIDE DEF M
<1>2. \A a : Inside(M, a) <=> Inside(L, a) \/ a = frame.anchor
  BY <1>1, AppendInside
<1>3. Scope(M, d, l)
  BY <1>1, <1>2 DEF Scope
<1>. QED
  BY <1>3 DEF M

LEMMA FinishScope ==
  ASSUME NEW L, IsLoader(L), L.err = "none", L.stack # <<>>, NEW M, NEW v, Ended(L, M, v),
         M.err = "none",
         NEW d \in Nat, NEW l, Has(l, Anchors), \A a \in Anchors : l[a].doc \in 0 .. d,
         Scope(L, d, l)
  PROVE  Scope(M, d, Latest(l, Last(L.stack).anchor, v, d))
<1> DEFINE f == Last(L.stack)
           m == Latest(l, f.anchor, v, d)
<1>1. /\ IsLoader(M) /\ Step(Pop(L), M) /\ M.anchor_def_spans = L.anchor_def_spans
      /\ \A a \in Anchors :
           /\ a \in DOMAIN M.anchor_map <=> a = f.anchor \/ a \in DOMAIN L.anchor_map
           /\ a = f.anchor => M.anchor_map[a].val = v
           /\ a # f.anchor /\ a \in DOMAIN L.anchor_map => M.anchor_map[a] = L.anchor_map[a]
  BY DEF Ended
<1>2. f.anchor \in Anchors \cup {None}
  BY TopFrame DEF IsFrame
<1>3. \A a \in Anchors : m[a] = IF a = f.anchor THEN [doc |-> d, val |-> v] ELSE l[a]
  BY <1>2, LatestFacts
<1>4. IsLoader(Pop(L))
  BY PopFacts
<1>5. \A a : Inside(M, a) <=> Inside(Pop(L), a)
  BY <1>1, <1>4, StepInside
<1>6. \A a : Inside(L, a) <=> Inside(Pop(L), a) \/ a = f.anchor
  BY PopInside
<1>. HIDE DEF f, m
<1>7. \A a \in Anchors : a = f.anchor => L.anchor_def_spans[a] # 0
  BY <1>6 DEF Scope
<1>8. Defines(L, M, d, l, f.anchor, v, m)
  BY <1>1, <1>3, <1>5, <1>6, <1>7, Zenon DEF Defines
<1>9. Scope(M, d, m)
  BY <1>8, ScopeDefined, Zenon
<1>. QED
  BY <1>9 DEF f, m

LEMMA DocumentScope ==
  ASSUME NEW L, IsLoader(L), L.stack = <<>>, NEW d \in Nat, NEW l,
         \A a \in Anchors : l[a].doc \in 0 .. d
  PROVE  Scope(DocumentStart(L), d + 1, l)
<1> DEFINE M == DocumentStart(L)
<1>1. /\ M.stack = <<>> /\ M.anchor_map = NoAnchors
      /\ M.anchor_def_spans = [a \in Anchors |-> 0]
  BY DocumentStartFacts
<1>. HIDE DEF M
<1>2. \A a : ~Inside(M, a)
  BY <1>1 DEF Inside
<1>3. \A a : a \notin DOMAIN M.anchor_map
  BY <1>1 DEF NoAnchors
<1>4. \A a \in Anchors : l[a].doc # d + 1 /\ M.anchor_def_spans[a] = 0
  BY <1>1
<1>5. Scope(M, d + 1, l)
  BY <1>2, <1>3, <1>4 DEF Scope
<1>. QED
  BY <1>5 DEF M

-----------------------------------------------------------------------------
(* The span-free loader is the same loader.                                *)

\* A Loader and its twin, before an event.
Paired(L, M) ==
  /\ IsLoader(L) /\ IsLoader(M) /\ L.spanned = TRUE /\ M.spanned = FALSE
  /\ L.err = "none" /\ Agree(L, M)

\* They stay twins when they fail for the same reason.
LEMMA FailTwins ==
  ASSUME NEW L, NEW M, IsLoader(L), IsLoader(M), Agree(L, M), NEW e, e # "none", NEW p, NEW q
  PROVE  Agree(Fail(L, e, p), Fail(M, e, q))
<1>1. Keeps(L, Fail(L, e, p)) /\ Fail(L, e, p).docs = L.docs /\ Fail(L, e, p).err = e
  BY FailFacts
<1>2. Keeps(M, Fail(M, e, q)) /\ Fail(M, e, q).docs = M.docs /\ Fail(M, e, q).err = e
  BY FailFacts
<1>. QED
  BY <1>1, <1>2 DEF Agree, Keeps

\* A change of anything but the frames and the documents, the same in both.
LEMMA SameChange ==
  ASSUME NEW L, NEW M, Paired(L, M), NEW L2, NEW M2,
         L2.docs = L.docs, M2.docs = M.docs, L2.stack = L.stack, M2.stack = M.stack,
         L2.err = "none", M2.err = "none",
         M2.anchor_def_spans = L2.anchor_def_spans, M2.anchor_map = L2.anchor_map,
         M2.alias_bytes = L2.alias_bytes, M2.depth = L2.depth,
         M2.in_document = L2.in_document
  PROVE  Agree(L2, M2)
BY DEF Agree, Paired

LEMMA TopTwins ==
  ASSUME NEW L, NEW M, Paired(L, M), L.stack # <<>>
  PROVE  /\ M.stack # <<>> /\ Len(M.stack) = Len(L.stack)
         /\ Twins(Last(L.stack), Last(M.stack))
         /\ IsFrame(Last(L.stack)) /\ IsFrame(Last(M.stack))
<1>1. Len(M.stack) = Len(L.stack) /\ \A i \in DOMAIN L.stack : Twins(L.stack[i], M.stack[i])
  BY DEF Paired, Agree
<1>2. /\ Len(L.stack) >= 1 /\ Len(L.stack) \in DOMAIN L.stack /\ IsFrame(Last(L.stack))
      /\ Last(L.stack) = L.stack[Len(L.stack)] /\ Len(L.stack) \in Nat
  BY TopFrame DEF Paired
<1>3. M.stack # <<>>
  <2>1. Len(M.stack) # 0 /\ IsSeq(M.stack)
    BY <1>1, <1>2 DEF Paired, IsLoader
  <2>. QED BY <2>1, SeqFacts
<1>4. IsFrame(Last(M.stack)) /\ Last(M.stack) = M.stack[Len(M.stack)]
  BY <1>3, TopFrame DEF Paired
<1>. QED
  BY <1>1, <1>2, <1>3, <1>4

LEMMA SetTopTwins ==
  ASSUME NEW L, NEW M, Paired(L, M), L.stack # <<>>,
         NEW g, NEW h, IsFrame(g), IsFrame(h), Twins(g, h)
  PROVE  Agree(SetTop(L, g), SetTop(M, h))
<1> DEFINE A == SetTop(L, g)
           B == SetTop(M, h)
<1>1. M.stack # <<>> /\ Len(M.stack) = Len(L.stack)
  BY TopTwins
<1>2. /\ IsLoader(A) /\ Keeps(L, A) /\ A.docs = L.docs /\ A.err = L.err
      /\ A.stack # <<>> /\ Len(A.stack) = Len(L.stack) /\ Last(A.stack) = g
      /\ \A i \in 1 .. Len(L.stack) - 1 : A.stack[i] = L.stack[i]
  BY SetTopFacts DEF Paired
<1>3. /\ IsLoader(B) /\ Keeps(M, B) /\ B.docs = M.docs /\ B.err = M.err
      /\ B.stack # <<>> /\ Len(B.stack) = Len(M.stack) /\ Last(B.stack) = h
      /\ \A i \in 1 .. Len(M.stack) - 1 : B.stack[i] = M.stack[i]
  BY <1>1, SetTopFacts DEF Paired
<1>. HIDE DEF A, B
<1>4. /\ Len(L.stack) \in Nat /\ Len(L.stack) >= 1 /\ DOMAIN L.stack = 1 .. Len(L.stack)
  BY TopFrame DEF Paired
<1>5. /\ DOMAIN A.stack = 1 .. Len(L.stack) /\ Last(A.stack) = A.stack[Len(L.stack)]
      /\ Last(B.stack) = B.stack[Len(L.stack)]
  BY <1>1, <1>2, <1>3, TopFrame
<1>6. ASSUME NEW i \in 1 .. Len(L.stack) PROVE Twins(A.stack[i], B.stack[i])
  <2>1. CASE i = Len(L.stack)
    BY <1>2, <1>3, <1>5, <2>1
  <2>2. CASE i # Len(L.stack)
    <3>1. i \in 1 .. Len(L.stack) - 1
      BY <1>4, <2>2, Before, Zenon
    <3>2. Twins(L.stack[i], M.stack[i])
      BY <1>4 DEF Paired, Agree
    <3>. QED BY <1>1, <1>2, <1>3, <3>1, <3>2
  <2>. QED BY <2>1, <2>2
<1>7. /\ M.err = L.err /\ M.anchor_def_spans = L.anchor_def_spans
      /\ Len(M.docs) = Len(L.docs) /\ Vals(M.docs) = Vals(L.docs)
      /\ M.alias_bytes = L.alias_bytes /\ M.depth = L.depth
      /\ M.in_document = L.in_document /\ M.anchor_map = L.anchor_map
  BY DEF Paired, Agree
<1>8. Agree(A, B)
  BY <1>1, <1>2, <1>3, <1>5, <1>6, <1>7 DEF Agree, Keeps
<1>. QED
  BY <1>8 DEF A, B

LEMMA PushItemTwins ==
  ASSUME NEW L, NEW M, Paired(L, M), L.stack # <<>>, Last(L.stack).f = "seq",
         NEW v, NEW spans, NEW none
  PROVE  Agree(PushItem(L, v, spans), PushItem(M, v, none))
<1> DEFINE f == Last(L.stack)
           g == Last(M.stack)
           a == [f EXCEPT !.items = Append(@, v), !.spans = spans]
           b == [g EXCEPT !.items = Append(@, v), !.spans = none]
<1>1. Twins(f, g) /\ IsFrame(f) /\ IsFrame(g)
  BY TopTwins
<1>2. Has(f, SeqFields) /\ Has(g, SeqFields) /\ g.items = f.items
  BY <1>1 DEF Twins, IsFrame
<1>3. /\ Has(a, SeqFields) /\ a.f = f.f /\ a.anchor = f.anchor /\ a.tag = f.tag
      /\ a.start = f.start /\ a.items = Append(f.items, v)
  BY <1>2 DEF Has, SeqFields
<1>4. /\ Has(b, SeqFields) /\ b.f = g.f /\ b.anchor = g.anchor /\ b.tag = g.tag
      /\ b.start = g.start /\ b.items = Append(g.items, v)
  BY <1>2 DEF Has, SeqFields
<1>5. /\ PushItem(L, v, spans) = IF Len(f.items) >= MaxSequenceLength
                                 THEN Fail(L, "sequence_length", 0) ELSE SetTop(L, a)
      /\ PushItem(M, v, none) = IF Len(g.items) >= MaxSequenceLength
                                THEN Fail(M, "sequence_length", 0) ELSE SetTop(M, b)
  BY DEF PushItem
<1>. HIDE DEF a, b
<1>6. IsFrame(a) /\ IsFrame(b) /\ Twins(a, b)
  BY <1>1, <1>2, <1>3, <1>4 DEF IsFrame, Twins
<1>7. CASE Len(f.items) >= MaxSequenceLength
  BY <1>2, <1>5, <1>7, FailTwins DEF Paired
<1>8. CASE ~(Len(f.items) >= MaxSequenceLength)
  BY <1>2, <1>5, <1>6, <1>8, SetTopTwins
<1>. QED
  BY <1>7, <1>8

LEMMA PushKeyTwins ==
  ASSUME NEW L, NEW M, Paired(L, M), L.stack # <<>>, Last(L.stack).f = "key",
         NEW v, NEW may, NEW ks, NEW p, NEW ks2, NEW p2
  PROVE  Agree(PushKey(L, v, may, ks, p), PushKey(M, v, may, ks2, p2))
<1> DEFINE f == Last(L.stack)
           g == Last(M.stack)
           buffered == may /\ v.t = "Str" /\ v.key = MERGE_KEY /\ config.merge # "AsOrdinary"
           shape == IF buffered THEN Other(Atom("Null", <<"null">>)) ELSE KeyShapeOf(v)
           a == [f EXCEPT !.f = "value", !.key = v.key, !.key_may_merge = may,
                          !.key_value = shape, !.key_span = ks]
           b == [g EXCEPT !.f = "value", !.key = v.key, !.key_may_merge = may,
                          !.key_value = shape, !.key_span = ks2]
<1>1. Twins(f, g) /\ IsFrame(f) /\ IsFrame(g)
  BY TopTwins
<1>2. /\ PushKey(L, v, may, ks, p) =
           IF config.non_scalar = "Error" /\ v.t \in {"Seq", "Map"}
           THEN Fail(L, "non_scalar_key", p) ELSE SetTop(L, a)
      /\ PushKey(M, v, may, ks2, p2) =
           IF config.non_scalar = "Error" /\ v.t \in {"Seq", "Map"}
           THEN Fail(M, "non_scalar_key", p2) ELSE SetTop(M, b)
  BY DEF PushKey
<1>. HIDE DEF shape
<1>3. Has(f, MapFields) /\ Has(g, MapFields)
  BY <1>1 DEF Twins, IsFrame
<1>4. /\ Has(a, MapFields) /\ a.f = "value" /\ a.anchor = f.anchor /\ a.tag = f.tag
      /\ a.start = f.start /\ a.map = f.map /\ a.typed_keys = f.typed_keys
      /\ a.merge_values = f.merge_values /\ a.key = v.key /\ a.key_value = shape
      /\ a.key_may_merge = may
  BY <1>3 DEF Has, MapFields
<1>5. /\ Has(b, MapFields) /\ b.f = "value" /\ b.anchor = g.anchor /\ b.tag = g.tag
      /\ b.start = g.start /\ b.map = g.map /\ b.typed_keys = g.typed_keys
      /\ b.merge_values = g.merge_values /\ b.key = v.key /\ b.key_value = shape
      /\ b.key_may_merge = may
  BY <1>3 DEF Has, MapFields
<1>. HIDE DEF a, b
<1>6. IsFrame(a) /\ IsFrame(b) /\ Twins(a, b)
  BY <1>1, <1>4, <1>5 DEF IsFrame, Twins
<1>7. CASE config.non_scalar = "Error" /\ v.t \in {"Seq", "Map"}
  BY <1>2, <1>7, FailTwins DEF Paired
<1>8. CASE ~(config.non_scalar = "Error" /\ v.t \in {"Seq", "Map"})
  BY <1>2, <1>6, <1>8, SetTopTwins
<1>. QED
  BY <1>7, <1>8

\* What an insertion leaves depends on the entries, not on their spans.
NewMap(f, v) ==
  LET idx == get_index_of(f.map, f.key) IN
  IF idx = 0 THEN Append(f.map, [key |-> f.key, val |-> v])
  ELSE IF config.duplicate = "Last" THEN [f.map EXCEPT ![idx].val = v] ELSE f.map
NewShapes(f) ==
  IF get_index_of(f.map, f.key) = 0 THEN record(f.typed_keys, Len(f.map), f.key_value)
  ELSE f.typed_keys

LEMMA BareFacts ==
  ASSUME NEW f, Has(f, MapFields), NEW v
  PROVE  InsertBare(f, v).map = NewMap(f, v) /\ InsertBare(f, v).typed_keys = NewShapes(f)
<1> DEFINE idx == get_index_of(f.map, f.key)
           new == Append(f.map, [key |-> f.key, val |-> v])
           shapes == record(f.typed_keys, Len(f.map), f.key_value)
           old == [f.map EXCEPT ![idx].val = v]
           h == InsertBare(f, v)
<1>1. h = IF idx = 0 THEN [f EXCEPT !.map = new, !.typed_keys = shapes]
          ELSE IF config.duplicate = "Last" THEN [f EXCEPT !.map = old] ELSE f
  <2>1. [f EXCEPT !.map[idx].val = v] = [f EXCEPT !.map = old]
    BY Zenon
  <2>. QED BY <2>1 DEF InsertBare, Inserted
<1>. HIDE DEF new, shapes, old, idx, h
<1>2. /\ h.map = IF idx = 0 THEN new
                 ELSE IF config.duplicate = "Last" THEN old ELSE f.map
      /\ h.typed_keys = IF idx = 0 THEN shapes ELSE f.typed_keys
  BY <1>1 DEF Has, MapFields
<1>. QED
  BY <1>2 DEF new, shapes, old, idx, h, NewMap, NewShapes

\* Twins accept the value of a key in the same way.
LEMMA EnteredTwins ==
  ASSUME NEW L, NEW M, Paired(L, M), NEW f, NEW g, Has(f, MapFields), Has(g, MapFields),
         f.f # "seq", f.anchor \in Anchors \cup {None}, Twins(f, g), NEW v, NEW span
  PROVE  LET a == NextKey(Entered(L, f, v, span))
             b == NextKey(Entered(M, g, v, span))
         IN  IsFrame(a) /\ IsFrame(b) /\ Twins(a, b)
<1> DEFINE x == Entered(L, f, v, span)
           y == Entered(M, g, v, span)
           a == NextKey(x)
           b == NextKey(y)
<1>1. /\ g.anchor = f.anchor /\ g.tag = f.tag /\ g.start = f.start
      /\ g.map = f.map /\ g.typed_keys = f.typed_keys /\ g.merge_values = f.merge_values
      /\ g.key = f.key /\ g.key_value = f.key_value /\ g.key_may_merge = f.key_may_merge
  BY DEF Twins
<1>2. /\ Has(x, MapFields) /\ x.anchor = f.anchor /\ x.tag = f.tag /\ x.start = f.start
      /\ Has(y, MapFields) /\ y.anchor = g.anchor /\ y.tag = g.tag /\ y.start = g.start
  BY EnteredFacts
<1>3. x.map = y.map /\ x.typed_keys = y.typed_keys /\ x.merge_values = y.merge_values
  <2>1. CASE IsMerge(f) /\ config.merge # "AsOrdinary"
    <3>1. IsMerge(g)
      BY <1>1, <2>1 DEF IsMerge
    <3>2. /\ x = [f EXCEPT !.merge_values = Append(@, v)]
          /\ y = [g EXCEPT !.merge_values = Append(@, v)]
      BY <2>1, <3>1 DEF Entered
    <3>. HIDE DEF x, y
    <3>. QED BY <1>1, <3>2, BufferFacts
  <2>2. CASE ~(IsMerge(f) /\ config.merge # "AsOrdinary")
    <3>1. ~(IsMerge(g) /\ config.merge # "AsOrdinary")
      BY <1>1, <2>2 DEF IsMerge
    <3>2. x = Seen(InsertSpanned(f, v, span), v, span) /\ y = InsertBare(g, v)
      BY <2>2, <3>1 DEF Entered, Paired
    <3>. HIDE DEF x, y
    <3>3. /\ SameNode(f, InsertSpanned(f, v, span))
          /\ InsertSpanned(f, v, span).map = InsertBare(f, v).map
          /\ InsertSpanned(f, v, span).typed_keys = InsertBare(f, v).typed_keys
          /\ SameNode(g, InsertBare(g, v))
      BY InsertFacts
    <3>4. /\ SameNode(InsertSpanned(f, v, span), x)
          /\ x.map = InsertSpanned(f, v, span).map
          /\ x.typed_keys = InsertSpanned(f, v, span).typed_keys
      BY <3>2, <3>3, SeenFacts DEF SameNode
    <3>5. /\ InsertBare(f, v).map = InsertBare(g, v).map
          /\ InsertBare(f, v).typed_keys = InsertBare(g, v).typed_keys
      <4>1. NewMap(f, v) = NewMap(g, v) /\ NewShapes(f) = NewShapes(g)
        BY <1>1 DEF NewMap, NewShapes
      <4>. QED BY <4>1, BareFacts
    <3>. QED BY <1>1, <3>2, <3>3, <3>4, <3>5 DEF SameNode
  <2>. QED BY <2>1, <2>2
<1>. HIDE DEF x, y
<1>4. /\ IsFrame(a) /\ a.f = "key" /\ a.anchor = x.anchor /\ a.tag = x.tag /\ a.start = x.start
      /\ a.map = x.map /\ a.typed_keys = x.typed_keys /\ a.merge_values = x.merge_values
      /\ a.key = <<>> /\ a.key_value = Str /\ a.key_may_merge = FALSE
  BY <1>2, NextKeyFacts
<1>5. /\ IsFrame(b) /\ b.f = "key" /\ b.anchor = y.anchor /\ b.tag = y.tag /\ b.start = y.start
      /\ b.map = y.map /\ b.typed_keys = y.typed_keys /\ b.merge_values = y.merge_values
      /\ b.key = <<>> /\ b.key_value = Str /\ b.key_may_merge = FALSE
  BY <1>1, <1>2, NextKeyFacts
<1>. HIDE DEF a, b
<1>6. Twins(a, b)
  <2>1. b.anchor = a.anchor /\ b.tag = a.tag /\ b.start = a.start
    BY <1>1, <1>2, <1>4, <1>5
  <2>2. /\ b.f = a.f /\ a.f # "seq"
        /\ b.map = a.map /\ b.typed_keys = a.typed_keys /\ b.merge_values = a.merge_values
        /\ b.key = a.key /\ b.key_value = a.key_value /\ b.key_may_merge = a.key_may_merge
    BY <1>3, <1>4, <1>5
  <2>. QED BY <2>1, <2>2 DEF Twins
<1>. QED
  BY <1>4, <1>5, <1>6 DEF a, b, x, y

\* Why the value of a key is refused.
Objection(f) ==
  LET idx == get_index_of(f.map, f.key) IN
  IF IsMerge(f) /\ config.merge = "Error" THEN "merge_rejected"
  ELSE IF IsMerge(f) /\ config.merge # "AsOrdinary" THEN "none"
  ELSE IF Len(f.map) >= MaxMappingKeys THEN "mapping_keys"
  ELSE IF idx # 0 /\ at(f.typed_keys, idx) # f.key_value THEN "key_collision"
  ELSE IF idx # 0 /\ config.duplicate = "Error" THEN "duplicate_key"
  ELSE "none"

LEMMA PushValueObjection ==
  ASSUME NEW L, NEW v, NEW span
  PROVE  LET f == Last(L.stack)
         IN  /\ Objection(f) = "none" =>
                  PushValue(L, v, span) = SetTop(L, NextKey(Entered(L, f, v, span)))
             /\ Objection(f) # "none" =>
                  \E p : PushValue(L, v, span) = Fail(L, Objection(f), p)
BY DEF PushValue, Entered, Objection

LEMMA PushValueTwins ==
  ASSUME NEW L, NEW M, Paired(L, M), L.stack # <<>>, Last(L.stack).f = "value",
         NEW v, NEW span
  PROVE  Agree(PushValue(L, v, span), PushValue(M, v, span))
<1> DEFINE f == Last(L.stack)
           g == Last(M.stack)
           a == NextKey(Entered(L, f, v, span))
           b == NextKey(Entered(M, g, v, span))
<1>1. Twins(f, g) /\ IsFrame(f) /\ IsFrame(g)
  BY TopTwins
<1>2. Has(f, MapFields) /\ Has(g, MapFields) /\ f.anchor \in Anchors \cup {None} /\ f.f # "seq"
  BY <1>1 DEF Twins, IsFrame
<1>3. Objection(g) = Objection(f)
  <2>1. /\ g.map = f.map /\ g.typed_keys = f.typed_keys /\ g.key = f.key
        /\ g.key_value = f.key_value /\ g.key_may_merge = f.key_may_merge
    BY <1>1, <1>2 DEF Twins
  <2>2. IsMerge(g) <=> IsMerge(f)
    BY <2>1 DEF IsMerge
  <2>. QED BY <2>1, <2>2 DEF Objection
<1>4. IsFrame(a) /\ IsFrame(b) /\ Twins(a, b)
  BY <1>1, <1>2, EnteredTwins
<1>. HIDE DEF a, b
<1>5. CASE Objection(f) = "none"
  <2>1. PushValue(L, v, span) = SetTop(L, a) /\ PushValue(M, v, span) = SetTop(M, b)
    BY <1>3, <1>5, PushValueObjection DEF a, b
  <2>. QED BY <1>4, <2>1, SetTopTwins
<1>6. CASE Objection(f) # "none"
  <2>1. /\ \E p : PushValue(L, v, span) = Fail(L, Objection(f), p)
        /\ \E p : PushValue(M, v, span) = Fail(M, Objection(f), p)
    BY <1>3, <1>6, PushValueObjection
  <2>. QED BY <1>6, <2>1, FailTwins DEF Paired
<1>. QED
  BY <1>5, <1>6

\* Documents that differ in their spans.
LEMMA ValsAppend ==
  ASSUME NEW s, NEW t, IsSeq(s), IsSeq(t), Len(s) = Len(t), Vals(s) = Vals(t),
         NEW x, NEW y, x.val = y.val
  PROVE  /\ Vals(Append(s, x)) = Vals(Append(t, y))
         /\ Len(Append(s, x)) = Len(Append(t, y))
<1>1. Len(s) \in Nat /\ DOMAIN s = 1 .. Len(s) /\ DOMAIN t = 1 .. Len(s)
  BY SeqFacts
<1>2. /\ IsSeq(Append(s, x)) /\ Len(Append(s, x)) = Len(s) + 1
      /\ \A i \in 1 .. Len(s) : Append(s, x)[i] = s[i]
      /\ Append(s, x)[Len(s) + 1] = x
  BY AppendSeq
<1>3. /\ IsSeq(Append(t, y)) /\ Len(Append(t, y)) = Len(s) + 1
      /\ \A i \in 1 .. Len(s) : Append(t, y)[i] = t[i]
      /\ Append(t, y)[Len(s) + 1] = y
  BY AppendSeq
<1>4. DOMAIN Append(s, x) = 1 .. Len(s) + 1 /\ DOMAIN Append(t, y) = 1 .. Len(s) + 1
  BY <1>2, <1>3, SeqFacts
<1>5. \A i \in 1 .. Len(s) : s[i].val = t[i].val
  <2>. TAKE i \in 1 .. Len(s)
  <2>1. Vals(s)[i] = s[i].val /\ Vals(t)[i] = t[i].val
    BY <1>1 DEF Vals
  <2>. QED BY <2>1
<1>6. ASSUME NEW i \in 1 .. Len(s) + 1 PROVE Append(s, x)[i].val = Append(t, y)[i].val
  <2>1. i \in 1 .. Len(s) \/ i = Len(s) + 1
    BY <1>1
  <2>. QED BY <1>2, <1>3, <1>5, <2>1
<1>. QED
  BY <1>2, <1>3, <1>4, <1>6 DEF Vals

\* push_node and push_value do the same.
LEMMA PushTwins ==
  ASSUME NEW L, NEW M, Paired(L, M), NEW v, NEW span, NEW may
  PROVE  Agree(Push(L, v, span, may), Push(M, v, span, may))
<1>1. /\ Push(L, v, span, may) = push_node(L, v, span, may)
      /\ Push(M, v, span, may) = push_value(M, v, span, may)
  BY DEF Push, Paired
<1>2. CASE L.stack = <<>>
  <2> DEFINE x == [val |-> v, span |-> span]
             y == [val |-> v]
             A == [L EXCEPT !.docs = Append(@, x)]
             B == [M EXCEPT !.docs = Append(@, y)]
  <2>1. M.stack = <<>>
    <3>1. Len(M.stack) = Len(L.stack) /\ IsSeq(M.stack)
      BY DEF Paired, Agree, IsLoader
    <3>. QED BY <1>2, <3>1, NoneSeq, SeqFacts
  <2>2. Push(L, v, span, may) = A /\ Push(M, v, span, may) = B
    BY <1>1, <1>2, <2>1 DEF push_node, push_value
  <2>3. M.err = "none" /\ IsLoader(L) /\ IsLoader(M) /\ L.err = "none"
    BY DEF Paired, Agree
  <2>4. x.val = y.val
    OBVIOUS
  <2>. HIDE DEF x, y
  <2>5. /\ Keeps(L, A) /\ A.docs = Append(L.docs, x) /\ A.stack = <<>> /\ A.err = "none"
        /\ Keeps(M, B) /\ B.docs = Append(M.docs, y) /\ B.stack = <<>> /\ B.err = "none"
    BY <1>2, <2>1, <2>3, RootFacts DEF Rooted
  <2>. HIDE DEF A, B
  <2>6. Vals(A.docs) = Vals(B.docs) /\ Len(A.docs) = Len(B.docs)
    BY <2>3, <2>4, <2>5, ValsAppend DEF Paired, Agree, IsLoader
  <2>7. Agree(A, B)
    BY <2>3, <2>5, <2>6 DEF Agree, Keeps, Paired
  <2>. QED BY <2>2, <2>7
<1>3. CASE L.stack # <<>>
  <2>1. /\ M.stack # <<>> /\ Last(M.stack).f = Last(L.stack).f /\ IsFrame(Last(L.stack))
    BY <1>3, TopTwins DEF Twins
  <2>2. Last(L.stack).f \in {"seq", "key", "value"}
    BY <2>1 DEF IsFrame
  <2>3. CASE Last(L.stack).f = "seq"
    <3>1. /\ Push(L, v, span, may) = PushItem(L, v, Append(Last(L.stack).spans, span))
          /\ Push(M, v, span, may) = PushItem(M, v, <<>>)
      BY <1>1, <1>3, <2>1, <2>3 DEF push_node, push_value
    <3>. QED BY <1>3, <2>3, <3>1, PushItemTwins
  <2>4. CASE Last(L.stack).f = "key"
    <3>1. /\ Push(L, v, span, may) =
               PushKey(L, v, may, IF span.leaf THEN span.at ELSE 0, span.start)
          /\ Push(M, v, span, may) = PushKey(M, v, may, span.at, span.at)
      BY <1>1, <1>3, <2>1, <2>4 DEF push_node, push_value
    <3>. QED BY <1>3, <2>4, <3>1, PushKeyTwins
  <2>5. CASE Last(L.stack).f = "value"
    <3>1. /\ Push(L, v, span, may) = PushValue(L, v, span)
          /\ Push(M, v, span, may) = PushValue(M, v, span)
      BY <1>1, <1>3, <2>1, <2>5 DEF push_node, push_value
    <3>. QED BY <1>3, <2>5, <3>1, PushValueTwins
  <2>. QED BY <2>2, <2>3, <2>4, <2>5
<1>. QED
  BY <1>2, <1>3

LEMMA DefineSpanTwins ==
  ASSUME NEW L, NEW M, Paired(L, M), NEW anchor \in Anchors \cup {None}, NEW pos \in Nat
  PROVE  Paired(DefineSpan(L, anchor, pos), DefineSpan(M, anchor, pos))
<1> DEFINE A == DefineSpan(L, anchor, pos)
           B == DefineSpan(M, anchor, pos)
<1>0. IsLoader(L) /\ IsLoader(M)
  BY DEF Paired
<1>1. /\ IsLoader(L) /\ IsLoader(M) /\ L.err = "none" /\ M.err = "none"
      /\ L.spanned = TRUE /\ M.spanned = FALSE
      /\ M.anchor_def_spans = L.anchor_def_spans /\ M.alias_bytes = L.alias_bytes
      /\ M.depth = L.depth /\ M.in_document = L.in_document /\ M.anchor_map = L.anchor_map
  BY DEF Paired, Agree
<1>2. /\ IsLoader(A) /\ A.spanned = L.spanned /\ A.docs = L.docs /\ A.stack = L.stack
      /\ A.anchor_map = L.anchor_map /\ A.alias_bytes = L.alias_bytes
      /\ A.depth = L.depth /\ A.in_document = L.in_document /\ A.err = L.err
      /\ \A a \in Anchors :
           A.anchor_def_spans[a] = IF a = anchor THEN pos ELSE L.anchor_def_spans[a]
  BY <1>0, DefineSpanFacts
<1>3. /\ IsLoader(B) /\ B.spanned = M.spanned /\ B.docs = M.docs /\ B.stack = M.stack
      /\ B.anchor_map = M.anchor_map /\ B.alias_bytes = M.alias_bytes
      /\ B.depth = M.depth /\ B.in_document = M.in_document /\ B.err = M.err
      /\ \A a \in Anchors :
           B.anchor_def_spans[a] = IF a = anchor THEN pos ELSE M.anchor_def_spans[a]
  BY <1>0, DefineSpanFacts
<1>. HIDE DEF A, B
<1>4. B.anchor_def_spans = A.anchor_def_spans
  <2>1. A.anchor_def_spans \in [Anchors -> Nat] /\ B.anchor_def_spans \in [Anchors -> Nat]
    BY <1>2, <1>3 DEF IsLoader
  <2>2. \A a \in Anchors : A.anchor_def_spans[a] = B.anchor_def_spans[a]
    BY <1>1, <1>2, <1>3
  <2>. QED BY <2>1, <2>2
<1>5. Agree(A, B)
  BY <1>1, <1>2, <1>3, <1>4, SameChange
<1>6. Paired(A, B)
  BY <1>1, <1>2, <1>3, <1>5 DEF Paired
<1>. QED
  BY <1>6 DEF A, B

\* What an anchor_map becomes.
NewAnchors(map, anchor, v, start) ==
  IF anchor = None THEN map
  ELSE [a \in DOMAIN map \cup {anchor} |->
          IF a = anchor THEN [val |-> v, start |-> start] ELSE map[a]]

LEMMA DefineAnchorMap ==
  ASSUME NEW L, IsLoader(L), NEW anchor, NEW v, NEW start
  PROVE  DefineAnchor(L, anchor, v, start).anchor_map = NewAnchors(L.anchor_map, anchor, v, start)
<1> DEFINE t == [a \in DOMAIN L.anchor_map \cup {anchor} |->
                   IF a = anchor THEN [val |-> v, start |-> start] ELSE L.anchor_map[a]]
<1>1. CASE anchor = None
  BY <1>1 DEF DefineAnchor, NewAnchors
<1>2. CASE anchor # None
  <2>1. DefineAnchor(L, anchor, v, start) = [L EXCEPT !.anchor_map = t]
    BY <1>2 DEF DefineAnchor
  <2>2. NewAnchors(L.anchor_map, anchor, v, start) = t
    BY <1>2 DEF NewAnchors
  <2>. HIDE DEF t
  <2>3. [L EXCEPT !.anchor_map = t].anchor_map = t
    BY DEF IsLoader, Has, LoaderFields
  <2>. QED BY <2>1, <2>2, <2>3
<1>. QED
  BY <1>1, <1>2

LEMMA DefineAnchorTwins ==
  ASSUME NEW L, NEW M, Paired(L, M), NEW anchor \in Anchors \cup {None}, NEW v, NEW start
  PROVE  Paired(DefineAnchor(L, anchor, v, start), DefineAnchor(M, anchor, v, start))
<1> DEFINE A == DefineAnchor(L, anchor, v, start)
           B == DefineAnchor(M, anchor, v, start)
<1>0. IsLoader(L) /\ IsLoader(M)
  BY DEF Paired
<1>1. /\ IsLoader(L) /\ IsLoader(M) /\ L.err = "none" /\ M.err = "none"
      /\ L.spanned = TRUE /\ M.spanned = FALSE
      /\ M.anchor_def_spans = L.anchor_def_spans /\ M.alias_bytes = L.alias_bytes
      /\ M.depth = L.depth /\ M.in_document = L.in_document /\ M.anchor_map = L.anchor_map
  BY DEF Paired, Agree
<1>2. IsLoader(A) /\ SpanKeeps(L, A) /\ A.anchor_def_spans = L.anchor_def_spans
  BY <1>0, DefineAnchorKeeps
<1>3. IsLoader(B) /\ SpanKeeps(M, B) /\ B.anchor_def_spans = M.anchor_def_spans
  BY <1>0, DefineAnchorKeeps
<1>4. B.anchor_map = A.anchor_map
  BY <1>1, DefineAnchorMap
<1>. HIDE DEF A, B
<1>5. Agree(A, B)
  BY <1>1, <1>2, <1>3, <1>4, SameChange DEF SpanKeeps
<1>6. Paired(A, B)
  BY <1>1, <1>2, <1>3, <1>5 DEF Paired, SpanKeeps
<1>. QED
  BY <1>6 DEF A, B

LEMMA PopTwins ==
  ASSUME NEW L, NEW M, Paired(L, M), L.stack # <<>>
  PROVE  Paired(Pop(L), Pop(M))
<1> DEFINE A == Pop(L)
           B == Pop(M)
<1>1. /\ IsLoader(L) /\ IsLoader(M) /\ L.err = "none" /\ M.err = "none"
      /\ L.spanned = TRUE /\ M.spanned = FALSE
      /\ Len(M.docs) = Len(L.docs) /\ Vals(M.docs) = Vals(L.docs)
      /\ M.anchor_def_spans = L.anchor_def_spans /\ M.alias_bytes = L.alias_bytes
      /\ M.depth = L.depth /\ M.in_document = L.in_document /\ M.anchor_map = L.anchor_map
      /\ \A i \in DOMAIN L.stack : Twins(L.stack[i], M.stack[i])
  BY DEF Paired, Agree
<1>2. M.stack # <<>> /\ Len(M.stack) = Len(L.stack)
  BY TopTwins
<1>3. /\ IsLoader(A) /\ A.spanned = L.spanned /\ A.docs = L.docs
      /\ A.anchor_map = L.anchor_map /\ A.anchor_def_spans = L.anchor_def_spans
      /\ A.alias_bytes = L.alias_bytes /\ A.in_document = L.in_document
      /\ A.err = L.err /\ A.depth = IF L.depth = 0 THEN 0 ELSE L.depth - 1
      /\ Len(A.stack) = Len(L.stack) - 1
      /\ \A i \in 1 .. Len(L.stack) - 1 : A.stack[i] = L.stack[i]
  BY <1>1, PopFacts
<1>4. /\ IsLoader(B) /\ B.spanned = M.spanned /\ B.docs = M.docs
      /\ B.anchor_map = M.anchor_map /\ B.anchor_def_spans = M.anchor_def_spans
      /\ B.alias_bytes = M.alias_bytes /\ B.in_document = M.in_document
      /\ B.err = M.err /\ B.depth = IF M.depth = 0 THEN 0 ELSE M.depth - 1
      /\ Len(B.stack) = Len(M.stack) - 1
      /\ \A i \in 1 .. Len(M.stack) - 1 : B.stack[i] = M.stack[i]
  BY <1>1, <1>2, PopFacts
<1>. HIDE DEF A, B
<1>5. /\ Len(L.stack) \in Nat /\ Len(L.stack) >= 1 /\ DOMAIN L.stack = 1 .. Len(L.stack)
  BY <1>1, TopFrame
<1>6. DOMAIN A.stack = 1 .. Len(L.stack) - 1
  BY <1>3, SeqFacts DEF IsLoader
<1>7. ASSUME NEW i \in 1 .. Len(L.stack) - 1 PROVE Twins(A.stack[i], B.stack[i])
  <2>1. i \in 1 .. Len(L.stack)
    BY <1>5, Before, Zenon
  <2>. QED BY <1>1, <1>2, <1>3, <1>4, <1>5, <2>1
<1>8. B.depth = A.depth /\ Len(B.stack) = Len(A.stack)
  BY <1>1, <1>2, <1>3, <1>4
<1>9. Agree(A, B)
  BY <1>1, <1>3, <1>4, <1>6, <1>7, <1>8 DEF Agree
<1>10. Paired(A, B)
  BY <1>1, <1>3, <1>4, <1>9 DEF Paired
<1>. QED
  BY <1>10 DEF A, B

LEMMA ScalarTwins ==
  ASSUME NEW L, NEW M, Paired(L, M), NEW s, s.anchor \in Anchors \cup {None}, NEW pos \in Nat
  PROVE  Agree(Scalar(L, s, pos), Scalar(M, s, pos))
<1>1. Paired(DefineSpan(L, s.anchor, pos), DefineSpan(M, s.anchor, pos))
  BY DefineSpanTwins
<1>2. Paired(DefineAnchor(DefineSpan(L, s.anchor, pos), s.anchor, s.val, pos),
             DefineAnchor(DefineSpan(M, s.anchor, pos), s.anchor, s.val, pos))
  BY <1>1, DefineAnchorTwins
<1>. QED
  BY <1>2, PushTwins DEF Scalar

LEMMA AliasTwins ==
  ASSUME NEW L, NEW M, Paired(L, M), NEW anchor, NEW pos
  PROVE  Agree(resolve_alias(L, anchor, pos), resolve_alias(M, anchor, pos))
<1> DEFINE known == L.anchor_map[anchor]
           over == alias_bytes_exceeded(L.alias_bytes, alias_cost(known.val), MaxDocumentLength)
           bytes == alias_bytes_total(L.alias_bytes, alias_cost(known.val))
           A == [L EXCEPT !.alias_bytes = bytes]
           B == [M EXCEPT !.alias_bytes = bytes]
           e == IF L.anchor_def_spans[anchor] # 0 THEN "self_reference" ELSE "unknown_anchor"
           deep == depth_exceeded(L.depth + known.val.height, MaxDepth)
           span == Span(FALSE, pos, known.start)
<1>1. /\ IsLoader(L) /\ IsLoader(M) /\ L.err = "none" /\ M.err = "none"
      /\ L.spanned = TRUE /\ M.spanned = FALSE /\ Agree(L, M)
      /\ M.anchor_def_spans = L.anchor_def_spans /\ M.alias_bytes = L.alias_bytes
      /\ M.depth = L.depth /\ M.in_document = L.in_document /\ M.anchor_map = L.anchor_map
  BY DEF Paired, Agree
<1>2. resolve_alias(L, anchor, pos) =
        IF ~L.in_document THEN Fail(L, "outside_document", pos)
        ELSE IF anchor \notin DOMAIN L.anchor_map THEN Fail(L, e, pos)
        ELSE IF deep THEN Fail(L, "depth", 0)
        ELSE IF over THEN Fail(A, "alias_bytes", 0)
        ELSE Push(A, known.val, span, FALSE)
  BY DEF resolve_alias, missing_anchor, alias_too_deep
<1>3. resolve_alias(M, anchor, pos) =
        IF ~L.in_document THEN Fail(M, "outside_document", pos)
        ELSE IF anchor \notin DOMAIN L.anchor_map THEN Fail(M, e, pos)
        ELSE IF deep THEN Fail(M, "depth", 0)
        ELSE IF over THEN Fail(B, "alias_bytes", 0)
        ELSE Push(B, known.val, span, FALSE)
  BY <1>1 DEF resolve_alias, missing_anchor, alias_too_deep
<1>4. e # "none"
  OBVIOUS
<1>. HIDE DEF known, over, bytes, e, deep, span
<1>5. /\ Has(A, LoaderFields) /\ A.spanned = L.spanned /\ A.docs = L.docs /\ A.stack = L.stack
      /\ A.anchor_map = L.anchor_map /\ A.anchor_def_spans = L.anchor_def_spans
      /\ A.depth = L.depth /\ A.in_document = L.in_document /\ A.err = L.err
      /\ A.alias_bytes = bytes
  BY <1>1 DEF IsLoader, Has, LoaderFields
<1>6. /\ Has(B, LoaderFields) /\ B.spanned = M.spanned /\ B.docs = M.docs /\ B.stack = M.stack
      /\ B.anchor_map = M.anchor_map /\ B.anchor_def_spans = M.anchor_def_spans
      /\ B.depth = M.depth /\ B.in_document = M.in_document /\ B.err = M.err
      /\ B.alias_bytes = bytes
  BY <1>1 DEF IsLoader, Has, LoaderFields
<1>. HIDE DEF A, B
<1>7. Paired(A, B)
  <2>1. IsLoader(A) /\ IsLoader(B)
    BY <1>1, <1>5, <1>6 DEF IsLoader
  <2>2. Agree(A, B)
    BY <1>1, <1>5, <1>6, SameChange
  <2>. QED BY <1>1, <1>5, <1>6, <2>1, <2>2 DEF Paired
<1>8. IsLoader(A) /\ IsLoader(B) /\ Agree(A, B)
  BY <1>7 DEF Paired
<1>9. CASE ~L.in_document
  BY <1>1, <1>2, <1>3, <1>9, FailTwins
<1>10. CASE L.in_document /\ anchor \notin DOMAIN L.anchor_map
  BY <1>1, <1>2, <1>3, <1>4, <1>10, FailTwins
<1>11. CASE L.in_document /\ anchor \in DOMAIN L.anchor_map /\ deep
  BY <1>1, <1>2, <1>3, <1>11, FailTwins
<1>12. CASE L.in_document /\ anchor \in DOMAIN L.anchor_map /\ ~deep /\ over
  BY <1>2, <1>3, <1>8, <1>12, FailTwins
<1>13. CASE L.in_document /\ anchor \in DOMAIN L.anchor_map /\ ~deep /\ ~over
  BY <1>2, <1>3, <1>7, <1>13, PushTwins
<1>. QED
  BY <1>9, <1>10, <1>11, <1>12, <1>13

\* A collection is refused when it would be too deep.
LEMMA StartError ==
  ASSUME NEW L, IsLoader(L), L.err = "none", NEW c, c.anchor \in Anchors \cup {None},
         NEW frame, IsFrame(frame), frame.start \in Nat
  PROVE  CollectionStart(L, c, frame).err = "depth" <=> depth_exceeded(L.depth + 1, MaxDepth)
<1> DEFINE J == [L EXCEPT !.depth = @ + 1]
           K == DefineSpan(J, c.anchor, frame.start)
           M == CollectionStart(L, c, frame)
<1>1. Has(L, LoaderFields)
  BY DEF IsLoader
<1>2. /\ Has(J, LoaderFields) /\ J.docs = L.docs /\ J.stack = L.stack /\ J.err = L.err
      /\ J.anchor_def_spans = L.anchor_def_spans /\ J.depth = L.depth + 1
  BY <1>1 DEF Has, LoaderFields
<1>3. M = IF depth_exceeded(J.depth, MaxDepth) THEN Fail(J, "depth", 0)
          ELSE [K EXCEPT !.stack = Append(@, frame)]
  BY DEF CollectionStart
<1>. HIDE DEF J, M
<1>4. IsLoader(J)
  BY <1>2 DEF IsLoader
<1>5. Fail(J, "depth", 0).err = "depth"
  BY <1>4, FailFacts
<1>6. IsLoader(K) /\ K.err = "none"
  <2>1. IsLoader(K) /\ SpanKeeps(J, K)
    BY <1>4, DefineSpanKeeps
  <2>. QED BY <1>2, <2>1 DEF SpanKeeps
<1>. HIDE DEF K
<1>7. [K EXCEPT !.stack = Append(@, frame)].err = "none"
  BY <1>6 DEF IsLoader, Has, LoaderFields
<1>. QED
  BY <1>2, <1>3, <1>5, <1>7 DEF M

LEMMA StartTwins ==
  ASSUME NEW L, NEW M, Paired(L, M), NEW c, c.anchor \in Anchors \cup {None},
         NEW frame, IsFrame(frame), frame.start \in Nat
  PROVE  Agree(CollectionStart(L, c, frame), CollectionStart(M, c, frame))
<1> DEFINE A == CollectionStart(L, c, frame)
           B == CollectionStart(M, c, frame)
<1>0. IsLoader(L) /\ IsLoader(M) /\ L.err = "none" /\ M.err = "none"
  BY DEF Paired, Agree
<1>1. /\ M.anchor_def_spans = L.anchor_def_spans /\ M.alias_bytes = L.alias_bytes
      /\ M.depth = L.depth /\ M.in_document = L.in_document /\ M.anchor_map = L.anchor_map
      /\ Len(M.docs) = Len(L.docs) /\ Vals(M.docs) = Vals(L.docs)
      /\ Len(M.stack) = Len(L.stack)
      /\ \A i \in DOMAIN L.stack : Twins(L.stack[i], M.stack[i])
  BY DEF Paired, Agree
<1>2. /\ IsLoader(A) /\ A.in_document = L.in_document
      /\ A.docs = L.docs /\ A.anchor_map = L.anchor_map /\ A.alias_bytes = L.alias_bytes
      /\ \/ A.err = "depth" /\ A.anchor_def_spans = L.anchor_def_spans
         \/ /\ A.err = "none" /\ A.depth = L.depth + 1 /\ A.stack = Append(L.stack, frame)
            /\ \A a \in Anchors : A.anchor_def_spans[a] =
                 IF a = c.anchor THEN frame.start ELSE L.anchor_def_spans[a]
  BY <1>0, StartFacts
<1>3. /\ IsLoader(B) /\ B.in_document = M.in_document
      /\ B.docs = M.docs /\ B.anchor_map = M.anchor_map /\ B.alias_bytes = M.alias_bytes
      /\ \/ B.err = "depth" /\ B.anchor_def_spans = M.anchor_def_spans
         \/ /\ B.err = "none" /\ B.depth = M.depth + 1 /\ B.stack = Append(M.stack, frame)
            /\ \A a \in Anchors : B.anchor_def_spans[a] =
                 IF a = c.anchor THEN frame.start ELSE M.anchor_def_spans[a]
  BY <1>0, StartFacts
<1>4. A.err = "depth" <=> B.err = "depth"
  <2>1. A.err = "depth" <=> depth_exceeded(L.depth + 1, MaxDepth)
    BY <1>0, StartError
  <2>2. B.err = "depth" <=> depth_exceeded(M.depth + 1, MaxDepth)
    BY <1>0, StartError
  <2>. QED BY <1>1, <2>1, <2>2
<1>. SUFFICES Agree(A, B)
  OBVIOUS
<1>. HIDE DEF A, B
<1>5. CASE A.err = "depth"
  BY <1>1, <1>2, <1>3, <1>4, <1>5 DEF Agree
<1>6. CASE A.err # "depth"
  <2>1. B.anchor_def_spans = A.anchor_def_spans
    <3>1. A.anchor_def_spans \in [Anchors -> Nat] /\ B.anchor_def_spans \in [Anchors -> Nat]
      BY <1>2, <1>3 DEF IsLoader
    <3>2. \A a \in Anchors : A.anchor_def_spans[a] = B.anchor_def_spans[a]
      BY <1>1, <1>2, <1>3, <1>4, <1>6
    <3>. QED BY <3>1, <3>2
  <2>2. A.stack = Append(L.stack, frame) /\ B.stack = Append(M.stack, frame)
    BY <1>2, <1>3, <1>4, <1>6
  <2>3. /\ IsSeq(L.stack) /\ IsSeq(M.stack) /\ Len(L.stack) \in Nat
        /\ DOMAIN L.stack = 1 .. Len(L.stack)
    BY <1>0, SeqFacts DEF IsLoader
  <2>4. /\ IsSeq(A.stack) /\ Len(A.stack) = Len(L.stack) + 1
        /\ \A i \in 1 .. Len(L.stack) : A.stack[i] = L.stack[i]
        /\ A.stack[Len(L.stack) + 1] = frame
    BY <2>2, <2>3, AppendSeq
  <2>5. /\ IsSeq(B.stack) /\ Len(B.stack) = Len(L.stack) + 1
        /\ \A i \in 1 .. Len(L.stack) : B.stack[i] = M.stack[i]
        /\ B.stack[Len(L.stack) + 1] = frame
    BY <1>1, <2>2, <2>3, AppendSeq
  <2>6. DOMAIN A.stack = 1 .. Len(L.stack) + 1
    BY <2>4, SeqFacts
  <2>7. ASSUME NEW i \in 1 .. Len(L.stack) + 1 PROVE Twins(A.stack[i], B.stack[i])
    <3>1. i \in 1 .. Len(L.stack) \/ i = Len(L.stack) + 1
      BY <2>3
    <3>2. Twins(frame, frame)
      BY DEF Twins
    <3>. QED BY <1>1, <2>3, <2>4, <2>5, <3>1, <3>2
  <2>8. A.err = "none" /\ B.err = "none" /\ A.depth = B.depth
    BY <1>1, <1>2, <1>3, <1>4, <1>6
  <2>. QED BY <1>1, <1>2, <1>3, <2>1, <2>4, <2>5, <2>6, <2>7, <2>8 DEF Agree
<1>. QED
  BY <1>5, <1>6

LEMMA CompletedTwins ==
  ASSUME NEW L, NEW M, Paired(L, M), L.stack # <<>>, NEW inner
  PROVE  Agree(Completed(L, Last(L.stack), inner), Completed(M, Last(M.stack), inner))
<1> DEFINE f == Last(L.stack)
           g == Last(M.stack)
           v == wrap_with_tag(inner, f.tag)
           A == DefineAnchor(Pop(L), f.anchor, v, f.start)
           B == DefineAnchor(Pop(M), f.anchor, v, f.start)
           span == Span(FALSE, f.start, f.start)
<1>1. g.anchor = f.anchor /\ g.tag = f.tag /\ g.start = f.start /\ f.anchor \in Anchors \cup {None}
  BY TopTwins DEF Twins, IsFrame
<1>2. Paired(Pop(L), Pop(M))
  BY PopTwins
<1>3. /\ Completed(L, f, inner) = Push(A, v, span, FALSE)
      /\ Completed(M, g, inner) = Push(B, v, span, FALSE)
  BY <1>1 DEF Completed
<1>. HIDE DEF v, span
<1>4. Paired(A, B)
  BY <1>1, <1>2, DefineAnchorTwins
<1>. HIDE DEF A, B
<1>. QED
  BY <1>3, <1>4, PushTwins

LEMMA SequenceEndTwins ==
  ASSUME NEW L, NEW M, Paired(L, M), L.stack # <<>>, Last(L.stack).f = "seq", NEW pos
  PROVE  Agree(SequenceEnd(L, pos), SequenceEnd(M, pos))
<1> DEFINE inner == SequenceOf(Last(L.stack).items)
<1>1. M.stack # <<>> /\ Last(M.stack).f = "seq" /\ Last(M.stack).items = Last(L.stack).items
  BY TopTwins DEF Twins
<1>2. /\ SequenceEnd(L, pos) = Completed(L, Last(L.stack), inner)
      /\ SequenceEnd(M, pos) = Completed(M, Last(M.stack), inner)
  BY <1>1 DEF SequenceEnd, Innermost
<1>. HIDE DEF inner
<1>. QED
  BY <1>2, CompletedTwins

LEMMA MappingEndTwins ==
  ASSUME NEW L, NEW M, Paired(L, M), L.stack # <<>>, Last(L.stack).f = "key", NEW pos
  PROVE  Agree(MappingEnd(L, pos), MappingEnd(M, pos))
<1> DEFINE f == Last(L.stack)
           g == Last(M.stack)
           inner == MappingOf(Merged(f))
           bad == \E i \in DOMAIN f.merge_values : ~f.merge_values[i].mergeable
<1>1. M.stack # <<>> /\ g.f = "key" /\ g.map = f.map /\ g.merge_values = f.merge_values
  BY TopTwins DEF Twins
<1>2. Merged(g) = Merged(f)
  BY <1>1 DEF Merged
<1>3. /\ MappingEnd(L, pos) = IF bad THEN Fail(Pop(L), "scalar_in_merge", 0)
                              ELSE Completed(L, f, inner)
      /\ MappingEnd(M, pos) = IF bad THEN Fail(Pop(M), "scalar_in_merge", 0)
                              ELSE Completed(M, g, inner)
  BY <1>1, <1>2 DEF MappingEnd, Innermost
<1>. HIDE DEF inner, bad
<1>4. Paired(Pop(L), Pop(M))
  BY PopTwins
<1>5. CASE bad
  <2>1. IsLoader(Pop(L)) /\ IsLoader(Pop(M)) /\ Agree(Pop(L), Pop(M))
    BY <1>4 DEF Paired
  <2>. QED BY <1>3, <1>5, <2>1, FailTwins
<1>6. CASE ~bad
  BY <1>3, <1>6, CompletedTwins
<1>. QED
  BY <1>5, <1>6

LEMMA DocumentTwins ==
  ASSUME NEW L, NEW M, Paired(L, M)
  PROVE  Agree(DocumentStart(L), DocumentStart(M)) /\ Agree(DocumentEnd(L), DocumentEnd(M))
<1>0. IsLoader(L) /\ IsLoader(M)
  BY DEF Paired
<1>1. /\ M.err = "none" /\ L.err = "none" /\ M.anchor_def_spans = L.anchor_def_spans
      /\ M.alias_bytes = L.alias_bytes /\ M.depth = L.depth
      /\ M.anchor_map = L.anchor_map
  BY DEF Paired, Agree
<1>2. LET A == DocumentStart(L)
          B == DocumentStart(M)
      IN  /\ A.docs = L.docs /\ A.stack = L.stack /\ A.err = "none"
          /\ B.docs = M.docs /\ B.stack = M.stack /\ B.err = "none"
          /\ B.anchor_map = A.anchor_map /\ B.anchor_def_spans = A.anchor_def_spans
          /\ B.alias_bytes = A.alias_bytes /\ B.depth = A.depth
          /\ B.in_document = A.in_document
  <2>1. LET A == DocumentStart(L)
        IN  /\ A.docs = L.docs /\ A.stack = L.stack /\ A.err = L.err /\ A.anchor_map = NoAnchors
            /\ A.anchor_def_spans = [a \in Anchors |-> 0] /\ A.alias_bytes = 0
            /\ A.depth = L.depth /\ A.in_document = TRUE
    BY <1>0, DocumentStartFacts
  <2>2. LET B == DocumentStart(M)
        IN  /\ B.docs = M.docs /\ B.stack = M.stack /\ B.err = M.err /\ B.anchor_map = NoAnchors
            /\ B.anchor_def_spans = [a \in Anchors |-> 0] /\ B.alias_bytes = 0
            /\ B.depth = M.depth /\ B.in_document = TRUE
    BY <1>0, DocumentStartFacts
  <2>. QED BY <1>1, <2>1, <2>2
<1>3. LET A == DocumentEnd(L)
          B == DocumentEnd(M)
      IN  /\ A.docs = L.docs /\ A.stack = L.stack /\ A.err = "none"
          /\ B.docs = M.docs /\ B.stack = M.stack /\ B.err = "none"
          /\ B.anchor_map = A.anchor_map /\ B.anchor_def_spans = A.anchor_def_spans
          /\ B.alias_bytes = A.alias_bytes /\ B.depth = A.depth
          /\ B.in_document = A.in_document
  <2>1. LET A == DocumentEnd(L)
        IN  /\ A.docs = L.docs /\ A.stack = L.stack /\ A.err = L.err
            /\ A.anchor_map = L.anchor_map /\ A.anchor_def_spans = L.anchor_def_spans
            /\ A.alias_bytes = L.alias_bytes /\ A.depth = L.depth /\ A.in_document = FALSE
    BY <1>0, DocumentEndFacts
  <2>2. LET B == DocumentEnd(M)
        IN  /\ B.docs = M.docs /\ B.stack = M.stack /\ B.err = M.err
            /\ B.anchor_map = M.anchor_map /\ B.anchor_def_spans = M.anchor_def_spans
            /\ B.alias_bytes = M.alias_bytes /\ B.depth = M.depth /\ B.in_document = FALSE
    BY <1>0, DocumentEndFacts
  <2>. QED BY <1>1, <2>1, <2>2
<1>. QED
  BY <1>2, <1>3, SameChange

-----------------------------------------------------------------------------
(* Every event keeps the invariant.                                        *)

LEMMA GoodFacts ==
  ASSUME NEW L, NEW M, NEW ph, NEW o, NEW d, NEW l, Good(L, M, ph, o, d, l), L.err = "none"
  PROVE  /\ Together(L, ph, o, d) /\ IsLoader(L) /\ IsLoader(M) /\ d \in Nat
         /\ Paired(L, M) /\ M.err = "none"
         /\ Has(l, Anchors) /\ \A a \in Anchors : l[a].doc \in 0 .. d
         /\ ph \in InDocument => d > 0 /\ Scope(L, d, l) /\ L.in_document /\ M.in_document
         /\ ph = "inside" <=> L.stack # <<>>
         /\ ph = "inside" => Last(L.stack).f = o[Len(o)]
<1>1. Together(L, ph, o, d) /\ IsLoader(L) /\ IsLoader(M) /\ d \in Nat
  BY DEF Good, Together
<1>2. Paired(L, M) /\ M.err = "none" /\ M.in_document = L.in_document
  BY <1>1 DEF Good, Paired, Agree
<1>3. (ph = "inside" <=> L.stack # <<>>) /\ (ph = "inside" => Last(L.stack).f = o[Len(o)])
  BY <1>1, StackOpen
<1>4. L.in_document <=> ph \in InDocument
  BY DEF Good, Together, Follows
<1>5. /\ Has(l, Anchors) /\ \A a \in Anchors : l[a].doc \in 0 .. d
      /\ ph \in InDocument => d > 0 /\ Scope(L, d, l)
  BY DEF Good, Ghosts
<1>. QED
  BY <1>1, <1>2, <1>3, <1>4, <1>5

\* A leaf stays in the document.
Leafs(ph, o, ph2, o2) ==
  \/ ph = "root" /\ ph2 = "rooted" /\ o2 = <<>>
  \/ ph = "inside" /\ ph2 = "inside" /\ o2 = Place(o)

LEMMA ScalarGood ==
  ASSUME NEW L, NEW M, NEW ph, NEW o, NEW d, NEW l, Good(L, M, ph, o, d, l), L.err = "none",
         NEW ph2, NEW o2, Leafs(ph, o, ph2, o2),
         NEW s, s.anchor \in Anchors \cup {None}, NEW pos \in Nat, pos # 0
  PROVE  Good(Scalar(L, s, pos), Scalar(M, s, pos), ph2, o2, d, Latest(l, s.anchor, s.val, d))
<1> DEFINE A == Scalar(L, s, pos)
           B == Scalar(M, s, pos)
           m == Latest(l, s.anchor, s.val, d)
<1>1. /\ Together(L, ph, o, d) /\ IsLoader(L) /\ IsLoader(M) /\ d \in Nat
      /\ Paired(L, M) /\ M.err = "none"
      /\ Has(l, Anchors) /\ \A a \in Anchors : l[a].doc \in 0 .. d
  BY GoodFacts
<1>2. ph \in InDocument /\ ph2 \in InDocument /\ ph2 # "failed"
  BY DEF Leafs, InDocument
<1>3. d > 0 /\ Scope(L, d, l)
  BY <1>2, GoodFacts
<1>4. /\ IsLoader(A) /\ Step(L, A) /\ A.spanned = L.spanned
      /\ A.depth = L.depth /\ A.in_document = L.in_document
  BY <1>1, ScalarFacts
<1>5. IsLoader(B) /\ B.spanned = M.spanned
  BY <1>1, ScalarFacts
<1>6. Has(m, Anchors) /\ \A a \in Anchors : m[a].doc \in 0 .. d
  BY <1>1, LatestFacts
<1>7. A.err = "none" => Scope(A, d, m)
  BY <1>1, <1>3, ScalarScope
<1>8. Agree(A, B)
  BY <1>1, ScalarTwins
<1>. SUFFICES Good(A, B, ph2, o2, d, m)
  OBVIOUS
<1>. HIDE DEF A, B, m
<1>9. Together(A, ph2, o2, d)
  BY <1>1, <1>4, LeafFollows DEF Leafs
<1>10. A.spanned = TRUE /\ B.spanned = FALSE
  BY <1>1, <1>4, <1>5 DEF Paired
<1>11. Ghosts(ph2, d, m)
  BY <1>2, <1>3, <1>6 DEF Ghosts
<1>. QED
  BY <1>2, <1>5, <1>7, <1>8, <1>9, <1>10, <1>11 DEF Good

LEMMA AliasGood ==
  ASSUME NEW L, NEW M, NEW ph, NEW o, NEW d, NEW l, Good(L, M, ph, o, d, l), L.err = "none",
         NEW ph2, NEW o2, Leafs(ph, o, ph2, o2), NEW anchor, NEW pos
  PROVE  Good(resolve_alias(L, anchor, pos), resolve_alias(M, anchor, pos), ph2, o2, d, l)
<1> DEFINE A == resolve_alias(L, anchor, pos)
           B == resolve_alias(M, anchor, pos)
<1>1. /\ Together(L, ph, o, d) /\ IsLoader(L) /\ IsLoader(M) /\ d \in Nat
      /\ Paired(L, M) /\ M.err = "none"
      /\ Has(l, Anchors) /\ \A a \in Anchors : l[a].doc \in 0 .. d
  BY GoodFacts
<1>2. ph \in InDocument /\ ph2 \in InDocument /\ ph2 # "failed"
  BY DEF Leafs, InDocument
<1>3. d > 0 /\ Scope(L, d, l) /\ L.in_document /\ M.in_document
  BY <1>2, GoodFacts
<1>4. /\ IsLoader(A) /\ Step(L, A) /\ A.spanned = L.spanned
      /\ A.depth = L.depth /\ A.in_document = L.in_document
  <2>1. IsLoader(L) /\ L.err = "none" /\ L.in_document
    BY <1>1, <1>3
  <2>. QED BY ONLY <2>1, AliasFacts, ZenonT(60)
<1>5. IsLoader(B) /\ B.spanned = M.spanned
  <2>1. IsLoader(M) /\ M.err = "none" /\ M.in_document
    BY <1>1, <1>3
  <2>. QED BY ONLY <2>1, AliasFacts
<1>6. A.err = "none" => Scope(A, d, l)
  BY <1>1, <1>3, AliasScope
<1>7. Agree(A, B)
  BY <1>1, AliasTwins
<1>. SUFFICES Good(A, B, ph2, o2, d, l)
  OBVIOUS
<1>. HIDE DEF A, B
<1>8. Together(A, ph2, o2, d)
  BY <1>1, <1>4, LeafFollows DEF Leafs
<1>9. A.spanned = TRUE /\ B.spanned = FALSE
  BY <1>1, <1>4, <1>5 DEF Paired
<1>10. Ghosts(ph2, d, l)
  BY <1>1, <1>2, <1>3 DEF Ghosts
<1>. QED
  BY <1>2, <1>5, <1>6, <1>7, <1>8, <1>9, <1>10 DEF Good

LEMMA StartGood ==
  ASSUME NEW L, NEW M, NEW ph, NEW o, NEW d, NEW l, Good(L, M, ph, o, d, l), L.err = "none",
         NEW c, c.anchor \in Anchors \cup {None}, NEW frame, IsFrame(frame), frame.f \in Kind,
         frame.start \in Nat, frame.start # 0, frame.anchor = c.anchor,
         NEW o2,
         \/ ph = "root" /\ o2 = <<frame.f>>
         \/ ph = "inside" /\ o2 = Append(Place(o), frame.f)
  PROVE  Good(CollectionStart(L, c, frame), CollectionStart(M, c, frame), "inside", o2, d, l)
<1> DEFINE A == CollectionStart(L, c, frame)
           B == CollectionStart(M, c, frame)
<1>1. /\ Together(L, ph, o, d) /\ IsLoader(L) /\ IsLoader(M) /\ d \in Nat
      /\ Paired(L, M) /\ M.err = "none"
      /\ Has(l, Anchors) /\ \A a \in Anchors : l[a].doc \in 0 .. d
  BY GoodFacts
<1>2. ph \in InDocument /\ "inside" \in InDocument
  BY DEF InDocument
<1>3. d > 0 /\ Scope(L, d, l)
  BY <1>2, GoodFacts
<1>4. /\ IsLoader(A) /\ A.spanned = L.spanned /\ A.in_document = L.in_document
      /\ A.docs = L.docs
      /\ \/ A.err = "depth"
         \/ A.err = "none" /\ A.depth = L.depth + 1 /\ A.stack = Append(L.stack, frame)
  BY <1>1, StartFacts
<1>5. IsLoader(B) /\ B.spanned = M.spanned
  BY <1>1, StartFacts
<1>6. A.err = "none" => Scope(A, d, l)
  BY <1>1, <1>3, StartScope
<1>7. Agree(A, B)
  BY <1>1, StartTwins
<1>. SUFFICES Good(A, B, "inside", o2, d, l)
  OBVIOUS
<1>. HIDE DEF A, B
<1>8. Together(A, "inside", o2, d)
  BY <1>1, <1>4, BeginFollows
<1>9. A.spanned = TRUE /\ B.spanned = FALSE
  BY <1>1, <1>4, <1>5 DEF Paired
<1>10. Ghosts("inside", d, l)
  BY <1>1, <1>2, <1>3 DEF Ghosts
<1>. QED
  BY <1>5, <1>6, <1>7, <1>8, <1>9, <1>10 DEF Good

\* Any end event, from what it leaves of each loader.
LEMMA FinishGood ==
  ASSUME NEW L, NEW M, NEW o, NEW d, NEW l, Good(L, M, "inside", o, d, l), L.err = "none",
         NEW A, NEW B, NEW v, NEW w, Ended(L, A, v), Ended(M, B, w), Agree(A, B)
  PROVE  Good(A, B, IF Len(o) = 1 THEN "rooted" ELSE "inside", SubSeq(o, 1, Len(o) - 1), d,
              Latest(l, Last(L.stack).anchor, v, d))
<1> DEFINE ph2 == IF Len(o) = 1 THEN "rooted" ELSE "inside"
           o2 == SubSeq(o, 1, Len(o) - 1)
           m == Latest(l, Last(L.stack).anchor, v, d)
<1>1. /\ Together(L, "inside", o, d) /\ IsLoader(L) /\ IsLoader(M) /\ d \in Nat
      /\ Paired(L, M) /\ M.err = "none" /\ L.stack # <<>>
      /\ Has(l, Anchors) /\ \A a \in Anchors : l[a].doc \in 0 .. d
  BY GoodFacts
<1>2. ph2 \in InDocument /\ "inside" \in InDocument /\ ph2 # "failed"
  BY DEF InDocument
<1>3. d > 0 /\ Scope(L, d, l)
  BY <1>2, GoodFacts
<1>4. IsLoader(A) /\ A.spanned = L.spanned /\ IsLoader(B) /\ B.spanned = M.spanned
  BY DEF Ended
<1>5. Last(L.stack).anchor \in Anchors \cup {None}
  BY <1>1, TopFrame DEF IsFrame
<1>6. Has(m, Anchors) /\ \A a \in Anchors : m[a].doc \in 0 .. d
  <2>1. Has(l, Anchors) /\ d \in Nat /\ \A a \in Anchors : l[a].doc \in 0 .. d
    BY <1>1
  <2>. DEFINE x == Last(L.stack).anchor
  <2>2. x \in Anchors \cup {None}
    BY <1>5
  <2>. HIDE DEF x
  <2>3. LET k == Latest(l, x, v, d)
        IN  Has(k, Anchors) /\ \A a \in Anchors : k[a].doc \in 0 .. d
    BY <2>1, <2>2, LatestFacts
  <2>. QED BY <2>3 DEF x
<1>7. A.err = "none" => Scope(A, d, m)
  BY <1>1, <1>3, FinishScope
<1>8. Together(A, ph2, o2, d)
  BY <1>1, FinishFollows
<1>. SUFFICES Good(A, B, ph2, o2, d, m)
  OBVIOUS
<1>. HIDE DEF ph2, o2, m
<1>9. A.spanned = TRUE /\ B.spanned = FALSE
  BY <1>1, <1>4 DEF Paired
<1>10. Ghosts(ph2, d, m)
  BY <1>2, <1>3, <1>6 DEF Ghosts
<1>. QED
  BY <1>2, <1>4, <1>7, <1>8, <1>9, <1>10 DEF Good

LEMMA DocumentStartGood ==
  ASSUME NEW L, NEW M, NEW o, NEW d, NEW l, Good(L, M, "between", o, d, l), L.err = "none"
  PROVE  Good(DocumentStart(L), DocumentStart(M), "root", <<>>, d + 1, l)
<1> DEFINE A == DocumentStart(L)
           B == DocumentStart(M)
<1>1. /\ Together(L, "between", o, d) /\ IsLoader(L) /\ IsLoader(M) /\ d \in Nat
      /\ Paired(L, M) /\ L.stack = <<>>
      /\ Has(l, Anchors) /\ \A a \in Anchors : l[a].doc \in 0 .. d
  BY GoodFacts
<1>2. /\ IsLoader(A) /\ A.spanned = L.spanned /\ A.docs = L.docs /\ A.stack = <<>>
      /\ A.depth = L.depth /\ A.in_document = TRUE /\ A.err = "none"
  BY <1>1, DocumentStartFacts
<1>3. IsLoader(B) /\ B.spanned = M.spanned
  BY <1>1, DocumentStartFacts
<1>4. Scope(A, d + 1, l)
  BY <1>1, DocumentScope
<1>5. Agree(A, B)
  BY <1>1, DocumentTwins
<1>. SUFFICES Good(A, B, "root", <<>>, d + 1, l)
  OBVIOUS
<1>. HIDE DEF A, B
<1>6. Together(A, "root", <<>>, d + 1)
  <2>1. L.depth = Len(o) /\ o = <<>>
    BY <1>1, StackOpen
  <2>2. Len(L.docs) = d
    BY <1>1 DEF Together, Follows
  <2>3. Grammar("root", <<>>)
    BY EmptySeq DEF Grammar
  <2>4. Match(A, <<>>)
    BY <1>2 DEF Match
  <2>5. A.err \notin Impossible /\ (A.in_document <=> "root" \in InDocument)
    BY <1>2 DEF Impossible, InDocument
  <2>6. A.depth = Len(<<>>) /\ Len(A.docs) = (d + 1) - 1 /\ d + 1 \in Nat
    BY <1>1, <1>2, <2>1, <2>2
  <2>. QED BY <1>2, <2>3, <2>4, <2>5, <2>6 DEF Together, Follows
<1>7. A.spanned = TRUE /\ B.spanned = FALSE
  BY <1>1, <1>2, <1>3 DEF Paired
<1>8. Ghosts("root", d + 1, l)
  BY <1>1 DEF Ghosts, InDocument
<1>. QED
  BY <1>3, <1>4, <1>5, <1>6, <1>7, <1>8 DEF Good

\* Between documents nothing is open.
LEMMA OutsideGood ==
  ASSUME NEW L, NEW M, NEW d \in Nat, NEW l, NEW ph \in {"start", "between", "end"},
         IsLoader(L), IsLoader(M), L.spanned = TRUE, M.spanned = FALSE, L.err = "none",
         L.stack = <<>>, L.depth = 0, L.in_document = FALSE, Len(L.docs) = d, Agree(L, M),
         Has(l, Anchors), \A a \in Anchors : l[a].doc \in 0 .. d
  PROVE  Good(L, M, ph, <<>>, d, l)
<1>1. Grammar(ph, <<>>)
  BY EmptySeq DEF Grammar
<1>2. Match(L, <<>>)
  BY DEF Match
<1>3. L.err \notin Impossible /\ (L.in_document <=> ph \in InDocument)
  BY DEF Impossible, InDocument
<1>4. Follows(L, ph, <<>>, d)
  BY <1>2, <1>3 DEF Follows
<1>5. Ghosts(ph, d, l) /\ ph # "failed" /\ ph \notin InDocument
  BY DEF Ghosts, InDocument
<1>. QED
  BY <1>1, <1>4, <1>5 DEF Good, Together

LEMMA DocumentEndGood ==
  ASSUME NEW L, NEW M, NEW o, NEW d, NEW l, Good(L, M, "rooted", o, d, l), L.err = "none"
  PROVE  Good(DocumentEnd(L), DocumentEnd(M), "between", <<>>, d, l)
<1> DEFINE A == DocumentEnd(L)
           B == DocumentEnd(M)
<1>1. /\ Together(L, "rooted", o, d) /\ IsLoader(L) /\ IsLoader(M) /\ d \in Nat
      /\ Paired(L, M) /\ L.stack = <<>>
      /\ Has(l, Anchors) /\ \A a \in Anchors : l[a].doc \in 0 .. d
  BY GoodFacts
<1>2. /\ IsLoader(A) /\ A.spanned = L.spanned /\ A.docs = L.docs /\ A.stack = <<>>
      /\ A.depth = L.depth /\ A.in_document = FALSE /\ A.err = "none"
  BY <1>1, DocumentEndFacts
<1>3. IsLoader(B) /\ B.spanned = M.spanned
  BY <1>1, DocumentEndFacts
<1>4. Agree(A, B)
  BY <1>1, DocumentTwins
<1>5. L.depth = Len(o) /\ o = <<>> /\ Len(L.docs) = d
  BY <1>1, StackOpen DEF Together, Follows
<1>6. A.spanned = TRUE /\ B.spanned = FALSE /\ A.depth = 0 /\ Len(A.docs) = d
  BY <1>1, <1>2, <1>3, <1>5 DEF Paired
<1>. HIDE DEF A, B
<1>7. Good(A, B, "between", <<>>, d, l)
  BY <1>1, <1>2, <1>3, <1>4, <1>6, OutsideGood
<1>. QED
  BY <1>7 DEF A, B

LEMMA StreamGood ==
  ASSUME NEW L, NEW M, NEW o, NEW d, NEW l, NEW ph \in {"start", "between"},
         Good(L, M, ph, o, d, l), L.err = "none", NEW ph2 \in {"between", "end"}
  PROVE  Good(L, M, ph2, <<>>, d, l)
<1>1. /\ Together(L, ph, o, d) /\ IsLoader(L) /\ IsLoader(M) /\ d \in Nat
      /\ L.stack = <<>>
      /\ Has(l, Anchors) /\ \A a \in Anchors : l[a].doc \in 0 .. d
  BY GoodFacts
<1>2. L.depth = Len(o) /\ o = <<>> /\ Len(L.docs) = d
  BY <1>1, StackOpen DEF Together, Follows
<1>3. /\ L.spanned = TRUE /\ M.spanned = FALSE /\ Agree(L, M)
      /\ L.in_document <=> ph \in InDocument
  BY DEF Good, Together, Follows
<1>4. ~L.in_document
  BY <1>3 DEF InDocument
<1>5. Grammar(ph2, <<>>)
  BY EmptySeq DEF Grammar
<1>6. Match(L, <<>>)
  BY <1>1 DEF Match
<1>7. L.err \notin Impossible /\ (L.in_document <=> ph2 \in InDocument)
  BY <1>4 DEF Impossible, InDocument
<1>8. Follows(L, ph2, <<>>, d)
  BY <1>2, <1>6, <1>7 DEF Follows
<1>9. Ghosts(ph2, d, l) /\ ph2 # "failed" /\ ph2 \notin InDocument
  BY <1>1 DEF Ghosts, InDocument
<1>. QED
  BY <1>1, <1>3, <1>5, <1>8, <1>9 DEF Good, Together

LEMMA RefusedGood ==
  ASSUME NEW L, NEW M, NEW ph, NEW o, NEW d, NEW l, Good(L, M, ph, o, d, l), L.err = "none",
         NEW pos
  PROVE  Good(Fail(L, "refused", pos), Fail(M, "refused", pos), "failed", <<>>, d, l)
<1> DEFINE A == Fail(L, "refused", pos)
           B == Fail(M, "refused", pos)
<1>1. /\ IsLoader(L) /\ IsLoader(M) /\ d \in Nat /\ Agree(L, M)
      /\ L.spanned = TRUE /\ M.spanned = FALSE
      /\ Has(l, Anchors) /\ \A a \in Anchors : l[a].doc \in 0 .. d
  BY DEF Good, Together, Ghosts
<1>2. IsLoader(A) /\ Keeps(L, A) /\ A.err = "refused"
  BY <1>1, FailFacts
<1>3. IsLoader(B) /\ Keeps(M, B)
  BY <1>1, FailFacts
<1>4. Agree(A, B)
  BY <1>1, FailTwins
<1>. SUFFICES Good(A, B, "failed", <<>>, d, l)
  OBVIOUS
<1>. HIDE DEF A, B
<1>5. Grammar("failed", <<>>)
  BY EmptySeq DEF Grammar
<1>6. Follows(A, "failed", <<>>, d)
  BY <1>2 DEF Follows, Impossible
<1>7. Ghosts("failed", d, l)
  BY <1>1 DEF Ghosts, InDocument
<1>. QED
  BY <1>1, <1>2, <1>3, <1>4, <1>5, <1>6, <1>7 DEF Good, Together, Keeps

LEMMA NewFacts ==
  ASSUME NEW b
  PROVE  LET L == NewLoader(b)
         IN  /\ IsLoader(L) /\ L.spanned = b /\ L.docs = <<>> /\ L.stack = <<>>
             /\ L.anchor_map = NoAnchors /\ L.anchor_def_spans = [a \in Anchors |-> 0]
             /\ L.alias_bytes = 0 /\ L.depth = 0 /\ L.in_document = FALSE /\ L.err = "none"
<1> DEFINE L == NewLoader(b)
<1>1. /\ Has(L, LoaderFields) /\ L.spanned = b /\ L.docs = <<>> /\ L.stack = <<>>
      /\ L.anchor_map = NoAnchors /\ L.anchor_def_spans = [a \in Anchors |-> 0]
      /\ L.alias_bytes = 0 /\ L.depth = 0 /\ L.in_document = FALSE /\ L.err = "none"
  BY DEF NewLoader, Has, LoaderFields
<1>. HIDE DEF L
<1>2. [a \in Anchors |-> 0] \in [Anchors -> Nat] /\ IsSeq(<<>>) /\ DOMAIN <<>> = {}
  BY NoneSeq
<1>3. IsLoader(L)
  BY <1>1, <1>2 DEF IsLoader
<1>. QED
  BY <1>1, <1>3 DEF L

LEMMA InitInv == Init => IInv
<1>. SUFFICES ASSUME Init PROVE IInv
  OBVIOUS
<1> DEFINE L == NewLoader(TRUE)
           M == NewLoader(FALSE)
           l == [a \in Anchors |-> [doc |-> 0, val |-> None]]
<1>1. /\ IsLoader(L) /\ L.spanned = TRUE /\ L.docs = <<>> /\ L.stack = <<>>
      /\ L.anchor_map = NoAnchors /\ L.anchor_def_spans = [a \in Anchors |-> 0]
      /\ L.alias_bytes = 0 /\ L.depth = 0 /\ L.in_document = FALSE /\ L.err = "none"
  BY NewFacts
<1>2. /\ IsLoader(M) /\ M.spanned = FALSE /\ M.docs = <<>> /\ M.stack = <<>>
      /\ M.anchor_map = NoAnchors /\ M.anchor_def_spans = [a \in Anchors |-> 0]
      /\ M.alias_bytes = 0 /\ M.depth = 0 /\ M.in_document = FALSE /\ M.err = "none"
  BY NewFacts
<1>3. Has(l, Anchors) /\ \A a \in Anchors : l[a].doc \in 0 .. 0
  BY DEF Has
<1>4. /\ phase = "start" /\ open = <<>> /\ n = 0 /\ doc = 0 /\ full = L /\ bare = M
      /\ latest = l /\ \E s \in Setups : input = s.input
  BY DEF Init, GInit
<1>. HIDE DEF L, M, l
<1>5. Agree(L, M)
  <2>1. M.docs = L.docs /\ M.stack = L.stack /\ DOMAIN L.stack = {}
    BY <1>1, <1>2
  <2>2. /\ M.err = L.err /\ M.anchor_def_spans = L.anchor_def_spans
        /\ M.alias_bytes = L.alias_bytes /\ M.depth = L.depth
        /\ M.in_document = L.in_document /\ M.anchor_map = L.anchor_map
    BY <1>1, <1>2
  <2>. QED BY <2>1, <2>2 DEF Agree
<1>6. Len(L.docs) = 0
  BY <1>1, NoneSeq
<1>7. Good(L, M, "start", <<>>, 0, l)
  BY <1>1, <1>2, <1>3, <1>5, <1>6, OutsideGood
<1>. QED
  BY <1>4, <1>7 DEF IInv

\* The nodes of the document name anchors.
LEMMA NodeAnchors ==
  ASSUME \E s \in Setups : input = s.input,
         NEW c \in input.scalars \cup input.sequences \cup input.mappings
  PROVE  c.anchor \in Anchors \cup {None}
BY SetupsAssumption

LEMMA NextInv == IInv /\ [Next]_vars => IInv'
<1>. SUFFICES ASSUME IInv, [Next]_vars PROVE IInv'
  OBVIOUS
<1>1. n \in Nat /\ (\E s \in Setups : input = s.input) /\ Good(full, bare, phase, open, doc, latest)
  BY DEF IInv
<1>2. CASE UNCHANGED vars
  BY <1>1, <1>2 DEF IInv, vars, gvars
<1>3. CASE Next
  <2>1. full.err = "none" /\ n' = n + 1 /\ input' = input
    BY <1>3 DEF Next
  <2>2. n' \in Nat /\ n' # 0
    BY <1>1, <2>1
  <2>3. SUFFICES Good(full', bare', phase', open', doc', latest')
    BY <1>1, <2>1, <2>2 DEF IInv
  <2>4. CASE StreamEvent
    <3>1. /\ phase \in {"start", "between"} /\ phase' \in {"between", "end"} /\ open' = <<>>
          /\ full' = full /\ bare' = bare /\ doc' = doc /\ latest' = latest
      BY <2>4 DEF StreamEvent, StartStream, EndStream
    <3>2. Good(full, bare, phase', <<>>, doc, latest)
      BY <1>1, <2>1, <3>1, StreamGood
    <3>. QED BY <3>1, <3>2
  <2>5. CASE DocumentStartEvent
    <3>1. /\ phase = "between" /\ phase' = "root" /\ open' = <<>>
          /\ full' = DocumentStart(full) /\ bare' = DocumentStart(bare)
          /\ doc' = doc + 1 /\ latest' = latest
      BY <2>5 DEF DocumentStartEvent, StartDocument
    <3>2. Good(DocumentStart(full), DocumentStart(bare), "root", <<>>, doc + 1, latest)
      BY <1>1, <2>1, <3>1, DocumentStartGood
    <3>. QED BY <3>1, <3>2
  <2>6. CASE DocumentEndEvent
    <3>1. /\ phase = "rooted" /\ phase' = "between" /\ open' = <<>>
          /\ full' = DocumentEnd(full) /\ bare' = DocumentEnd(bare)
          /\ doc' = doc /\ latest' = latest
      BY <2>6 DEF DocumentEndEvent, EndDocument
    <3>2. Good(DocumentEnd(full), DocumentEnd(bare), "between", <<>>, doc, latest)
      BY <1>1, <2>1, <3>1, DocumentEndGood
    <3>. QED BY <3>1, <3>2
  <2>7. CASE AliasEvent
    <3>1. PICK a \in input.aliases : full' = resolve_alias(full, a, n') /\ bare' = resolve_alias(bare, a, n')
      BY <2>7 DEF AliasEvent
    <3>2. Leafs(phase, open, phase', open') /\ doc' = doc /\ latest' = latest
      BY <2>7 DEF AliasEvent, Leaf, Leafs
    <3>3. Good(resolve_alias(full, a, n'), resolve_alias(bare, a, n'), phase', open', doc, latest)
      BY <1>1, <2>1, <3>2, AliasGood
    <3>. QED BY <3>1, <3>2, <3>3
  <2>8. CASE ScalarEvent
    <3>1. PICK s \in input.scalars :
            /\ full' = Scalar(full, s, n') /\ bare' = Scalar(bare, s, n')
            /\ Complete(s.anchor, s.val)
      BY <2>8 DEF ScalarEvent
    <3>2. Leafs(phase, open, phase', open') /\ doc' = doc
      BY <2>8 DEF ScalarEvent, Leaf, Leafs
    <3>3. latest' = Latest(latest, s.anchor, s.val, doc)
      BY <3>1 DEF Complete, Latest
    <3>4. s.anchor \in Anchors \cup {None}
      BY <1>1, NodeAnchors
    <3>5. Good(Scalar(full, s, n'), Scalar(bare, s, n'), phase', open', doc,
               Latest(latest, s.anchor, s.val, doc))
      BY <1>1, <2>1, <2>2, <3>2, <3>4, ScalarGood
    <3>. QED BY <3>1, <3>2, <3>3, <3>5
  <2>9. ASSUME NEW c \in input.sequences \cup input.mappings, NEW frame,
               IsFrame(frame), frame.f \in Kind, frame.start = n', frame.anchor = c.anchor,
               NEW e, Begin(e, frame.f), Started(c, frame)
        PROVE  Good(full', bare', phase', open', doc', latest')
    <3>1. /\ full' = CollectionStart(full, c, frame) /\ bare' = CollectionStart(bare, c, frame)
          /\ doc' = doc /\ latest' = latest
      BY <2>9 DEF Started
    <3>2. /\ phase' = "inside"
          /\ \/ phase = "root" /\ open' = <<frame.f>>
             \/ phase = "inside" /\ open' = Append(Place(open), frame.f)
      BY <2>9 DEF Begin
    <3>3. c.anchor \in Anchors \cup {None}
      BY <1>1, NodeAnchors
    <3>4. Good(CollectionStart(full, c, frame), CollectionStart(bare, c, frame), "inside",
               open', doc, latest)
      BY <1>1, <2>1, <2>2, <2>9, <3>2, <3>3, StartGood
    <3>. QED BY <3>1, <3>2, <3>4
  <2>10. CASE SequenceStartEvent
    <3>1. PICK c \in input.sequences : Started(c, SeqFrame(c.anchor, c.tag, n'))
      BY <2>10 DEF SequenceStartEvent
    <3> DEFINE frame == SeqFrame(c.anchor, c.tag, n')
    <3>2. c.anchor \in Anchors \cup {None}
      BY <1>1, NodeAnchors
    <3>3. /\ Has(frame, SeqFields) /\ frame.f = "seq" /\ frame.start = n'
          /\ frame.anchor = c.anchor
      BY DEF SeqFrame, Has, SeqFields
    <3>4. Begin("SequenceStart", "seq")
      BY <2>10 DEF SequenceStartEvent
    <3>. HIDE DEF frame
    <3>5. IsFrame(frame) /\ frame.f \in Kind
      BY <3>2, <3>3 DEF IsFrame, Kind
    <3>. QED BY <2>9, <3>1, <3>3, <3>4, <3>5 DEF frame
  <2>11. CASE MappingStartEvent
    <3>1. PICK c \in input.mappings : Started(c, MapFrame(c.anchor, c.tag, n'))
      BY <2>11 DEF MappingStartEvent
    <3> DEFINE frame == MapFrame(c.anchor, c.tag, n')
    <3>2. c.anchor \in Anchors \cup {None}
      BY <1>1, NodeAnchors
    <3>3. /\ Has(frame, MapFields) /\ frame.f = "key" /\ frame.start = n'
          /\ frame.anchor = c.anchor
      BY DEF MapFrame, Has, MapFields
    <3>4. Begin("MappingStart", "key")
      BY <2>11 DEF MappingStartEvent
    <3>. HIDE DEF frame
    <3>5. IsFrame(frame) /\ frame.f \in Kind
      BY <3>2, <3>3 DEF IsFrame, Kind
    <3>. QED BY <2>9, <3>1, <3>3, <3>4, <3>5 DEF frame
  <2>12. CASE SequenceEndEvent
    <3> DEFINE v == wrap_with_tag(SequenceOf(Last(full.stack).items), Last(full.stack).tag)
               w == wrap_with_tag(SequenceOf(Last(bare.stack).items), Last(bare.stack).tag)
    <3>1. /\ phase = "inside" /\ open[Len(open)] = "seq"
          /\ open' = SubSeq(open, 1, Len(open) - 1)
          /\ phase' = IF Len(open) = 1 THEN "rooted" ELSE "inside"
      BY <2>12 DEF SequenceEndEvent, Finish
    <3>2. /\ full' = SequenceEnd(full, n') /\ bare' = SequenceEnd(bare, n') /\ doc' = doc
          /\ latest' = Latest(latest, Last(full.stack).anchor, v, doc)
      BY <2>12 DEF SequenceEndEvent, Complete, Latest
    <3>3. /\ IsLoader(full) /\ IsLoader(bare) /\ bare.err = "none" /\ Paired(full, bare)
          /\ full.stack # <<>> /\ Last(full.stack).f = "seq"
      BY <1>1, <2>1, <3>1, GoodFacts
    <3>4. bare.stack # <<>> /\ Last(bare.stack).f = "seq"
      BY <3>3, TopTwins DEF Twins
    <3>5. Ended(full, full', v) /\ Ended(bare, bare', w)
      BY <2>1, <3>2, <3>3, <3>4, SequenceEndFacts
    <3>6. Agree(full', bare')
      BY <3>2, <3>3, SequenceEndTwins
    <3>. HIDE DEF v, w
    <3>. QED BY <1>1, <2>1, <3>1, <3>2, <3>5, <3>6, FinishGood
  <2>13. CASE MappingEndEvent
    <3> DEFINE v == wrap_with_tag(MappingOf(Merged(Last(full.stack))), Last(full.stack).tag)
               w == wrap_with_tag(MappingOf(Merged(Last(bare.stack))), Last(bare.stack).tag)
    <3>1. /\ phase = "inside" /\ open[Len(open)] = "key"
          /\ open' = SubSeq(open, 1, Len(open) - 1)
          /\ phase' = IF Len(open) = 1 THEN "rooted" ELSE "inside"
      BY <2>13 DEF MappingEndEvent, Finish
    <3>2. /\ full' = MappingEnd(full, n') /\ bare' = MappingEnd(bare, n') /\ doc' = doc
          /\ latest' = Latest(latest, Last(full.stack).anchor, v, doc)
      BY <2>13 DEF MappingEndEvent, Complete, Latest
    <3>3. /\ IsLoader(full) /\ IsLoader(bare) /\ bare.err = "none" /\ Paired(full, bare)
          /\ full.stack # <<>> /\ Last(full.stack).f = "key"
      BY <1>1, <2>1, <3>1, GoodFacts
    <3>4. bare.stack # <<>> /\ Last(bare.stack).f = "key"
      BY <3>3, TopTwins DEF Twins
    <3>5. Ended(full, full', v) /\ Ended(bare, bare', w)
      BY <2>1, <3>2, <3>3, <3>4, MappingEndFacts
    <3>6. Agree(full', bare')
      BY <3>2, <3>3, MappingEndTwins
    <3>. HIDE DEF v, w
    <3>. QED BY <1>1, <2>1, <3>1, <3>2, <3>5, <3>6, FinishGood
  <2>14. CASE Refused
    <3>1. /\ phase' = "failed" /\ open' = <<>> /\ doc' = doc /\ latest' = latest
          /\ full' = Fail(full, "refused", n') /\ bare' = Fail(bare, "refused", n')
      BY <2>14 DEF Refused, Refuse
    <3>2. Good(Fail(full, "refused", n'), Fail(bare, "refused", n'), "failed", <<>>, doc, latest)
      BY <1>1, <2>1, RefusedGood
    <3>. QED BY <3>1, <3>2
  <2>. QED
    BY <1>3, <2>4, <2>5, <2>6, <2>7, <2>8, <2>10, <2>11, <2>12, <2>13, <2>14 DEF Next
<1>. QED
  BY <1>2, <1>3

-----------------------------------------------------------------------------
(* Induction, over a set, and least members.                               *)

\* Any set of naturals has a least member.
LEMMA Least ==
  ASSUME NEW S \in SUBSET Nat, S # {}
  PROVE  \E m \in S : \A k \in S : m <= k
<1>1. PICK m \in S : \A k \in S : ~ (<<k, m>> \in OpToRel(<, Nat))
  BY NatLessThanWellFounded, WFMin, Zenon
<1>2. \A k \in S : ~(k < m)
  BY <1>1, Zenon DEF OpToRel
<1>. QED
  BY <1>2

\* Induction up to a bound.
LEMMA Upto ==
  ASSUME NEW b \in Nat, NEW S, 0 \in S, \A k \in 1 .. b : k - 1 \in S => k \in S
  PROVE  \A k \in 0 .. b : k \in S
<1> DEFINE B == {k \in 0 .. b : k \notin S}
<1>. SUFFICES ASSUME B # {} PROVE FALSE
  OBVIOUS
<1>1. PICK m \in B : \A k \in B : m <= k
  <2>1. B \in SUBSET Nat
    OBVIOUS
  <2> HIDE DEF B
  <2>. QED BY <2>1, Least
<1>2. m \in 1 .. b /\ m - 1 \in 0 .. b /\ m - 1 \notin B
  BY <1>1
<1>. QED
  BY <1>1, <1>2

\* One element replaced.
Put(s, i, x) == [s EXCEPT ![i] = x]

LEMMA PutFacts ==
  ASSUME NEW s, IsSeq(s), NEW i \in 1 .. Len(s), NEW x
  PROVE  /\ IsSeq(Put(s, i, x)) /\ Len(Put(s, i, x)) = Len(s) /\ Put(s, i, x)[i] = x
         /\ \A k \in 1 .. Len(s) : k # i => Put(s, i, x)[k] = s[k]
<1>1. PICK S : s \in Seq(S)
  BY DEF IsSeq
<1>2. s \in Seq(S \cup {x}) /\ x \in S \cup {x} /\ DOMAIN s = 1 .. Len(s)
  BY <1>1
<1>3. Put(s, i, x) \in Seq(S \cup {x}) /\ Len(Put(s, i, x)) = Len(s)
  BY <1>2 DEF Put
<1>4. IsSeq(Put(s, i, x))
  BY <1>3, Zenon DEF IsSeq
<1>5. Put(s, i, x)[i] = x /\ \A k \in 1 .. Len(s) : k # i => Put(s, i, x)[k] = s[k]
  BY <1>2 DEF Put
<1>. QED
  BY <1>3, <1>4, <1>5

-----------------------------------------------------------------------------
(* Where a key stands.                                                     *)

LEMMA IndexFacts ==
  ASSUME NEW s, IsSeq(s), NEW key
  PROVE  LET i == get_index_of(s, key)
         IN  /\ i \in 0 .. Len(s)
             /\ i # 0 => s[i].key = key /\ \A k \in 1 .. Len(s) : s[k].key = key => i <= k
             /\ i = 0 => \A k \in 1 .. Len(s) : s[k].key # key
<1> DEFINE I == {k \in 1 .. Len(s) : s[k].key = key}
<1>1. get_index_of(s, key) = IF I # {} THEN Min(I) ELSE 0
  BY DEF get_index_of, SelectInSeq
<1>2. Len(s) \in Nat
  BY SeqFacts
<1>3. CASE I = {}
  BY <1>1, <1>2, <1>3
<1>4. CASE I # {}
  <2>1. I \in SUBSET Nat
    OBVIOUS
  <2>2. \E m \in I : \A k \in I : m <= k
    <3>. HIDE DEF I
    <3>. QED BY <1>4, <2>1, Least
  <2>3. Min(I) \in I /\ \A k \in I : Min(I) <= k
    <3>. HIDE DEF I
    <3>. QED BY <2>2 DEF Min
  <2>. QED BY <1>1, <1>2, <1>4, <2>3
<1>. QED
  BY <1>3, <1>4

\* The first place of a key is where get_index_of finds it.
LEMMA IndexIs ==
  ASSUME NEW s, IsSeq(s), NEW i \in 1 .. Len(s),
         \A k \in 1 .. Len(s) : s[k].key = s[i].key => i <= k
  PROVE  get_index_of(s, s[i].key) = i
<1>1. Len(s) \in Nat
  BY SeqFacts
<1>. QED
  BY <1>1, IndexFacts

LEMMA AppendIndex ==
  ASSUME NEW s, IsSeq(s), NEW x, NEW key
  PROVE  get_index_of(Append(s, x), key) =
           IF get_index_of(s, key) # 0 THEN get_index_of(s, key)
           ELSE IF x.key = key THEN Len(s) + 1 ELSE 0
<1> DEFINE t == Append(s, x)
           i == get_index_of(s, key)
           j == get_index_of(t, key)
<1>1. /\ IsSeq(t) /\ Len(t) = Len(s) + 1 /\ \A k \in 1 .. Len(s) : t[k] = s[k]
      /\ t[Len(s) + 1] = x /\ Len(s) \in Nat
  BY AppendSeq, SeqFacts
<1>2. /\ i \in 0 .. Len(s)
      /\ i # 0 => s[i].key = key /\ \A k \in 1 .. Len(s) : s[k].key = key => i <= k
      /\ i = 0 => \A k \in 1 .. Len(s) : s[k].key # key
  BY IndexFacts
<1>3. /\ j \in 0 .. Len(t)
      /\ j # 0 => t[j].key = key /\ \A k \in 1 .. Len(t) : t[k].key = key => j <= k
      /\ j = 0 => \A k \in 1 .. Len(t) : t[k].key # key
  BY <1>1, IndexFacts
<1>. HIDE DEF i, j, t
<1>4. CASE i # 0
  <2>1. i \in 1 .. Len(s) /\ i \in 1 .. Len(t) /\ t[i].key = key
    BY <1>1, <1>2, <1>4
  <2>2. j # 0 /\ j <= i /\ j \in 1 .. Len(s)
    BY <1>1, <1>3, <2>1
  <2>3. i <= j
    BY <1>1, <1>2, <1>3, <1>4, <2>2
  <2>. QED BY <1>1, <1>4, <2>1, <2>2, <2>3 DEF i, j, t
<1>5. CASE i = 0 /\ x.key = key
  <2>1. Len(s) + 1 \in 1 .. Len(t) /\ t[Len(s) + 1].key = key
    BY <1>1, <1>5
  <2>2. j # 0 /\ j <= Len(s) + 1
    BY <1>1, <1>3, <2>1
  <2>3. j \notin 1 .. Len(s)
    BY <1>1, <1>2, <1>3, <1>5, <2>2
  <2>4. j = Len(s) + 1
    BY <1>1, <1>3, <2>2, <2>3
  <2>. QED BY <1>5, <2>4 DEF i, j, t
<1>6. CASE i = 0 /\ x.key # key
  <2>1. \A k \in 1 .. Len(t) : t[k].key # key
    BY <1>1, <1>2, <1>6
  <2>2. j = 0
    BY <1>1, <1>3, <2>1
  <2>. QED BY <1>6, <2>2 DEF i, j, t
<1>. QED
  BY <1>4, <1>5, <1>6

-----------------------------------------------------------------------------
(* The table a mapping builds: its rows are the keys met, each with the    *)
(* entry the policy chooses among those met under that key.                *)

\* Entry i of `seen` is the one kept for `key`.
Chosen(seen, key, dup, i) ==
  /\ i \in 1 .. Len(seen) /\ seen[i].key = key
  /\ \A k \in 1 .. Len(seen) : seen[k].key = key => IF dup = "Last" THEN k <= i ELSE i <= k

Row(row, span, shape, seen, dup) ==
  \E i \in 1 .. Len(seen) :
    /\ Chosen(seen, row.key, dup, i)
    /\ row.val = seen[i].val /\ span = seen[i].span /\ shape = seen[i].shape

Columns(map, spans, typed, seen) ==
  /\ IsSeq(map) /\ IsSeq(spans) /\ IsSeq(typed) /\ IsSeq(seen)
  /\ Len(spans) = Len(map) /\ Len(typed) \in {0, Len(map)}
  /\ \A j \in 1 .. Len(map) : Has(map[j], {"key", "val"})

Rows(map, spans, typed, seen, dup) ==
  \A j \in 1 .. Len(map) : Row(map[j], spans[j], at(typed, j), seen, dup)

\* Every key met has a row, and the rows stand in the order of first appearance.
Covered(map, seen) ==
  \A i \in 1 .. Len(seen) : \E j \in 1 .. Len(map) : map[j].key = seen[i].key
InOrder(map, seen) ==
  \A j, k \in 1 .. Len(map) :
    j < k => get_index_of(seen, map[j].key) < get_index_of(seen, map[k].key)
OneShape(seen) ==
  \A j, k \in 1 .. Len(seen) : seen[j].key = seen[k].key => seen[j].shape = seen[k].shape

Table(map, spans, typed, seen, dup) ==
  /\ Columns(map, spans, typed, seen) /\ Rows(map, spans, typed, seen, dup)
  /\ Covered(map, seen) /\ InOrder(map, seen) /\ OneShape(seen)

LEMMA RecordFacts ==
  ASSUME NEW typed, IsSeq(typed), NEW idx \in Nat, Len(typed) \in {0, idx}, NEW shape
  PROVE  LET r == record(typed, idx, shape)
         IN  /\ IsSeq(r) /\ Len(r) \in {0, idx + 1}
             /\ \A j \in 1 .. idx : at(r, j) = at(typed, j)
             /\ at(r, idx + 1) = shape
<1> DEFINE r == record(typed, idx, shape)
           pad == [i \in 1 .. (idx - Len(typed)) |-> Str]
           base == typed \o pad
<1>1. Len(typed) \in Nat /\ (typed = <<>> <=> Len(typed) = 0)
  BY SeqFacts
<1>2. CASE typed = <<>> /\ shape = Str
  <2>1. r = typed
    BY <1>2 DEF record
  <2>. QED BY <1>1, <1>2, <2>1 DEF at
<1>3. CASE ~(typed = <<>> /\ shape = Str)
  <2>1. PICK S : typed \in Seq(S)
    BY DEF IsSeq
  <2>2. typed \in Seq(S \cup {Str}) /\ pad \in Seq(S \cup {Str}) /\ Len(pad) = idx - Len(typed)
    <3>1. idx - Len(typed) \in Nat
      BY <1>1
    <3>2. pad \in [1 .. (idx - Len(typed)) -> S \cup {Str}]
      OBVIOUS
    <3>. QED BY <2>1, <3>1, <3>2
  <2>3. /\ base \in Seq(S \cup {Str}) /\ Len(base) = idx
        /\ \A j \in 1 .. idx : base[j] = IF j <= Len(typed) THEN typed[j] ELSE Str
    <3>1. /\ base \in Seq(S \cup {Str}) /\ Len(base) = Len(typed) + Len(pad)
          /\ \A j \in 1 .. Len(typed) + Len(pad) :
               base[j] = IF j <= Len(typed) THEN typed[j] ELSE pad[j - Len(typed)]
      BY <2>2, ConcatProperties
    <3>2. \A j \in 1 .. idx : j <= Len(typed) \/ j - Len(typed) \in 1 .. (idx - Len(typed))
      BY <1>1
    <3>. QED BY <1>1, <2>2, <3>1, <3>2
  <2>4. r = Append(base, shape)
    BY <1>3 DEF record
  <2>5. IsSeq(base)
    BY <2>3, Zenon DEF IsSeq
  <2>. HIDE DEF base, r
  <2>6. /\ IsSeq(r) /\ Len(r) = idx + 1 /\ \A j \in 1 .. idx : r[j] = base[j]
        /\ r[idx + 1] = shape
    BY <2>3, <2>4, <2>5, AppendSeq
  <2>. QED BY <2>3, <2>6 DEF at, r
<1>. QED
  BY <1>2, <1>3

\* The keys of a table are distinct, and are those met.
LEMMA TableKeys ==
  ASSUME NEW map, NEW spans, NEW typed, NEW seen, NEW dup, Table(map, spans, typed, seen, dup)
  PROVE  /\ \A j, k \in 1 .. Len(map) : map[j].key = map[k].key => j = k
         /\ \A j \in 1 .. Len(map) :
              /\ get_index_of(seen, map[j].key) # 0
              /\ \E i \in 1 .. Len(seen) : seen[i].key = map[j].key
<1>1. Len(map) \in Nat /\ Len(seen) \in Nat /\ IsSeq(seen)
  BY SeqFacts DEF Table, Columns
<1>2. ASSUME NEW j \in 1 .. Len(map)
      PROVE  \E i \in 1 .. Len(seen) : seen[i].key = map[j].key
  BY DEF Table, Rows, Row, Chosen
<1>3. ASSUME NEW j \in 1 .. Len(map)
      PROVE  get_index_of(seen, map[j].key) # 0
  BY <1>1, <1>2, IndexFacts
<1>4. ASSUME NEW j \in 1 .. Len(map), NEW k \in 1 .. Len(map), j < k
      PROVE  map[j].key # map[k].key
  <2>1. get_index_of(seen, map[j].key) < get_index_of(seen, map[k].key)
    BY <1>4 DEF Table, InOrder
  <2>2. get_index_of(seen, map[j].key) \in Nat
    BY <1>1, IndexFacts
  <2>. QED BY <2>1, <2>2
<1>5. \A j, k \in 1 .. Len(map) : j < k \/ k < j \/ j = k
  BY <1>1
<1>. QED
  BY <1>2, <1>3, <1>4, <1>5

\* An entry of another key changes neither the choice nor the first place of a key.
LEMMA OtherKey ==
  ASSUME NEW seen, IsSeq(seen), NEW e, NEW key, e.key # key, NEW dup
  PROVE  /\ \A i : Chosen(seen, key, dup, i) =>
              Chosen(Append(seen, e), key, dup, i) /\ Append(seen, e)[i] = seen[i]
         /\ get_index_of(Append(seen, e), key) = get_index_of(seen, key)
<1>1. /\ Len(Append(seen, e)) = Len(seen) + 1
      /\ \A i \in 1 .. Len(seen) : Append(seen, e)[i] = seen[i]
      /\ Append(seen, e)[Len(seen) + 1] = e /\ Len(seen) \in Nat
  BY AppendSeq, SeqFacts
<1>2. \A i \in 1 .. Len(seen) + 1 : i \in 1 .. Len(seen) \/ i = Len(seen) + 1
  BY <1>1
<1>3. \A i : Chosen(seen, key, dup, i) =>
        Chosen(Append(seen, e), key, dup, i) /\ Append(seen, e)[i] = seen[i]
  <2> DEFINE t == Append(seen, e)
  <2>. HIDE DEF t
  <2>1. ASSUME NEW i, Chosen(seen, key, dup, i) PROVE Chosen(t, key, dup, i) /\ t[i] = seen[i]
    <3>1. i \in 1 .. Len(seen) /\ i \in 1 .. Len(t) /\ t[i] = seen[i] /\ seen[i].key = key
      BY <1>1, <2>1 DEF Chosen, t
    <3>2. ASSUME NEW k \in 1 .. Len(t), t[k].key = key
          PROVE  IF dup = "Last" THEN k <= i ELSE i <= k
      <4>1. k \in 1 .. Len(seen) /\ t[k] = seen[k]
        BY <1>1, <1>2, <3>2 DEF t
      <4>. QED BY <2>1, <3>2, <4>1 DEF Chosen
    <3>. QED BY <3>1, <3>2 DEF Chosen
  <2>. QED BY <2>1 DEF t
<1>4. get_index_of(Append(seen, e), key) = get_index_of(seen, key)
  <2>1. get_index_of(seen, key) = 0 \/ get_index_of(seen, key) # 0
    OBVIOUS
  <2>. QED BY AppendIndex
<1>. QED
  BY <1>3, <1>4

\* A row stays when an entry of another key is met.
LEMMA RowStays ==
  ASSUME NEW seen, IsSeq(seen), NEW e, NEW dup, NEW row, NEW span, NEW shape,
         Row(row, span, shape, seen, dup), e.key # row.key
  PROVE  Row(row, span, shape, Append(seen, e), dup)
<1>1. PICK i \in 1 .. Len(seen) :
        /\ Chosen(seen, row.key, dup, i)
        /\ row.val = seen[i].val /\ span = seen[i].span /\ shape = seen[i].shape
  BY DEF Row
<1>2. Chosen(Append(seen, e), row.key, dup, i) /\ Append(seen, e)[i] = seen[i]
  <2> DEFINE key == row.key
  <2>1. e.key # key /\ Chosen(seen, key, dup, i)
    BY <1>1
  <2>. HIDE DEF key
  <2>2. IsSeq(seen)
    OBVIOUS
  <2>3. Chosen(Append(seen, e), key, dup, i) /\ Append(seen, e)[i] = seen[i]
    BY ONLY <2>1, <2>2, OtherKey, ZenonT(60)
  <2>. QED BY <2>3 DEF key
<1>3. i \in 1 .. Len(Append(seen, e))
  BY <1>2 DEF Chosen
<1>. QED
  BY <1>1, <1>2, <1>3 DEF Row

\* An entry whose shape is that of its key keeps one shape per key.
LEMMA ShapeStays ==
  ASSUME NEW seen, IsSeq(seen), NEW e, OneShape(seen),
         \A i \in 1 .. Len(seen) : seen[i].key = e.key => seen[i].shape = e.shape
  PROVE  OneShape(Append(seen, e))
<1> DEFINE t == Append(seen, e)
<1>1. /\ Len(t) = Len(seen) + 1 /\ Len(seen) \in Nat
      /\ \A i \in 1 .. Len(seen) : t[i] = seen[i]
      /\ t[Len(seen) + 1] = e
  BY AppendSeq, SeqFacts
<1>. HIDE DEF t
<1>2. \A i \in 1 .. Len(t) : i \in 1 .. Len(seen) \/ i = Len(seen) + 1
  BY <1>1
<1>3. OneShape(t)
  BY <1>1, <1>2 DEF OneShape
<1>. QED
  BY <1>3 DEF t

\* A key met for the first time gets a row of its own, the last.
LEMMA NewRow ==
  ASSUME NEW map, NEW spans, NEW typed, NEW seen, NEW dup, Table(map, spans, typed, seen, dup),
         NEW e, Has(e, {"key", "shape", "val", "span"}), get_index_of(map, e.key) = 0
  PROVE  Table(Append(map, [key |-> e.key, val |-> e.val]), Append(spans, e.span),
               record(typed, Len(map), e.shape), Append(seen, e), dup)
<1> DEFINE x == [key |-> e.key, val |-> e.val]
           map2 == Append(map, x)
           spans2 == Append(spans, e.span)
           typed2 == record(typed, Len(map), e.shape)
           seen2 == Append(seen, e)
<1>1. /\ IsSeq(map) /\ IsSeq(spans) /\ IsSeq(typed) /\ IsSeq(seen)
      /\ Len(spans) = Len(map) /\ Len(typed) \in {0, Len(map)}
      /\ \A j \in 1 .. Len(map) : Has(map[j], {"key", "val"})
      /\ Len(map) \in Nat /\ Len(seen) \in Nat
  BY SeqFacts DEF Table, Columns
<1>2. /\ IsSeq(map2) /\ Len(map2) = Len(map) + 1 /\ map2[Len(map) + 1] = x
      /\ \A j \in 1 .. Len(map) : map2[j] = map[j]
  BY <1>1, AppendSeq
<1>3. /\ IsSeq(spans2) /\ Len(spans2) = Len(map) + 1 /\ spans2[Len(map) + 1] = e.span
      /\ \A j \in 1 .. Len(map) : spans2[j] = spans[j]
  BY <1>1, AppendSeq
<1>4. /\ IsSeq(typed2) /\ Len(typed2) \in {0, Len(map) + 1}
      /\ \A j \in 1 .. Len(map) : at(typed2, j) = at(typed, j)
      /\ at(typed2, Len(map) + 1) = e.shape
  BY <1>1, RecordFacts
<1>5. /\ IsSeq(seen2) /\ Len(seen2) = Len(seen) + 1 /\ seen2[Len(seen) + 1] = e
      /\ \A i \in 1 .. Len(seen) : seen2[i] = seen[i]
  BY <1>1, AppendSeq
<1>6. x.key = e.key /\ x.val = e.val /\ Has(x, {"key", "val"})
  BY DEF Has
<1>7. \A j \in 1 .. Len(map) : map[j].key # e.key
  BY <1>1, IndexFacts
<1>8. \A i \in 1 .. Len(seen) : seen[i].key # e.key
  BY <1>7 DEF Table, Covered
<1>9. \A j \in 1 .. Len(map) + 1 : j \in 1 .. Len(map) \/ j = Len(map) + 1
  BY <1>1
<1>10. \A i \in 1 .. Len(seen) + 1 : i \in 1 .. Len(seen) \/ i = Len(seen) + 1
  BY <1>1
<1>11. OneShape(seen2)
  BY <1>1, <1>8, ShapeStays DEF Table
<1>12. ASSUME NEW j \in 1 .. Len(map)
       PROVE  /\ Row(map[j], spans[j], at(typed, j), seen2, dup)
              /\ get_index_of(seen2, map[j].key) = get_index_of(seen, map[j].key)
  <2>1. Row(map[j], spans[j], at(typed, j), seen, dup)
    BY DEF Table, Rows
  <2>2. Row(map[j], spans[j], at(typed, j), seen2, dup)
    BY <1>1, <1>7, <2>1, RowStays
  <2>3. get_index_of(seen2, map[j].key) = get_index_of(seen, map[j].key)
    <3> DEFINE key == map[j].key
    <3>1. e.key # key
      BY <1>7
    <3>. HIDE DEF key
    <3>2. get_index_of(seen2, key) = get_index_of(seen, key)
      BY <1>1, <3>1, OtherKey
    <3>. QED BY <3>2 DEF key
  <2>. QED BY <2>2, <2>3
<1>13. get_index_of(seen2, e.key) = Len(seen) + 1
  <2>1. get_index_of(seen, e.key) = 0
    BY <1>1, <1>8, IndexFacts
  <2>. QED BY <1>1, <2>1, AppendIndex
<1>. HIDE DEF x, map2, spans2, typed2, seen2
<1>14. Columns(map2, spans2, typed2, seen2)
  BY <1>1, <1>2, <1>3, <1>4, <1>5, <1>6, <1>9 DEF Columns
<1>15. Rows(map2, spans2, typed2, seen2, dup)
  <2>1. Row(x, e.span, e.shape, seen2, dup)
    <3>1. Chosen(seen2, e.key, dup, Len(seen) + 1)
      BY <1>1, <1>5, <1>8, <1>10 DEF Chosen
    <3>2. Len(seen) + 1 \in 1 .. Len(seen2)
      BY <1>1, <1>5
    <3>. QED BY <1>5, <1>6, <3>1, <3>2 DEF Row
  <2>. QED BY <1>1, <1>2, <1>3, <1>4, <1>9, <1>12, <2>1 DEF Rows
<1>16. Covered(map2, seen2)
  <2>1. \A j \in 1 .. Len(map) : j \in 1 .. Len(map2)
    BY <1>1, <1>2
  <2>2. Len(map) + 1 \in 1 .. Len(map2)
    BY <1>1, <1>2
  <2>3. ASSUME NEW i \in 1 .. Len(seen)
        PROVE  \E j \in 1 .. Len(map2) : map2[j].key = seen2[i].key
    <3>1. PICK j \in 1 .. Len(map) : map[j].key = seen[i].key
      BY DEF Table, Covered
    <3>. QED BY <1>2, <1>5, <2>1, <3>1
  <2>4. \E j \in 1 .. Len(map2) : map2[j].key = seen2[Len(seen) + 1].key
    BY <1>2, <1>5, <1>6, <2>2
  <2>. QED BY <1>5, <1>10, <2>3, <2>4 DEF Covered
<1>17. InOrder(map2, seen2)
  <2>1. ASSUME NEW j \in 1 .. Len(map2), NEW k \in 1 .. Len(map2), j < k
        PROVE  get_index_of(seen2, map2[j].key) < get_index_of(seen2, map2[k].key)
    <3>1. j \in 1 .. Len(map)
      BY <1>1, <1>2, <2>1
    <3>2. CASE k \in 1 .. Len(map)
      <4>1. get_index_of(seen, map[j].key) < get_index_of(seen, map[k].key)
        BY <2>1, <3>1, <3>2 DEF Table, InOrder
      <4>. QED BY <1>2, <1>12, <3>1, <3>2, <4>1
    <3>3. CASE k = Len(map) + 1
      <4>1. get_index_of(seen, map[j].key) \in 0 .. Len(seen)
        BY <1>1, IndexFacts
      <4>2. map2[k].key = e.key
        BY <1>2, <1>6, <3>3
      <4>. QED BY <1>1, <1>2, <1>12, <1>13, <3>1, <4>1, <4>2
    <3>. QED BY <1>2, <1>9, <3>2, <3>3
  <2>. QED BY <2>1 DEF InOrder
<1>18. Table(map2, spans2, typed2, seen2, dup)
  BY <1>11, <1>14, <1>15, <1>16, <1>17 DEF Table
<1>. QED
  BY <1>18 DEF x, map2, spans2, typed2, seen2

\* What a repeated key leaves as it is, whichever entry is kept.
LEMMA Repeated ==
  ASSUME NEW map, NEW spans, NEW typed, NEW seen, NEW dup, Table(map, spans, typed, seen, dup),
         NEW e, get_index_of(map, e.key) # 0,
         at(typed, get_index_of(map, e.key)) = e.shape
  PROVE  LET idx == get_index_of(map, e.key)
             t == Append(seen, e)
         IN  /\ idx \in 1 .. Len(map) /\ map[idx].key = e.key
             /\ \A j \in 1 .. Len(map) : j # idx =>
                  /\ map[j].key # e.key
                  /\ Row(map[j], spans[j], at(typed, j), t, dup)
             /\ Covered(map, t) /\ InOrder(map, t) /\ OneShape(t)
<1> DEFINE idx == get_index_of(map, e.key)
           t == Append(seen, e)
<1>1. /\ IsSeq(map) /\ IsSeq(seen) /\ Len(map) \in Nat /\ Len(seen) \in Nat
  BY SeqFacts DEF Table, Columns
<1>2. idx \in 1 .. Len(map) /\ map[idx].key = e.key
  BY <1>1, IndexFacts
<1>3. \A j \in 1 .. Len(map) : j # idx => map[j].key # e.key
  <2>1. \A j, k \in 1 .. Len(map) : map[j].key = map[k].key => j = k
    BY TableKeys
  <2>. HIDE DEF idx
  <2>. QED BY <1>2, <2>1
<1>4. /\ IsSeq(t) /\ Len(t) = Len(seen) + 1 /\ t[Len(seen) + 1] = e
      /\ \A i \in 1 .. Len(seen) : t[i] = seen[i]
  BY <1>1, AppendSeq
<1>5. \A i \in 1 .. Len(t) : i \in 1 .. Len(seen) \/ i = Len(seen) + 1
  BY <1>1, <1>4
<1>6. OneShape(t)
  <2>1. Row(map[idx], spans[idx], at(typed, idx), seen, dup)
    BY <1>2 DEF Table, Rows
  <2>2. PICK i \in 1 .. Len(seen) : seen[i].key = e.key /\ e.shape = seen[i].shape
    <3>. HIDE DEF idx
    <3>1. PICK i \in 1 .. Len(seen) : seen[i].key = map[idx].key /\ at(typed, idx) = seen[i].shape
      BY <2>1 DEF Row, Chosen
    <3>. QED BY <1>2, <3>1 DEF idx
  <2>3. \A k \in 1 .. Len(seen) : seen[k].key = e.key => seen[k].shape = e.shape
    BY <2>2 DEF Table, OneShape
  <2>. QED BY <1>1, <2>3, ShapeStays DEF Table
<1>7. Covered(map, t)
  <2>. HIDE DEF idx, t
  <2>1. ASSUME NEW i \in 1 .. Len(t) PROVE \E j \in 1 .. Len(map) : map[j].key = t[i].key
    <3>1. CASE i \in 1 .. Len(seen)
      BY <1>4, <3>1 DEF Table, Covered
    <3>2. CASE i = Len(seen) + 1
      BY <1>2, <1>4, <3>2
    <3>. QED BY <1>5, <3>1, <3>2
  <2>. QED BY <2>1 DEF Covered
<1>8. ASSUME NEW j \in 1 .. Len(map)
      PROVE  get_index_of(t, map[j].key) = get_index_of(seen, map[j].key)
  <2> DEFINE key == map[j].key
  <2>1. get_index_of(seen, key) # 0
    BY TableKeys
  <2>. HIDE DEF key
  <2>2. get_index_of(t, key) = get_index_of(seen, key)
    BY <1>1, <2>1, AppendIndex
  <2>. QED BY <2>2 DEF key
<1>9. InOrder(map, t)
  <2>. HIDE DEF t
  <2>. QED BY <1>8 DEF Table, InOrder
<1>10. ASSUME NEW j \in 1 .. Len(map), j # idx
       PROVE  map[j].key # e.key /\ Row(map[j], spans[j], at(typed, j), t, dup)
  <2>1. Row(map[j], spans[j], at(typed, j), seen, dup)
    BY DEF Table, Rows
  <2>2. map[j].key # e.key
    BY <1>3, <1>10
  <2>. HIDE DEF idx
  <2>. QED BY <1>1, <2>1, <2>2, RowStays
<1>. HIDE DEF t, idx
<1>11. /\ idx \in 1 .. Len(map) /\ map[idx].key = e.key
       /\ \A j \in 1 .. Len(map) : j # idx =>
            map[j].key # e.key /\ Row(map[j], spans[j], at(typed, j), t, dup)
       /\ Covered(map, t) /\ InOrder(map, t) /\ OneShape(t)
  BY <1>2, <1>6, <1>7, <1>9, <1>10
<1>. QED
  BY <1>11 DEF t, idx

\* "Last": the row of a repeated key takes the new entry.
LEMMA LastRow ==
  ASSUME NEW map, NEW spans, NEW typed, NEW seen, Table(map, spans, typed, seen, "Last"),
         NEW e, get_index_of(map, e.key) # 0,
         at(typed, get_index_of(map, e.key)) = e.shape
  PROVE  LET idx == get_index_of(map, e.key)
         IN  Table([map EXCEPT ![idx].val = e.val], [spans EXCEPT ![idx] = e.span], typed,
                   Append(seen, e), "Last")
<1> DEFINE idx == get_index_of(map, e.key)
           t == Append(seen, e)
           x == [map[idx] EXCEPT !.val = e.val]
           map2 == Put(map, idx, x)
           spans2 == Put(spans, idx, e.span)
<1>1. /\ IsSeq(map) /\ IsSeq(spans) /\ IsSeq(typed) /\ IsSeq(seen)
      /\ Len(spans) = Len(map) /\ Len(typed) \in {0, Len(map)}
      /\ \A j \in 1 .. Len(map) : Has(map[j], {"key", "val"})
      /\ Len(map) \in Nat /\ Len(seen) \in Nat
  BY SeqFacts DEF Table, Columns
<1>2. /\ idx \in 1 .. Len(map) /\ map[idx].key = e.key
      /\ \A j \in 1 .. Len(map) : j # idx =>
           map[j].key # e.key /\ Row(map[j], spans[j], at(typed, j), t, "Last")
      /\ Covered(map, t) /\ InOrder(map, t) /\ OneShape(t)
  BY Repeated
<1>3. [map EXCEPT ![idx].val = e.val] = map2 /\ [spans EXCEPT ![idx] = e.span] = spans2
  BY DEF Put
<1>4. /\ IsSeq(t) /\ Len(t) = Len(seen) + 1 /\ t[Len(seen) + 1] = e
      /\ \A i \in 1 .. Len(seen) : t[i] = seen[i]
  BY <1>1, AppendSeq
<1>. HIDE DEF idx, t
<1>5. Has(x, {"key", "val"}) /\ x.key = e.key /\ x.val = e.val
  BY <1>1, <1>2 DEF Has
<1>. HIDE DEF x
<1>6. /\ IsSeq(map2) /\ Len(map2) = Len(map) /\ map2[idx] = x
      /\ \A j \in 1 .. Len(map) : j # idx => map2[j] = map[j]
  BY <1>1, <1>2, PutFacts
<1>7. /\ IsSeq(spans2) /\ Len(spans2) = Len(spans) /\ spans2[idx] = e.span
      /\ \A j \in 1 .. Len(map) : j # idx => spans2[j] = spans[j]
  BY <1>1, <1>2, PutFacts
<1>8. \A j \in 1 .. Len(map) : map2[j].key = map[j].key
  BY <1>2, <1>5, <1>6
<1>. HIDE DEF map2, spans2
<1>9. Columns(map2, spans2, typed, t)
  BY <1>1, <1>4, <1>5, <1>6, <1>7 DEF Columns
<1>10. Row(x, e.span, at(typed, idx), t, "Last")
  <2>1. at(typed, idx) = e.shape
    BY DEF idx
  <2>2. Chosen(t, e.key, "Last", Len(seen) + 1)
    BY <1>1, <1>4 DEF Chosen
  <2>3. Len(seen) + 1 \in 1 .. Len(t)
    BY <1>1, <1>4
  <2>. QED BY <1>4, <1>5, <2>1, <2>2, <2>3 DEF Row
<1>11. Rows(map2, spans2, typed, t, "Last")
  BY <1>2, <1>6, <1>7, <1>10 DEF Rows
<1>12. Covered(map2, t) /\ InOrder(map2, t)
  BY <1>2, <1>6, <1>8 DEF Covered, InOrder
<1>13. Table(map2, spans2, typed, t, "Last")
  BY <1>2, <1>9, <1>11, <1>12 DEF Table
<1>. QED
  BY <1>3, <1>13 DEF map2, spans2, t, idx

\* Otherwise the row of a repeated key stays.
LEMMA FirstRow ==
  ASSUME NEW map, NEW spans, NEW typed, NEW seen, NEW dup, dup # "Last",
         Table(map, spans, typed, seen, dup),
         NEW e, get_index_of(map, e.key) # 0,
         at(typed, get_index_of(map, e.key)) = e.shape
  PROVE  Table(map, spans, typed, Append(seen, e), dup)
<1> DEFINE idx == get_index_of(map, e.key)
           t == Append(seen, e)
<1>1. /\ IsSeq(seen) /\ Len(map) \in Nat /\ Len(seen) \in Nat
      /\ IsSeq(map) /\ IsSeq(spans) /\ IsSeq(typed)
      /\ Len(spans) = Len(map) /\ Len(typed) \in {0, Len(map)}
      /\ \A j \in 1 .. Len(map) : Has(map[j], {"key", "val"})
  BY SeqFacts DEF Table, Columns
<1>2. /\ idx \in 1 .. Len(map) /\ map[idx].key = e.key
      /\ \A j \in 1 .. Len(map) : j # idx =>
           map[j].key # e.key /\ Row(map[j], spans[j], at(typed, j), t, dup)
      /\ Covered(map, t) /\ InOrder(map, t) /\ OneShape(t)
  BY Repeated
<1>3. /\ IsSeq(t) /\ Len(t) = Len(seen) + 1 /\ t[Len(seen) + 1] = e
      /\ \A i \in 1 .. Len(seen) : t[i] = seen[i]
  BY <1>1, AppendSeq
<1>. HIDE DEF idx, t
<1>4. Columns(map, spans, typed, t)
  BY <1>1, <1>3 DEF Columns
<1>5. Row(map[idx], spans[idx], at(typed, idx), t, dup)
  <2>1. PICK i \in 1 .. Len(seen) :
          /\ Chosen(seen, map[idx].key, dup, i)
          /\ map[idx].val = seen[i].val /\ spans[idx] = seen[i].span
          /\ at(typed, idx) = seen[i].shape
    BY <1>2 DEF Table, Rows, Row
  <2>2. i \in 1 .. Len(t) /\ t[i] = seen[i]
    BY <1>1, <1>3
  <2>3. ASSUME NEW k \in 1 .. Len(t), t[k].key = map[idx].key
        PROVE  i <= k
    <3>1. CASE k \in 1 .. Len(seen)
      BY <1>3, <2>1, <2>3, <3>1 DEF Chosen
    <3>2. CASE k = Len(seen) + 1
      BY <1>1, <3>2
    <3>. QED BY <1>1, <1>3, <3>1, <3>2
  <2>4. Chosen(t, map[idx].key, dup, i)
    BY <2>1, <2>2, <2>3 DEF Chosen
  <2>. QED BY <2>1, <2>2, <2>4 DEF Row
<1>6. Rows(map, spans, typed, t, dup)
  BY <1>2, <1>5 DEF Rows
<1>7. Table(map, spans, typed, t, dup)
  BY <1>2, <1>4, <1>6 DEF Table
<1>. QED
  BY <1>7 DEF t

-----------------------------------------------------------------------------
(* Frames.                                                                 *)

\* Values a mapping can be merged from, or that can stand in a merged list.
Sources(s) == IsSeq(s) /\ \A i \in 1 .. Len(s) : IsSeq(s[i].pairs)

TableOf(f) == Table(f.map, f.spans, f.typed_keys, f.seen, config.duplicate)

ByRule(f) ==
  IF f.f = "seq" THEN Sources(f.items) ELSE TableOf(f) /\ Sources(f.merge_values)

LEMMA SourcesAppend ==
  ASSUME NEW s, Sources(s), NEW v, IsSeq(v.pairs)
  PROVE  Sources(Append(s, v))
<1> DEFINE t == Append(s, v)
<1>1. IsSeq(s) /\ Len(s) \in Nat
  BY SeqFacts DEF Sources
<1>2. /\ IsSeq(t) /\ Len(t) = Len(s) + 1 /\ \A i \in 1 .. Len(s) : t[i] = s[i]
      /\ t[Len(s) + 1] = v
  BY <1>1, AppendSeq
<1>. HIDE DEF t
<1>3. \A i \in 1 .. Len(t) : i \in 1 .. Len(s) \/ i = Len(s) + 1
  BY <1>1, <1>2
<1>4. Sources(t)
  BY <1>2, <1>3 DEF Sources
<1>. QED
  BY <1>4 DEF t

\* The entry the ghost records for the key that waits.
Met(f, v, span) ==
  [key |-> f.key, shape |-> f.key_value, val |-> v, span |-> [key |-> f.key_span, val |-> span]]

LEMMA InsertedFields ==
  ASSUME NEW f, Has(f, MapFields), NEW v, NEW span
  PROVE  LET g == Seen(InsertSpanned(f, v, span), v, span)
             e == Met(f, v, span)
             idx == get_index_of(f.map, f.key)
         IN  /\ g.seen = Append(f.seen, e) /\ g.merge_values = f.merge_values
             /\ idx = 0 =>
                  /\ g.map = Append(f.map, [key |-> e.key, val |-> e.val])
                  /\ g.spans = Append(f.spans, e.span)
                  /\ g.typed_keys = record(f.typed_keys, Len(f.map), e.shape)
             /\ idx # 0 => g.typed_keys = f.typed_keys
             /\ idx # 0 /\ config.duplicate = "Last" =>
                  /\ g.map = [f.map EXCEPT ![idx].val = e.val]
                  /\ g.spans = [f.spans EXCEPT ![idx] = e.span]
             /\ idx # 0 /\ config.duplicate # "Last" => g.map = f.map /\ g.spans = f.spans
<1> DEFINE g == InsertSpanned(f, v, span)
           h == Seen(g, v, span)
           e == Met(f, v, span)
           idx == get_index_of(f.map, f.key)
           entry == [key |-> f.key_span, val |-> span]
<1>1. /\ e.key = f.key /\ e.shape = f.key_value /\ e.val = v /\ e.span = entry
      /\ e = [key |-> f.key, shape |-> f.key_value, val |-> v, span |-> entry]
  BY DEF Met
<1>2. CASE idx = 0
  <2>1. g = [Inserted(f, v) EXCEPT !.spans = Append(@, entry)]
    BY <1>2 DEF InsertSpanned
  <2> DEFINE i == Inserted(f, v)
             x == [key |-> f.key, val |-> v]
             r == record(f.typed_keys, Len(f.map), f.key_value)
  <2>2. i = [f EXCEPT !.map = Append(@, x), !.typed_keys = r]
    BY DEF Inserted
  <2>. HIDE DEF i, x, r, entry, g
  <2>3. /\ Has(i, MapFields) /\ i.map = Append(f.map, x) /\ i.typed_keys = r
        /\ i.spans = f.spans /\ i.seen = f.seen /\ i.merge_values = f.merge_values
        /\ i.key = f.key /\ i.key_value = f.key_value /\ i.key_span = f.key_span
    BY <2>2 DEF Has, MapFields
  <2>4. g = [i EXCEPT !.spans = Append(@, entry)]
    BY <2>1 DEF i
  <2>5. /\ Has(g, MapFields) /\ g.map = Append(f.map, x) /\ g.typed_keys = r
        /\ g.spans = Append(f.spans, entry) /\ g.seen = f.seen /\ g.merge_values = f.merge_values
        /\ g.key = f.key /\ g.key_value = f.key_value /\ g.key_span = f.key_span
    BY <2>3, <2>4 DEF Has, MapFields
  <2>6. h = [g EXCEPT !.seen = Append(@, e)]
    BY <2>5 DEF Seen, Met
  <2>. HIDE DEF h, e
  <2>7. /\ h.map = g.map /\ h.typed_keys = g.typed_keys /\ h.spans = g.spans
        /\ h.seen = Append(g.seen, e) /\ h.merge_values = g.merge_values
    BY <2>5, <2>6 DEF Has, MapFields
  <2>8. /\ h.map = Append(f.map, [key |-> e.key, val |-> e.val])
        /\ h.spans = Append(f.spans, e.span)
        /\ h.typed_keys = record(f.typed_keys, Len(f.map), e.shape)
        /\ h.seen = Append(f.seen, e) /\ h.merge_values = f.merge_values
    BY <1>1, <2>5, <2>7 DEF x, r
  <2>. HIDE DEF idx
  <2>. QED BY <1>2, <2>8 DEF h, g, e, idx
<1>3. CASE idx # 0 /\ config.duplicate = "Last"
  <2>1. g = [f EXCEPT !.map[idx].val = v, !.spans[idx] = entry]
    BY <1>3 DEF InsertSpanned
  <2>. HIDE DEF entry, g
  <2>2. /\ Has(g, MapFields) /\ g.map = [f.map EXCEPT ![idx].val = v]
        /\ g.spans = [f.spans EXCEPT ![idx] = entry]
        /\ g.typed_keys = f.typed_keys /\ g.seen = f.seen /\ g.merge_values = f.merge_values
        /\ g.key = f.key /\ g.key_value = f.key_value /\ g.key_span = f.key_span
    BY <2>1 DEF Has, MapFields
  <2>3. h = [g EXCEPT !.seen = Append(@, e)]
    BY <2>2 DEF Seen, Met
  <2>. HIDE DEF h, e
  <2>4. /\ h.map = g.map /\ h.typed_keys = g.typed_keys /\ h.spans = g.spans
        /\ h.seen = Append(g.seen, e) /\ h.merge_values = g.merge_values
    BY <2>2, <2>3 DEF Has, MapFields
  <2>5. /\ h.map = [f.map EXCEPT ![idx].val = e.val]
        /\ h.spans = [f.spans EXCEPT ![idx] = e.span]
        /\ h.typed_keys = f.typed_keys
        /\ h.seen = Append(f.seen, e) /\ h.merge_values = f.merge_values
    BY <1>1, <2>2, <2>4
  <2>. HIDE DEF idx
  <2>. QED BY <1>3, <2>5 DEF h, g, e, idx
<1>4. CASE idx # 0 /\ config.duplicate # "Last"
  <2>1. g = f
    BY <1>4 DEF InsertSpanned
  <2>2. h = [f EXCEPT !.seen = Append(@, e)]
    BY <2>1 DEF Seen, Met
  <2>. HIDE DEF h, e
  <2>3. /\ h.map = f.map /\ h.typed_keys = f.typed_keys /\ h.spans = f.spans
        /\ h.seen = Append(f.seen, e) /\ h.merge_values = f.merge_values
    BY <2>2 DEF Has, MapFields
  <2>. HIDE DEF idx
  <2>. QED BY <1>4, <2>3 DEF h, g, e, idx
<1>. QED
  BY <1>2, <1>3, <1>4

\* Two frames with the same table and the same merge sources.
SameTable(f, g) ==
  /\ g.map = f.map /\ g.spans = f.spans /\ g.typed_keys = f.typed_keys /\ g.seen = f.seen
  /\ g.merge_values = f.merge_values

LEMMA SameByRule ==
  ASSUME NEW f, NEW g, f.f # "seq", g.f # "seq", ByRule(f), SameTable(f, g)
  PROVE  ByRule(g)
BY DEF ByRule, TableOf, SameTable

LEMMA NextKeyTable ==
  ASSUME NEW g, Has(g, MapFields)
  PROVE  SameTable(g, NextKey(g)) /\ NextKey(g).f = "key"
BY DEF SameTable, NextKey, Has, MapFields

\* A value that meets no objection leaves the frame as the policy says.
LEMMA EnteredByRule ==
  ASSUME NEW L, L.spanned = TRUE, NEW f, Has(f, MapFields), f.f = "value", ByRule(f),
         NEW v, IsSeq(v.pairs), NEW span, Objection(f) = "none"
  PROVE  ByRule(NextKey(Entered(L, f, v, span)))
<1> DEFINE g == Entered(L, f, v, span)
           idx == get_index_of(f.map, f.key)
           e == Met(f, v, span)
<1>1. TableOf(f) /\ Sources(f.merge_values)
  BY DEF ByRule
<1>2. Has(g, MapFields)
  BY EnteredFacts
<1>. SUFFICES TableOf(g) /\ Sources(g.merge_values)
  <2>. HIDE DEF g
  <2>1. SameTable(g, NextKey(g)) /\ NextKey(g).f = "key"
    BY <1>2, NextKeyTable
  <2>2. ASSUME TableOf(g), Sources(g.merge_values) PROVE ByRule(NextKey(g))
    BY <2>1, <2>2 DEF ByRule, TableOf, SameTable
  <2>. QED BY <2>2 DEF g
<1>3. CASE IsMerge(f) /\ config.merge # "AsOrdinary"
  <2>1. g = [f EXCEPT !.merge_values = Append(@, v)]
    BY <1>3 DEF Entered
  <2>. HIDE DEF g
  <2>2. /\ g.map = f.map /\ g.spans = f.spans /\ g.typed_keys = f.typed_keys
        /\ g.seen = f.seen /\ g.merge_values = Append(f.merge_values, v)
    BY <2>1 DEF Has, MapFields
  <2>3. Sources(g.merge_values)
    BY <1>1, <2>2, SourcesAppend
  <2>. QED BY <1>1, <2>2, <2>3 DEF TableOf, g
<1>4. CASE ~(IsMerge(f) /\ config.merge # "AsOrdinary")
  <2>1. g = Seen(InsertSpanned(f, v, span), v, span)
    BY <1>4 DEF Entered
  <2>2. /\ g.seen = Append(f.seen, e) /\ g.merge_values = f.merge_values
        /\ idx = 0 =>
             /\ g.map = Append(f.map, [key |-> e.key, val |-> e.val])
             /\ g.spans = Append(f.spans, e.span)
             /\ g.typed_keys = record(f.typed_keys, Len(f.map), e.shape)
        /\ idx # 0 => g.typed_keys = f.typed_keys
        /\ idx # 0 /\ config.duplicate = "Last" =>
             /\ g.map = [f.map EXCEPT ![idx].val = e.val]
             /\ g.spans = [f.spans EXCEPT ![idx] = e.span]
        /\ idx # 0 /\ config.duplicate # "Last" => g.map = f.map /\ g.spans = f.spans
    <3>. HIDE DEF g, e, idx
    <3>. QED BY <2>1, InsertedFields DEF e, idx
  <2>3. e.key = f.key /\ e.shape = f.key_value /\ Has(e, {"key", "shape", "val", "span"})
    BY DEF Met, Has
  <2>4. idx # 0 => at(f.typed_keys, idx) = e.shape
    BY <1>4, <2>3 DEF Objection
  <2>5. idx = get_index_of(f.map, e.key)
    BY <2>3
  <2>6. Table(f.map, f.spans, f.typed_keys, f.seen, config.duplicate)
    BY <1>1 DEF TableOf
  <2>. HIDE DEF g, e, idx
  <2>7. CASE idx = 0
    <3>1. Table(Append(f.map, [key |-> e.key, val |-> e.val]), Append(f.spans, e.span),
                record(f.typed_keys, Len(f.map), e.shape), Append(f.seen, e), config.duplicate)
      BY <2>3, <2>5, <2>6, <2>7, NewRow
    <3>. QED BY <1>1, <2>2, <2>7, <3>1 DEF TableOf
  <2>8. CASE idx # 0 /\ config.duplicate = "Last"
    <3>1. Table([f.map EXCEPT ![idx].val = e.val], [f.spans EXCEPT ![idx] = e.span],
                f.typed_keys, Append(f.seen, e), "Last")
      BY <2>4, <2>5, <2>6, <2>8, LastRow
    <3>. QED BY <1>1, <2>2, <2>8, <3>1 DEF TableOf
  <2>9. CASE idx # 0 /\ config.duplicate # "Last"
    <3>1. Table(f.map, f.spans, f.typed_keys, Append(f.seen, e), config.duplicate)
      BY <2>4, <2>5, <2>6, <2>9, FirstRow
    <3>. QED BY <1>1, <2>2, <2>9, <3>1 DEF TableOf
  <2>. QED BY <2>7, <2>8, <2>9
<1>. QED
  BY <1>3, <1>4

-----------------------------------------------------------------------------
(* Merging.                                                                *)

LEMMA ConcatSeq ==
  ASSUME NEW s, NEW t, IsSeq(s), IsSeq(t)
  PROVE  /\ IsSeq(s \o t) /\ Len(s \o t) = Len(s) + Len(t)
         /\ \A i \in 1 .. Len(s) : (s \o t)[i] = s[i]
         /\ \A i \in 1 .. Len(t) : (s \o t)[Len(s) + i] = t[i]
<1>1. PICK S : s \in Seq(S)
  BY DEF IsSeq
<1>2. PICK T : t \in Seq(T)
  BY DEF IsSeq
<1>3. s \in Seq(S \cup T) /\ t \in Seq(S \cup T) /\ Len(s) \in Nat /\ Len(t) \in Nat
  BY <1>1, <1>2
<1>4. /\ s \o t \in Seq(S \cup T) /\ Len(s \o t) = Len(s) + Len(t)
      /\ \A i \in 1 .. Len(s) + Len(t) :
           (s \o t)[i] = IF i <= Len(s) THEN s[i] ELSE t[i - Len(s)]
  BY <1>3, ConcatProperties
<1>5. IsSeq(s \o t)
  BY <1>4, Zenon DEF IsSeq
<1>6. \A i \in 1 .. Len(s) : i \in 1 .. Len(s) + Len(t) /\ i <= Len(s)
  BY <1>3
<1>7. \A i \in 1 .. Len(t) :
        Len(s) + i \in 1 .. Len(s) + Len(t) /\ ~(Len(s) + i <= Len(s)) /\ Len(s) + i - Len(s) = i
  BY <1>3
<1>. QED
  BY <1>4, <1>5, <1>6, <1>7

\* A recursive function over 0 .. b exists: the fold of apply_merge, ...
Folded(map, p, b, g) ==
  g = [k \in 0 .. b |-> IF k = 0 THEN map ELSE Offer(g[k - 1], p[k])]

LEMMA FoldExists ==
  ASSUME NEW map, NEW p, NEW b \in Nat
  PROVE  \E g : Folded(map, p, b, g)
<1> DEFINE S == {i \in 0 .. b : \E g : Folded(map, p, i, g)}
<1>1. 0 \in S
  <2> DEFINE g == [k \in 0 .. 0 |-> map]
  <2>1. Folded(map, p, 0, g)
    BY DEF Folded
  <2>. QED BY <2>1
<1>2. ASSUME NEW i \in 1 .. b, i - 1 \in S PROVE i \in S
  <2>1. PICK g : Folded(map, p, i - 1, g)
    BY <1>2
  <2> DEFINE h == [k \in 0 .. i |-> IF k = i THEN Offer(g[i - 1], p[i]) ELSE g[k]]
  <2>2. ASSUME NEW k \in 0 .. i
        PROVE  h[k] = IF k = 0 THEN map ELSE Offer(h[k - 1], p[k])
    <3>1. i - 1 \in 0 .. i /\ i - 1 # i
      BY <1>2
    <3>2. CASE k = i
      BY <3>1, <3>2
    <3>3. CASE k # i
      <4>1. k \in 0 .. i - 1 /\ (k # 0 => k - 1 \in 0 .. i /\ k - 1 # i)
        BY <3>3
      <4>2. g[k] = IF k = 0 THEN map ELSE Offer(g[k - 1], p[k])
        BY <2>1, <4>1 DEF Folded
      <4>. QED BY <3>3, <4>1, <4>2
    <3>. QED BY <3>2, <3>3
  <2>3. h = [k \in 0 .. i |-> IF k = 0 THEN map ELSE Offer(h[k - 1], p[k])]
    <3>1. h = [k \in 0 .. i |-> h[k]]
      OBVIOUS
    <3>. HIDE DEF h
    <3>. QED BY <2>2, <3>1
  <2>4. Folded(map, p, i, h)
    <3>. HIDE DEF h
    <3>. QED BY <2>3 DEF Folded
  <2>. QED BY <2>4
<1>3. \A i \in 0 .. b : i \in S
  <2>. HIDE DEF S
  <2>. QED BY <1>1, <1>2, Upto
<1>. QED
  BY <1>3

LEMMA ApplyFacts ==
  ASSUME NEW map, NEW v, IsSeq(v.pairs)
  PROVE  \E g : Folded(map, v.pairs, Len(v.pairs), g) /\ apply_merge(map, v) = g[Len(v.pairs)]
<1> DEFINE p == v.pairs
           b == Len(p)
           g == CHOOSE g : Folded(map, p, b, g)
<1>1. b \in Nat
  BY SeqFacts
<1>2. Folded(map, p, b, g)
  <2>. HIDE DEF b, p
  <2>. QED BY <1>1, FoldExists
<1>3. apply_merge(map, v) = g[b]
  BY DEF apply_merge, Folded
<1>. QED
  BY <1>2, <1>3

\* ... that of Merged, ...
Applied(map, vs, b, g) ==
  g = [k \in 0 .. b |-> IF k = 0 THEN map ELSE apply_merge(g[k - 1], vs[k])]

LEMMA ApplyExists ==
  ASSUME NEW map, NEW vs, NEW b \in Nat
  PROVE  \E g : Applied(map, vs, b, g)
<1> DEFINE S == {i \in 0 .. b : \E g : Applied(map, vs, i, g)}
<1>1. 0 \in S
  <2> DEFINE g == [k \in 0 .. 0 |-> map]
  <2>1. Applied(map, vs, 0, g)
    BY DEF Applied
  <2>. QED BY <2>1
<1>2. ASSUME NEW i \in 1 .. b, i - 1 \in S PROVE i \in S
  <2>1. PICK g : Applied(map, vs, i - 1, g)
    BY <1>2
  <2> DEFINE h == [k \in 0 .. i |-> IF k = i THEN apply_merge(g[i - 1], vs[i]) ELSE g[k]]
  <2>2. ASSUME NEW k \in 0 .. i
        PROVE  h[k] = IF k = 0 THEN map ELSE apply_merge(h[k - 1], vs[k])
    <3>1. i - 1 \in 0 .. i /\ i - 1 # i
      BY <1>2
    <3>2. CASE k = i
      BY <3>1, <3>2
    <3>3. CASE k # i
      <4>1. k \in 0 .. i - 1 /\ (k # 0 => k - 1 \in 0 .. i /\ k - 1 # i)
        BY <3>3
      <4>2. g[k] = IF k = 0 THEN map ELSE apply_merge(g[k - 1], vs[k])
        BY <2>1, <4>1 DEF Applied
      <4>. QED BY <3>3, <4>1, <4>2
    <3>. QED BY <3>2, <3>3
  <2>3. h = [k \in 0 .. i |-> IF k = 0 THEN map ELSE apply_merge(h[k - 1], vs[k])]
    <3>1. h = [k \in 0 .. i |-> h[k]]
      OBVIOUS
    <3>. HIDE DEF h
    <3>. QED BY <2>2, <3>1
  <2>4. Applied(map, vs, i, h)
    <3>. HIDE DEF h
    <3>. QED BY <2>3 DEF Applied
  <2>. QED BY <2>4
<1>3. \A i \in 0 .. b : i \in S
  <2>. HIDE DEF S
  <2>. QED BY <1>1, <1>2, Upto
<1>. QED
  BY <1>3

LEMMA MergedFacts ==
  ASSUME NEW f, IsSeq(f.merge_values)
  PROVE  \E g : Applied(f.map, f.merge_values, Len(f.merge_values), g)
                  /\ Merged(f) = g[Len(f.merge_values)]
<1> DEFINE vs == f.merge_values
           b == Len(vs)
           map == f.map
           g == CHOOSE g : Applied(map, vs, b, g)
<1>1. b \in Nat
  BY SeqFacts
<1>2. Applied(map, vs, b, g)
  <2>. HIDE DEF b, vs, map
  <2>. QED BY <1>1, ApplyExists
<1>3. Merged(f) = g[b]
  BY DEF Merged, Applied
<1>. QED
  BY <1>2, <1>3

\* ... and that of FlattenSeq.
Flattened(seqs, b, g) ==
  g = [i \in 1 .. b |-> IF i = 1 THEN seqs[i] ELSE g[i - 1] \o seqs[i]]

LEMMA FlattenExists ==
  ASSUME NEW seqs, NEW b \in Nat
  PROVE  \E g : Flattened(seqs, b, g)
<1> DEFINE S == {i \in 0 .. b : \E g : Flattened(seqs, i, g)}
<1>1. 0 \in S
  <2> DEFINE g == [k \in 1 .. 0 |-> seqs[k]]
  <2>1. Flattened(seqs, 0, g)
    <3>1. g = [k \in 1 .. 0 |-> IF k = 1 THEN seqs[k] ELSE g[k - 1] \o seqs[k]]
      OBVIOUS
    <3>. HIDE DEF g
    <3>. QED BY <3>1 DEF Flattened
  <2>. QED BY <2>1
<1>2. ASSUME NEW i \in 1 .. b, i - 1 \in S PROVE i \in S
  <2>1. PICK g : Flattened(seqs, i - 1, g)
    BY <1>2
  <2> DEFINE h == [k \in 1 .. i |-> IF k = i THEN IF i = 1 THEN seqs[i] ELSE g[i - 1] \o seqs[i]
                                    ELSE g[k]]
  <2>2. ASSUME NEW k \in 1 .. i
        PROVE  h[k] = IF k = 1 THEN seqs[k] ELSE h[k - 1] \o seqs[k]
    <3>1. i # 1 => i - 1 \in 1 .. i /\ i - 1 # i
      BY <1>2
    <3>2. CASE k = i
      BY <3>1, <3>2
    <3>3. CASE k # i
      <4>1. k \in 1 .. i - 1 /\ (k # 1 => k - 1 \in 1 .. i /\ k - 1 # i)
        BY <3>3
      <4>2. g[k] = IF k = 1 THEN seqs[k] ELSE g[k - 1] \o seqs[k]
        BY <2>1, <4>1 DEF Flattened
      <4>. QED BY <3>3, <4>1, <4>2
    <3>. QED BY <3>2, <3>3
  <2>3. h = [k \in 1 .. i |-> IF k = 1 THEN seqs[k] ELSE h[k - 1] \o seqs[k]]
    <3>1. h = [k \in 1 .. i |-> h[k]]
      OBVIOUS
    <3>. HIDE DEF h
    <3>. QED BY <2>2, <3>1
  <2>4. Flattened(seqs, i, h)
    <3>. HIDE DEF h
    <3>. QED BY <2>3 DEF Flattened
  <2>. QED BY <2>4
<1>3. \A i \in 0 .. b : i \in S
  <2>. HIDE DEF S
  <2>. QED BY <1>1, <1>2, Upto
<1>. QED
  BY <1>3

LEMMA FlattenFacts ==
  ASSUME NEW seqs, Len(seqs) \in Nat, Len(seqs) # 0
  PROVE  \E g : Flattened(seqs, Len(seqs), g) /\ FlattenSeq(seqs) = g[Len(seqs)]
<1> DEFINE b == Len(seqs)
           g == CHOOSE g : Flattened(seqs, b, g)
<1>1. Flattened(seqs, b, g)
  <2>. HIDE DEF b
  <2>. QED BY FlattenExists DEF b
<1>2. FlattenSeq(seqs) = g[b]
  BY DEF FlattenSeq, Flattened
<1>. QED
  BY <1>1, <1>2

\* The entries each of several sources offers.
Offers(vs) == [j \in DOMAIN vs |-> vs[j].pairs]

LEMMA OffersFacts ==
  ASSUME NEW vs, Sources(vs)
  PROVE  /\ IsSeq(Offers(vs)) /\ Len(Offers(vs)) = Len(vs) /\ Len(vs) \in Nat
         /\ \A i \in 1 .. Len(vs) : Offers(vs)[i] = vs[i].pairs /\ IsSeq(Offers(vs)[i])
<1>1. IsSeq(vs) /\ Len(vs) \in Nat /\ DOMAIN vs = 1 .. Len(vs)
  BY SeqFacts DEF Sources
<1> DEFINE S == {vs[j].pairs : j \in 1 .. Len(vs)}
<1>2. Offers(vs) \in [1 .. Len(vs) -> S]
  BY <1>1 DEF Offers
<1>3. Offers(vs) \in Seq(S) /\ Len(Offers(vs)) = Len(vs)
  BY <1>1, <1>2
<1>4. IsSeq(Offers(vs))
  BY <1>3, Zenon DEF IsSeq
<1>5. \A i \in 1 .. Len(vs) : Offers(vs)[i] = vs[i].pairs
  BY <1>1 DEF Offers
<1>. QED
  BY <1>1, <1>3, <1>4, <1>5 DEF Sources

LEMMA FlattenedSeq ==
  ASSUME NEW seqs, NEW b \in Nat, \A i \in 1 .. b : IsSeq(seqs[i]), NEW g, Flattened(seqs, b, g)
  PROVE  \A i \in 1 .. b : IsSeq(g[i])
<1> DEFINE S == {i \in 0 .. b : i = 0 \/ IsSeq(g[i])}
<1>1. 0 \in S
  OBVIOUS
<1>2. ASSUME NEW i \in 1 .. b, i - 1 \in S PROVE i \in S
  <2>1. g[i] = IF i = 1 THEN seqs[i] ELSE g[i - 1] \o seqs[i]
    BY DEF Flattened
  <2>2. CASE i = 1
    BY <2>1, <2>2
  <2>3. CASE i # 1
    <3>1. IsSeq(g[i - 1]) /\ IsSeq(seqs[i])
      BY <1>2, <2>3
    <3>2. IsSeq(g[i - 1] \o seqs[i])
      BY ONLY <3>1, ConcatSeq
    <3>3. g[i] = g[i - 1] \o seqs[i]
      BY <2>1, <2>3
    <3>4. IsSeq(g[i])
      BY ONLY <3>2, <3>3, Zenon
    <3>. QED BY <3>4
  <2>. QED BY <2>2, <2>3
<1>3. \A i \in 0 .. b : i \in S
  <2>. HIDE DEF S
  <2>. QED BY <1>1, <1>2, Upto
<1>. QED
  BY <1>3

LEMMA FlattenIsSeq ==
  ASSUME NEW vs, Sources(vs)
  PROVE  IsSeq(FlattenSeq(Offers(vs)))
<1>1. /\ IsSeq(Offers(vs)) /\ Len(Offers(vs)) = Len(vs) /\ Len(vs) \in Nat
      /\ \A i \in 1 .. Len(vs) : IsSeq(Offers(vs)[i])
  BY OffersFacts
<1>2. CASE Len(vs) = 0
  BY <1>1, <1>2 DEF FlattenSeq
<1>3. CASE Len(vs) # 0
  <2>1. PICK g : Flattened(Offers(vs), Len(vs), g) /\ FlattenSeq(Offers(vs)) = g[Len(vs)]
    BY <1>1, <1>3, FlattenFacts
  <2>2. \A i \in 1 .. Len(vs) : IsSeq(g[i])
    BY <1>1, <2>1, FlattenedSeq
  <2>. QED BY <1>1, <1>3, <2>1, <2>2
<1>. QED
  BY <1>2, <1>3

\* What merging has come to when the first k entries of q have been offered:
\* the explicit entries still stand first, and each later entry is the first
\* offered under its key.
Absorbed(map, m, q, k) ==
  /\ IsSeq(m) /\ Len(map) <= Len(m) /\ \A j \in 1 .. Len(map) : m[j] = map[j]
  /\ \A i, j \in 1 .. Len(m) : m[i].key = m[j].key => i = j
  /\ \A i \in 1 .. k : \E j \in 1 .. Len(m) : m[j].key = q[i].key
  /\ \A j \in Len(map) + 1 .. Len(m) :
       \E i \in 1 .. k :
         m[j] = q[i] /\ \A h \in 1 .. k : q[h].key = q[i].key => i <= h

LEMMA OfferStep ==
  ASSUME NEW map, IsSeq(map), NEW m, NEW q, NEW k \in Nat, Absorbed(map, m, q, k)
  PROVE  Absorbed(map, Offer(m, q[k + 1]), q, k + 1)
<1> DEFINE x == q[k + 1]
           i0 == get_index_of(m, x.key)
<1>1. IsSeq(m) /\ Len(m) \in Nat /\ Len(map) \in Nat /\ Len(map) <= Len(m)
  BY SeqFacts DEF Absorbed
<1>2. /\ i0 \in 0 .. Len(m)
      /\ i0 # 0 => m[i0].key = x.key
      /\ i0 = 0 => \A j \in 1 .. Len(m) : m[j].key # x.key
  BY <1>1, IndexFacts
<1>3. \A i \in 1 .. k + 1 : i \in 1 .. k \/ i = k + 1
  OBVIOUS
<1>4. k + 1 \in 1 .. k + 1 /\ \A i \in 1 .. k : i \in 1 .. k + 1 /\ i <= k + 1
  OBVIOUS
<1>. HIDE DEF i0
<1>5. CASE i0 # 0
  <2>1. Offer(m, x) = m
    BY <1>5 DEF Offer, i0
  <2>2. i0 \in 1 .. Len(m)
    BY <1>2, <1>5
  <2>3. \A i \in 1 .. k + 1 : \E j \in 1 .. Len(m) : m[j].key = q[i].key
    BY <1>2, <1>3, <1>5, <2>2 DEF Absorbed
  <2>4. ASSUME NEW j \in Len(map) + 1 .. Len(m)
        PROVE  \E i \in 1 .. k + 1 :
                 m[j] = q[i] /\ \A h \in 1 .. k + 1 : q[h].key = q[i].key => i <= h
    <3>1. PICK i \in 1 .. k : m[j] = q[i] /\ \A h \in 1 .. k : q[h].key = q[i].key => i <= h
      BY DEF Absorbed
    <3>. QED BY <1>3, <1>4, <3>1
  <2>5. Absorbed(map, m, q, k + 1)
    BY <2>3, <2>4 DEF Absorbed
  <2>. QED BY <2>1, <2>5
<1>6. CASE i0 = 0
  <2> DEFINE t == Append(m, x)
  <2>1. Offer(m, x) = t
    BY <1>6 DEF Offer, i0
  <2>2. /\ IsSeq(t) /\ Len(t) = Len(m) + 1 /\ \A j \in 1 .. Len(m) : t[j] = m[j]
        /\ t[Len(m) + 1] = x
    BY <1>1, AppendSeq
  <2>. HIDE DEF t, x
  <2>3. \A j \in 1 .. Len(t) : j \in 1 .. Len(m) \/ j = Len(m) + 1
    BY <1>1, <2>2
  <2>4. /\ \A j \in 1 .. Len(m) : j \in 1 .. Len(t)
        /\ Len(m) + 1 \in 1 .. Len(t) /\ Len(map) <= Len(t)
        /\ \A j \in 1 .. Len(map) : j \in 1 .. Len(m)
    BY <1>1, <2>2
  <2>5. \A j \in 1 .. Len(map) : t[j] = map[j]
    BY <2>2, <2>4 DEF Absorbed
  <2>6. \A i, j \in 1 .. Len(t) : t[i].key = t[j].key => i = j
    BY <1>2, <1>6, <2>2, <2>3 DEF Absorbed
  <2>7. \A i \in 1 .. k + 1 : \E j \in 1 .. Len(t) : t[j].key = q[i].key
    <3>1. ASSUME NEW i \in 1 .. k PROVE \E j \in 1 .. Len(t) : t[j].key = q[i].key
      <4>1. PICK j \in 1 .. Len(m) : m[j].key = q[i].key
        BY DEF Absorbed
      <4>. QED BY <2>2, <2>4, <4>1
    <3>2. t[Len(m) + 1].key = q[k + 1].key
      BY <2>2 DEF x
    <3>. QED BY <1>3, <2>4, <3>1, <3>2
  <2>8. ASSUME NEW j \in Len(map) + 1 .. Len(t)
        PROVE  \E i \in 1 .. k + 1 :
                 t[j] = q[i] /\ \A h \in 1 .. k + 1 : q[h].key = q[i].key => i <= h
    <3>1. CASE j \in Len(map) + 1 .. Len(m)
      <4>1. PICK i \in 1 .. k : m[j] = q[i] /\ \A h \in 1 .. k : q[h].key = q[i].key => i <= h
        BY <3>1 DEF Absorbed
      <4>2. t[j] = m[j]
        BY <1>1, <2>2, <3>1
      <4>. QED BY <1>3, <1>4, <4>1, <4>2
    <3>2. CASE j = Len(m) + 1
      <4>1. \A h \in 1 .. k : q[h].key # x.key
        <5>1. ASSUME NEW h \in 1 .. k PROVE q[h].key # x.key
          <6>1. PICK l \in 1 .. Len(m) : m[l].key = q[h].key
            BY DEF Absorbed
          <6>. QED BY <1>2, <1>6, <6>1
        <5>. QED BY <5>1
      <4>2. t[j] = q[k + 1]
        BY <2>2, <3>2 DEF x
      <4>3. \A h \in 1 .. k + 1 : q[h].key = q[k + 1].key => k + 1 <= h
        BY <1>3, <4>1 DEF x
      <4>. QED BY <1>4, <4>2, <4>3
    <3>. QED BY <1>1, <2>2, <3>1, <3>2
  <2>9. Absorbed(map, t, q, k + 1)
    BY <2>2, <2>4, <2>5, <2>6, <2>7, <2>8 DEF Absorbed
  <2>. QED BY <2>1, <2>9 DEF x
<1>. QED
  BY <1>5, <1>6

\* More entries behind those offered change nothing.
LEMMA AbsorbedPrefix ==
  ASSUME NEW map, NEW m, NEW q, NEW k \in Nat, Absorbed(map, m, q, k),
         NEW r, \A i \in 1 .. k : r[i] = q[i]
  PROVE  Absorbed(map, m, r, k)
<1>1. \A i \in 1 .. k : \E j \in 1 .. Len(m) : m[j].key = r[i].key
  <2>. TAKE i \in 1 .. k
  <2>1. \E j \in 1 .. Len(m) : m[j].key = q[i].key
    BY DEF Absorbed
  <2>. QED BY <2>1
<1>2. ASSUME NEW j \in Len(map) + 1 .. Len(m)
      PROVE  \E i \in 1 .. k : m[j] = r[i] /\ \A h \in 1 .. k : r[h].key = r[i].key => i <= h
  <2>1. PICK i \in 1 .. k : m[j] = q[i] /\ \A h \in 1 .. k : q[h].key = q[i].key => i <= h
    BY DEF Absorbed
  <2>. QED BY <2>1
<1>. QED
  BY <1>1, <1>2 DEF Absorbed

\* A source merged: its entries follow the c offered before.
LEMMA ApplyAbsorbs ==
  ASSUME NEW map, IsSeq(map), NEW m, NEW q, NEW c \in Nat, Absorbed(map, m, q, c),
         NEW v, IsSeq(v.pairs), \A i \in 1 .. Len(v.pairs) : q[c + i] = v.pairs[i]
  PROVE  Absorbed(map, apply_merge(m, v), q, c + Len(v.pairs))
<1> DEFINE p == v.pairs
           b == Len(p)
<1>1. b \in Nat
  BY SeqFacts
<1>2. PICK g : Folded(m, p, b, g) /\ apply_merge(m, v) = g[b]
  BY ApplyFacts
<1>3. \A i \in 1 .. b : q[c + i] = p[i]
  OBVIOUS
<1>. HIDE DEF b, p
<1> DEFINE S == {i \in 0 .. b : Absorbed(map, g[i], q, c + i)}
<1>4. 0 \in S
  <2>1. g[0] = m /\ c + 0 = c
    BY <1>1, <1>2 DEF Folded
  <2>. QED BY <1>1, <2>1
<1>5. ASSUME NEW i \in 1 .. b, i - 1 \in S PROVE i \in S
  <2>1. g[i] = Offer(g[i - 1], p[i])
    <3>1. i \in 0 .. b /\ i # 0
      BY <1>1
    <3>2. g = [k \in 0 .. b |-> IF k = 0 THEN m ELSE Offer(g[k - 1], p[k])]
      BY <1>2 DEF Folded
    <3>. QED BY ONLY <3>1, <3>2
  <2>2. Absorbed(map, g[i - 1], q, c + (i - 1))
    BY <1>5
  <2>3. c + (i - 1) \in Nat /\ c + (i - 1) + 1 = c + i /\ q[c + i] = p[i]
    BY <1>1, <1>3
  <2>4. Absorbed(map, Offer(g[i - 1], q[c + (i - 1) + 1]), q, c + (i - 1) + 1)
    BY <2>2, <2>3, OfferStep
  <2>5. Absorbed(map, g[i], q, c + i)
    BY <2>1, <2>3, <2>4
  <2>. QED BY <1>1, <2>5
<1>6. \A i \in 0 .. b : i \in S
  <2>. HIDE DEF S
  <2>. QED BY <1>1, <1>4, <1>5, Upto
<1>7. b \in 0 .. b
  BY <1>1
<1>8. Absorbed(map, g[b], q, c + b)
  BY <1>6, <1>7
<1>. QED
  BY <1>2, <1>8 DEF b, p

\* All sources merged: everything they offer is absorbed.
LEMMA MergedAbsorbs ==
  ASSUME NEW f, IsSeq(f.map), Sources(f.merge_values),
         \A i, j \in 1 .. Len(f.map) : f.map[i].key = f.map[j].key => i = j
  PROVE  LET q == FlattenSeq(Offers(f.merge_values))
         IN  IsSeq(q) /\ Absorbed(f.map, Merged(f), q, Len(q))
<1> DEFINE vs == f.merge_values
           b == Len(vs)
           seqs == Offers(vs)
           q == FlattenSeq(seqs)
           map == f.map
<1>1. /\ IsSeq(vs) /\ IsSeq(seqs) /\ Len(seqs) = b /\ b \in Nat
      /\ \A i \in 1 .. b : seqs[i] = vs[i].pairs /\ IsSeq(seqs[i])
  BY OffersFacts DEF Sources
<1>2. IsSeq(q) /\ Len(q) \in Nat
  BY FlattenIsSeq, SeqFacts
<1>3. PICK a : Applied(map, vs, b, a) /\ Merged(f) = a[b]
  BY <1>1, MergedFacts
<1>4. a[0] = map /\ \A i \in 1 .. b : a[i] = apply_merge(a[i - 1], vs[i])
  <2>1. b \in Nat /\ Applied(map, vs, b, a)
    BY <1>1, <1>3
  <2>. HIDE DEF map, vs, b, q, seqs
  <2>2. \A k \in 0 .. b : a[k] = IF k = 0 THEN map ELSE apply_merge(a[k - 1], vs[k])
    BY ONLY <2>1 DEF Applied
  <2>. QED BY ONLY <2>1, <2>2
<1>5. IsSeq(map) /\ Len(map) \in Nat /\ \A i, j \in 1 .. Len(map) : map[i].key = map[j].key => i = j
  BY SeqFacts
<1>6. \A r : Absorbed(map, map, r, 0)
  BY <1>5 DEF Absorbed
<1>. HIDE DEF q, b
<1>7. CASE b = 0
  <2>1. Len(q) = 0
    BY <1>1, <1>7 DEF q, FlattenSeq
  <2>2. Merged(f) = map
    BY <1>3, <1>4, <1>7
  <2>3. Absorbed(map, Merged(f), q, Len(q))
    BY <1>6, <2>1, <2>2
  <2>. QED BY <1>2, <2>3 DEF q
<1>8. CASE b # 0
  <2>1. PICK g : Flattened(seqs, b, g) /\ q = g[b]
    BY <1>1, <1>8, FlattenFacts DEF q
  <2>2. \A i \in 1 .. b : IsSeq(g[i])
    BY <1>1, <2>1, FlattenedSeq
  <2>3. \A i \in 1 .. b : g[i] = IF i = 1 THEN seqs[i] ELSE g[i - 1] \o seqs[i]
    BY <2>1 DEF Flattened
  <2>. HIDE DEF seqs, vs, map
  <2> DEFINE S == {i \in 0 .. b : i = 0 \/ Absorbed(map, a[i], g[i], Len(g[i]))}
  <2>4. 0 \in S
    BY <1>1
  <2>5. ASSUME NEW i \in 1 .. b, i - 1 \in S PROVE i \in S
    <3>1. IsSeq(vs[i].pairs) /\ seqs[i] = vs[i].pairs /\ Len(vs[i].pairs) \in Nat
      BY <1>1, SeqFacts
    <3>2. CASE i = 1
      <4>1. g[1] = vs[1].pairs /\ Absorbed(map, a[0], g[1], 0)
        BY <1>4, <1>6, <2>3, <3>1, <3>2
      <4>2. \A k \in 1 .. Len(vs[1].pairs) : g[1][0 + k] = vs[1].pairs[k]
        BY <4>1
      <4>3. Absorbed(map, apply_merge(a[0], vs[1]), g[1], 0 + Len(vs[1].pairs))
        BY <1>5, <3>1, <3>2, <4>1, <4>2, ApplyAbsorbs
      <4>4. 0 + Len(vs[1].pairs) = Len(g[1]) /\ a[1] = apply_merge(a[0], vs[1])
        BY <1>4, <3>1, <3>2, <4>1
      <4>. QED BY <3>2, <4>3, <4>4
    <3>3. CASE i # 1
      <4> DEFINE o == g[i - 1]
                 c == Len(o)
      <4>1. i - 1 \in 1 .. b /\ IsSeq(o) /\ c \in Nat
        <5>1. i - 1 \in 1 .. b
          BY ONLY <1>1, <3>3, i \in 1 .. b
        <5>2. IsSeq(o)
          BY <2>2, <5>1
        <5>. QED BY <5>1, <5>2, SeqFacts
      <4>2. Absorbed(map, a[i - 1], o, c)
        BY <2>5, <3>3
      <4>3. g[i] = o \o vs[i].pairs
        BY <2>3, <3>1, <3>3
      <4>. HIDE DEF o, c
      <4>4. /\ Len(g[i]) = c + Len(vs[i].pairs)
            /\ \A k \in 1 .. c : g[i][k] = o[k]
            /\ \A k \in 1 .. Len(vs[i].pairs) : g[i][c + k] = vs[i].pairs[k]
        BY <3>1, <4>1, <4>3, ConcatSeq DEF c
      <4>5. Absorbed(map, a[i - 1], g[i], c)
        BY <4>1, <4>2, <4>4, AbsorbedPrefix
      <4>6. Absorbed(map, apply_merge(a[i - 1], vs[i]), g[i], c + Len(vs[i].pairs))
        BY <1>5, <3>1, <4>1, <4>4, <4>5, ApplyAbsorbs
      <4>7. a[i] = apply_merge(a[i - 1], vs[i])
        BY <1>4
      <4>. QED BY <4>4, <4>6, <4>7
    <3>. QED BY <3>2, <3>3
  <2>6. \A i \in 0 .. b : i \in S
    <3>. HIDE DEF S
    <3>. QED BY <1>1, <2>4, <2>5, Upto
  <2>7. Absorbed(map, a[b], g[b], Len(g[b]))
    BY <1>1, <1>8, <2>6
  <2>. QED BY <1>2, <1>3, <2>1, <2>7 DEF q, seqs, vs, map
<1>. QED
  BY <1>7, <1>8

-----------------------------------------------------------------------------
(* A loader whose frames follow the policy and whose anchors name values   *)
(* that can be merged from.                                                *)

Built(L) ==
  /\ \A i \in 1 .. Len(L.stack) : ByRule(L.stack[i])
  /\ \A a \in DOMAIN L.anchor_map : IsSeq(L.anchor_map[a].val.pairs)

LEMMA SameBuilt ==
  ASSUME NEW L, Built(L), NEW M, M.stack = L.stack, M.anchor_map = L.anchor_map
  PROVE  Built(M)
BY DEF Built

LEMMA FailBuilt ==
  ASSUME NEW L, IsLoader(L), Built(L), NEW e, NEW p
  PROVE  Built(Fail(L, e, p))
<1>1. Fail(L, e, p).stack = L.stack /\ Fail(L, e, p).anchor_map = L.anchor_map
  BY FailFacts DEF Keeps
<1>. QED
  BY <1>1, SameBuilt

LEMMA SetTopBuilt ==
  ASSUME NEW L, IsLoader(L), Built(L), L.stack # <<>>, NEW g, IsFrame(g), ByRule(g)
  PROVE  Built(SetTop(L, g))
<1> DEFINE M == SetTop(L, g)
<1>1. /\ Len(M.stack) = Len(L.stack) /\ Last(M.stack) = g /\ M.anchor_map = L.anchor_map
      /\ \A i \in 1 .. Len(L.stack) - 1 : M.stack[i] = L.stack[i]
  BY SetTopFacts DEF Keeps
<1>2. Len(L.stack) \in Nat /\ Len(L.stack) >= 1
  BY TopFrame
<1>. HIDE DEF M
<1>3. M.stack[Len(L.stack)] = g
  BY <1>1 DEF Last
<1>4. \A i \in 1 .. Len(L.stack) : i = Len(L.stack) \/ i \in 1 .. Len(L.stack) - 1
  BY <1>2
<1>5. Built(M)
  BY <1>1, <1>3, <1>4 DEF Built
<1>. QED
  BY <1>5 DEF M

LEMMA TopByRule ==
  ASSUME NEW L, IsLoader(L), Built(L), L.stack # <<>>
  PROVE  ByRule(Last(L.stack)) /\ IsFrame(Last(L.stack))
BY TopFrame DEF Built

LEMMA PushItemBuilt ==
  ASSUME NEW L, IsLoader(L), Built(L), L.stack # <<>>, Last(L.stack).f = "seq",
         NEW v, IsSeq(v.pairs), NEW spans
  PROVE  Built(PushItem(L, v, spans))
<1> DEFINE f == Last(L.stack)
           g == [f EXCEPT !.items = Append(@, v), !.spans = spans]
<1>1. Has(f, SeqFields) /\ f.anchor \in Anchors \cup {None} /\ Sources(f.items)
  BY TopByRule DEF IsFrame, ByRule
<1>2. g.f = "seq" /\ g.anchor = f.anchor /\ Has(g, SeqFields) /\ g.items = Append(f.items, v)
  BY <1>1 DEF Has, SeqFields
<1>3. PushItem(L, v, spans) = SetTop(L, g) \/ PushItem(L, v, spans) = Fail(L, "sequence_length", 0)
  BY DEF PushItem
<1>. HIDE DEF g
<1>4. Sources(g.items)
  BY <1>1, <1>2, SourcesAppend
<1>5. IsFrame(g) /\ ByRule(g)
  BY <1>1, <1>2, <1>4 DEF IsFrame, ByRule
<1>. QED
  BY <1>3, <1>5, SetTopBuilt, FailBuilt

LEMMA PushKeyBuilt ==
  ASSUME NEW L, IsLoader(L), Built(L), L.stack # <<>>, Last(L.stack).f = "key",
         NEW v, NEW may, NEW key_span, NEW start
  PROVE  Built(PushKey(L, v, may, key_span, start))
<1> DEFINE f == Last(L.stack)
<1>1. Has(f, MapFields) /\ f.anchor \in Anchors \cup {None} /\ ByRule(f)
  BY TopByRule DEF IsFrame
<1>2. ASSUME NEW shape
      PROVE  LET g == [f EXCEPT !.f = "value", !.key = v.key, !.key_may_merge = may,
                                !.key_value = shape, !.key_span = key_span]
             IN  IsFrame(g) /\ ByRule(g)
  <2> DEFINE g == [f EXCEPT !.f = "value", !.key = v.key, !.key_may_merge = may,
                            !.key_value = shape, !.key_span = key_span]
  <2>1. g.f = "value" /\ g.anchor = f.anchor /\ Has(g, MapFields) /\ SameTable(f, g)
    BY <1>1 DEF Has, MapFields, SameTable
  <2>. HIDE DEF g
  <2>2. IsFrame(g) /\ ByRule(g)
    BY <1>1, <2>1, SameByRule DEF IsFrame
  <2>. QED BY <2>2 DEF g
<1>3. \/ PushKey(L, v, may, key_span, start) = Fail(L, "non_scalar_key", start)
      \/ \E shape : PushKey(L, v, may, key_span, start) =
           SetTop(L, [f EXCEPT !.f = "value", !.key = v.key, !.key_may_merge = may,
                               !.key_value = shape, !.key_span = key_span])
  BY DEF PushKey
<1>4. CASE PushKey(L, v, may, key_span, start) = Fail(L, "non_scalar_key", start)
  BY <1>4, FailBuilt
<1>5. ASSUME NEW shape, PushKey(L, v, may, key_span, start) =
           SetTop(L, [f EXCEPT !.f = "value", !.key = v.key, !.key_may_merge = may,
                               !.key_value = shape, !.key_span = key_span])
      PROVE  Built(PushKey(L, v, may, key_span, start))
  BY <1>2, <1>5, SetTopBuilt
<1>. QED
  BY <1>3, <1>4, <1>5

LEMMA PushValueBuilt ==
  ASSUME NEW L, IsLoader(L), L.spanned = TRUE, Built(L), L.stack # <<>>,
         Last(L.stack).f = "value", NEW v, IsSeq(v.pairs), NEW span
  PROVE  Built(PushValue(L, v, span))
<1> DEFINE f == Last(L.stack)
           g == NextKey(Entered(L, f, v, span))
<1>1. Has(f, MapFields) /\ f.anchor \in Anchors \cup {None} /\ ByRule(f)
  BY TopByRule DEF IsFrame
<1>2. /\ Objection(f) = "none" => PushValue(L, v, span) = SetTop(L, g)
      /\ Objection(f) # "none" => \E p : PushValue(L, v, span) = Fail(L, Objection(f), p)
  BY PushValueObjection
<1>3. IsFrame(g)
  <2> DEFINE h == Entered(L, f, v, span)
  <2>1. Has(h, MapFields) /\ h.anchor = f.anchor
    BY <1>1, EnteredFacts
  <2>. HIDE DEF h
  <2>2. IsFrame(NextKey(h))
    BY <1>1, <2>1, NextKeyFacts
  <2>. QED BY <2>2 DEF h
<1>4. Objection(f) = "none" => ByRule(g)
  BY <1>1, EnteredByRule
<1>. HIDE DEF g, f
<1>5. CASE Objection(f) = "none"
  BY <1>2, <1>3, <1>4, <1>5, SetTopBuilt
<1>6. CASE Objection(f) # "none"
  BY <1>2, <1>6, FailBuilt
<1>. QED
  BY <1>5, <1>6

LEMMA PushBuilt ==
  ASSUME NEW L, IsLoader(L), L.err = "none", L.spanned = TRUE, Built(L),
         NEW v, IsSeq(v.pairs), NEW span, NEW may
  PROVE  Built(Push(L, v, span, may))
<1> DEFINE M == Push(L, v, span, may)
<1>1. CASE L.stack = <<>>
  <2>1. M.stack = L.stack /\ M.anchor_map = L.anchor_map
    BY <1>1, PushFacts DEF Rooted, Keeps
  <2>. QED BY <2>1, SameBuilt
<1>2. CASE L.stack # <<>>
  <2>1. Last(L.stack).f \in {"seq", "key", "value"}
    BY <1>2, TopFrame DEF IsFrame
  <2>2. CASE Last(L.stack).f = "seq"
    <3>1. \E spans : M = PushItem(L, v, spans)
      BY <1>2, <2>2 DEF Push, push_node, push_value
    <3>. QED BY <1>2, <2>2, <3>1, PushItemBuilt
  <2>3. CASE Last(L.stack).f = "key"
    <3>1. \E key_span, start : M = PushKey(L, v, may, key_span, start)
      BY <1>2, <2>3 DEF Push, push_node, push_value
    <3>. QED BY <1>2, <2>3, <3>1, PushKeyBuilt
  <2>4. CASE Last(L.stack).f = "value"
    <3>1. M = PushValue(L, v, span)
      BY <1>2, <2>4 DEF Push, push_node, push_value
    <3>. QED BY <1>2, <2>4, <3>1, PushValueBuilt
  <2>. QED BY <2>1, <2>2, <2>3, <2>4
<1>. QED
  BY <1>1, <1>2

-----------------------------------------------------------------------------
(* Leaves: a scalar fits anywhere, an alias where resolve_alias says so.   *)

LEMMA DefineBuilt ==
  ASSUME NEW L, IsLoader(L), Built(L), NEW anchor \in Anchors \cup {None},
         NEW v, IsSeq(v.pairs), NEW start
  PROVE  Built(DefineAnchor(L, anchor, v, start))
<1> DEFINE M == DefineAnchor(L, anchor, v, start)
<1>1. M.stack = L.stack /\ M.anchor_map = NewAnchors(L.anchor_map, anchor, v, start)
  <2>1. M.stack = L.stack
    BY DefineAnchorFacts
  <2>2. M.anchor_map = NewAnchors(L.anchor_map, anchor, v, start)
    BY DefineAnchorMap
  <2>. QED BY <2>1, <2>2
<1>. HIDE DEF M
<1>2. ASSUME NEW a \in DOMAIN M.anchor_map PROVE IsSeq(M.anchor_map[a].val.pairs)
  <2>1. CASE anchor = None
    BY <1>1, <2>1 DEF NewAnchors, Built
  <2>2. CASE anchor # None /\ a = anchor
    <3>1. M.anchor_map[a].val = v
      BY <1>1, <2>2 DEF NewAnchors
    <3>. QED BY <3>1
  <2>3. CASE anchor # None /\ a # anchor
    <3>1. a \in DOMAIN L.anchor_map /\ M.anchor_map[a] = L.anchor_map[a]
      BY <1>1, <2>3 DEF NewAnchors
    <3>. QED BY <3>1 DEF Built
  <2>. QED BY <2>1, <2>2, <2>3
<1>3. Built(M)
  BY <1>1, <1>2 DEF Built
<1>. QED
  BY <1>3 DEF M

LEMMA ScalarBuilt ==
  ASSUME NEW L, IsLoader(L), L.err = "none", L.spanned = TRUE, Built(L),
         NEW s, s.anchor \in Anchors \cup {None}, IsSeq(s.val.pairs), NEW pos \in Nat
  PROVE  Built(Scalar(L, s, pos))
<1> DEFINE J == DefineSpan(L, s.anchor, pos)
           K == DefineAnchor(J, s.anchor, s.val, pos)
<1>1. /\ IsLoader(J) /\ J.spanned = L.spanned /\ J.stack = L.stack
      /\ J.anchor_map = L.anchor_map /\ J.err = L.err
  BY DefineSpanFacts
<1>2. Built(J)
  BY <1>1, SameBuilt
<1>. HIDE DEF J
<1>3. /\ IsLoader(K) /\ K.spanned = J.spanned /\ K.err = J.err
  BY <1>1, DefineAnchorFacts, ZenonT(60)
<1>4. Built(K)
  BY <1>1, <1>2, DefineBuilt
<1>5. Scalar(L, s, pos) = Push(K, s.val, Span(TRUE, pos, pos), s.plain)
  BY DEF Scalar, J
<1>. HIDE DEF K
<1>. QED
  BY <1>1, <1>3, <1>4, <1>5, PushBuilt

LEMMA AliasBuilt ==
  ASSUME NEW L, IsLoader(L), L.err = "none", L.spanned = TRUE, L.in_document, Built(L),
         NEW anchor, NEW pos
  PROVE  Built(resolve_alias(L, anchor, pos))
<1> DEFINE known == L.anchor_map[anchor]
           K == [L EXCEPT !.alias_bytes = alias_bytes_total(@, alias_cost(known.val))]
<1>1. Has(L, LoaderFields)
  BY DEF IsLoader
<1>2. /\ Has(K, LoaderFields) /\ K.docs = L.docs /\ K.stack = L.stack /\ K.err = L.err
      /\ K.spanned = L.spanned /\ K.depth = L.depth
      /\ K.anchor_map = L.anchor_map /\ K.anchor_def_spans = L.anchor_def_spans
  BY <1>1 DEF Has, LoaderFields
<1>3. IsLoader(K)
  <2>. HIDE DEF K
  <2>. QED BY <1>2 DEF IsLoader
<1>4. Built(K)
  <2>. HIDE DEF K
  <2>. QED BY <1>2, SameBuilt
<1>5. \/ \E e, p : resolve_alias(L, anchor, pos) = Fail(L, e, p)
      \/ \E e, p : resolve_alias(L, anchor, pos) = Fail(K, e, p)
      \/ /\ anchor \in DOMAIN L.anchor_map
         /\ resolve_alias(L, anchor, pos) = Push(K, known.val, Span(FALSE, pos, known.start), FALSE)
  BY DEF resolve_alias, missing_anchor
<1>6. anchor \in DOMAIN L.anchor_map => IsSeq(known.val.pairs)
  BY DEF Built
<1>. HIDE DEF K, known
<1>. QED
  BY <1>2, <1>3, <1>4, <1>5, <1>6, FailBuilt, PushBuilt

LEMMA StartBuilt ==
  ASSUME NEW L, IsLoader(L), L.err = "none", Built(L), NEW c, c.anchor \in Anchors \cup {None},
         NEW frame, IsFrame(frame), frame.start \in Nat, ByRule(frame)
  PROVE  Built(CollectionStart(L, c, frame))
<1> DEFINE M == CollectionStart(L, c, frame)
           D == [L EXCEPT !.depth = @ + 1]
           K == DefineSpan(D, c.anchor, frame.start)
<1>1. Has(L, LoaderFields) /\ IsSeq(L.stack)
  BY DEF IsLoader
<1>2. /\ Has(D, LoaderFields) /\ D.docs = L.docs /\ D.stack = L.stack /\ D.depth = L.depth + 1
      /\ D.anchor_map = L.anchor_map /\ D.anchor_def_spans = L.anchor_def_spans
  BY <1>1 DEF Has, LoaderFields
<1>3. IsLoader(D) /\ Built(D)
  <2>. HIDE DEF D
  <2>. QED BY <1>2, SameBuilt DEF IsLoader
<1>4. M = Fail(D, "depth", 0) \/ M = [K EXCEPT !.stack = Append(@, frame)]
  BY DEF CollectionStart
<1>. HIDE DEF D
<1>5. IsLoader(K) /\ K.stack = L.stack /\ K.anchor_map = L.anchor_map
  BY <1>2, <1>3, DefineSpanFacts, ZenonT(60)
<1>. HIDE DEF K, M
<1>6. CASE M = Fail(D, "depth", 0)
  BY <1>3, <1>6, FailBuilt DEF M
<1>7. CASE M = [K EXCEPT !.stack = Append(@, frame)]
  <2>1. M.stack = Append(L.stack, frame) /\ M.anchor_map = L.anchor_map
    BY <1>5, <1>7 DEF IsLoader, Has, LoaderFields
  <2>2. /\ Len(M.stack) = Len(L.stack) + 1 /\ M.stack[Len(L.stack) + 1] = frame
        /\ \A i \in 1 .. Len(L.stack) : M.stack[i] = L.stack[i]
        /\ Len(L.stack) \in Nat
    BY <1>1, <2>1, AppendSeq, SeqFacts
  <2>3. \A i \in 1 .. Len(M.stack) : i \in 1 .. Len(L.stack) \/ i = Len(L.stack) + 1
    BY <2>2
  <2>4. Built(M)
    BY <2>1, <2>2, <2>3 DEF Built
  <2>. QED BY <2>4 DEF M
<1>. QED
  BY <1>4, <1>6, <1>7

LEMMA PopBuilt ==
  ASSUME NEW L, IsLoader(L), Built(L), L.stack # <<>>
  PROVE  Built(Pop(L))
<1>1. /\ Len(Pop(L).stack) = Len(L.stack) - 1 /\ Pop(L).anchor_map = L.anchor_map
      /\ \A i \in 1 .. Len(L.stack) - 1 : Pop(L).stack[i] = L.stack[i]
  BY PopFacts
<1>2. Len(L.stack) \in Nat /\ Len(L.stack) >= 1
  BY TopFrame
<1>3. \A i \in 1 .. Len(L.stack) - 1 : i \in 1 .. Len(L.stack)
  BY <1>2
<1>. QED
  BY <1>1, <1>3 DEF Built

LEMMA CompletedBuilt ==
  ASSUME NEW L, IsLoader(L), L.err = "none", L.spanned = TRUE, Built(L), L.stack # <<>>,
         NEW inner, IsSeq(inner.pairs), Has(inner, {"t", "parts", "key", "pairs", "nodes",
                                                    "height", "mergeable"})
  PROVE  Built(Completed(L, Last(L.stack), inner))
<1> DEFINE f == Last(L.stack)
           v == wrap_with_tag(inner, f.tag)
           J == Pop(L)
           K == DefineAnchor(J, f.anchor, v, f.start)
<1>1. f.anchor \in Anchors \cup {None}
  BY TopFrame DEF IsFrame
<1>2. IsLoader(J) /\ J.spanned = L.spanned /\ J.err = L.err
  BY PopFacts
<1>3. Built(J)
  BY PopBuilt
<1>4. IsSeq(v.pairs)
  <2>1. CASE f.tag
    <3>1. v = [inner EXCEPT !.t = "Tagged", !.parts = <<inner>>, !.pairs = <<>>,
                            !.nodes = @ + 1, !.mergeable = FALSE]
      BY <2>1 DEF wrap_with_tag
    <3>2. v.pairs = <<>>
      BY <3>1 DEF Has
    <3>. QED BY <3>2, NoneSeq
  <2>2. CASE ~f.tag
    BY <2>2 DEF wrap_with_tag
  <2>. QED BY <2>1, <2>2
<1>5. Completed(L, f, inner) = Push(K, v, Span(FALSE, f.start, f.start), FALSE)
  BY DEF Completed
<1>. HIDE DEF v, J, f
<1>6. IsLoader(K) /\ K.spanned = J.spanned /\ K.err = J.err
  BY <1>1, <1>2, DefineAnchorFacts
<1>7. Built(K)
  BY <1>1, <1>2, <1>3, <1>4, DefineBuilt
<1>. HIDE DEF K
<1>8. Built(Completed(L, f, inner))
  BY <1>2, <1>4, <1>5, <1>6, <1>7, PushBuilt
<1>. QED
  BY <1>8 DEF f

LEMMA SequenceEndBuilt ==
  ASSUME NEW L, IsLoader(L), L.err = "none", L.spanned = TRUE, Built(L), L.stack # <<>>,
         Last(L.stack).f = "seq", NEW pos
  PROVE  Built(SequenceEnd(L, pos))
<1> DEFINE f == Last(L.stack)
           inner == SequenceOf(f.items)
<1>1. Sources(f.items)
  BY TopByRule DEF ByRule
<1>2. inner.pairs = FlattenSeq(Offers(f.items))
  BY DEF SequenceOf, Offers
<1>3. Has(inner, {"t", "parts", "key", "pairs", "nodes", "height", "mergeable"})
  BY DEF SequenceOf, Has
<1>4. SequenceEnd(L, pos) = Completed(L, f, inner)
  BY DEF SequenceEnd, Innermost
<1>. HIDE DEF inner
<1>5. IsSeq(inner.pairs)
  BY <1>1, <1>2, FlattenIsSeq
<1>. QED
  BY <1>3, <1>4, <1>5, CompletedBuilt

\* A mapping's table, merged.
LEMMA MergedSeq ==
  ASSUME NEW f, f.f # "seq", ByRule(f)
  PROVE  LET q == FlattenSeq(Offers(f.merge_values))
         IN  IsSeq(f.map) /\ IsSeq(Merged(f)) /\ IsSeq(q) /\ Absorbed(f.map, Merged(f), q, Len(q))
<1>1. Table(f.map, f.spans, f.typed_keys, f.seen, config.duplicate) /\ Sources(f.merge_values)
  BY DEF ByRule, TableOf
<1>2. IsSeq(f.map) /\ \A i, j \in 1 .. Len(f.map) : f.map[i].key = f.map[j].key => i = j
  <2>1. IsSeq(f.map)
    BY <1>1 DEF Table, Columns
  <2>2. \A i, j \in 1 .. Len(f.map) : f.map[i].key = f.map[j].key => i = j
    BY <1>1, TableKeys
  <2>. QED BY <2>1, <2>2
<1> DEFINE q == FlattenSeq(Offers(f.merge_values))
<1>3. IsSeq(q) /\ Absorbed(f.map, Merged(f), q, Len(q))
  BY <1>1, <1>2, MergedAbsorbs
<1>. HIDE DEF q
<1>4. IsSeq(Merged(f))
  BY <1>3 DEF Absorbed
<1>. QED
  BY <1>2, <1>3, <1>4 DEF q

LEMMA MappingEndBuilt ==
  ASSUME NEW L, IsLoader(L), L.err = "none", L.spanned = TRUE, Built(L), L.stack # <<>>,
         Last(L.stack).f = "key", NEW pos
  PROVE  Built(MappingEnd(L, pos))
<1> DEFINE f == Last(L.stack)
           inner == MappingOf(Merged(f))
<1>1. inner.pairs = Merged(f) /\ Has(inner, {"t", "parts", "key", "pairs", "nodes", "height", "mergeable"})
  BY DEF MappingOf, Has
<1>2. \/ MappingEnd(L, pos) = Fail(Pop(L), "scalar_in_merge", 0)
      \/ MappingEnd(L, pos) = Completed(L, f, inner)
  BY DEF MappingEnd, Innermost
<1>3. IsLoader(Pop(L)) /\ Built(Pop(L))
  BY PopFacts, PopBuilt
<1>4. IsSeq(Merged(f))
  BY TopByRule, MergedSeq
<1>. HIDE DEF inner
<1>. QED
  BY <1>1, <1>2, <1>3, <1>4, FailBuilt, CompletedBuilt

LEMMA FreshFrames ==
  ASSUME NEW anchor, NEW tag, NEW start
  PROVE  ByRule(SeqFrame(anchor, tag, start)) /\ ByRule(MapFrame(anchor, tag, start))
<1>1. IsSeq(<<>>) /\ Len(<<>>) = 0
  BY NoneSeq
<1>2. Sources(<<>>)
  BY <1>1 DEF Sources
<1>3. ByRule(SeqFrame(anchor, tag, start))
  BY <1>2 DEF ByRule, SeqFrame
<1>4. Table(<<>>, <<>>, <<>>, <<>>, config.duplicate)
  BY <1>1 DEF Table, Columns, Rows, Covered, InOrder, OneShape
<1> DEFINE f == MapFrame(anchor, tag, start)
<1>5. /\ f.f = "key" /\ f.map = <<>> /\ f.spans = <<>> /\ f.typed_keys = <<>>
      /\ f.seen = <<>> /\ f.merge_values = <<>>
  BY DEF MapFrame
<1>. HIDE DEF f
<1>6. ByRule(f)
  BY <1>2, <1>4, <1>5 DEF ByRule, TableOf
<1>. QED
  BY <1>3, <1>6 DEF f

\* Every open frame follows the policy.
FramesByRule == Built(full)

LEMMA InitBuilt == Init => FramesByRule
<1>. SUFFICES ASSUME Init PROVE Built(full)
  BY DEF FramesByRule
<1>1. full = NewLoader(TRUE)
  BY DEF Init
<1>2. full.stack = <<>> /\ full.anchor_map = NoAnchors
  BY <1>1, NewFacts
<1>3. DOMAIN full.anchor_map = {} /\ Len(full.stack) = 0
  BY <1>2, NoneSeq DEF NoAnchors
<1>. QED
  BY <1>3 DEF Built

LEMMA NextBuilt == IInv /\ FramesByRule /\ [Next]_vars => FramesByRule'
<1>. SUFFICES ASSUME IInv, FramesByRule, [Next]_vars PROVE FramesByRule'
  OBVIOUS
<1>1. (\E s \in Setups : input = s.input) /\ n \in Nat /\ Good(full, bare, phase, open, doc, latest)
  BY DEF IInv
<1>2. Built(full)
  BY DEF FramesByRule
<1>3. CASE UNCHANGED vars
  BY <1>3 DEF vars, FramesByRule, Built, ByRule, TableOf
<1>4. CASE Next
  <2>1. full.err = "none" /\ n' = n + 1 /\ config' = config
    BY <1>4 DEF Next
  <2>2. SUFFICES Built(full')
    BY <2>1, <2>2 DEF FramesByRule, Built, ByRule, TableOf
  <2>3. n' \in Nat /\ IsLoader(full) /\ full.spanned = TRUE
    BY <1>1, <2>1 DEF Good, Together
  <2>4. CASE StreamEvent
    BY <1>2, <2>4 DEF StreamEvent
  <2>5. CASE DocumentStartEvent
    <3>1. full' = DocumentStart(full)
      BY <2>5 DEF DocumentStartEvent
    <3>2. full'.stack = full.stack /\ full'.anchor_map = NoAnchors
      BY <2>3, <3>1, DocumentStartFacts
    <3>3. DOMAIN full'.anchor_map = {}
      BY <3>2 DEF NoAnchors
    <3>. QED BY <1>2, <3>2, <3>3 DEF Built
  <2>6. CASE DocumentEndEvent
    <3>1. full' = DocumentEnd(full)
      BY <2>6 DEF DocumentEndEvent
    <3>2. full'.stack = full.stack /\ full'.anchor_map = full.anchor_map
      BY <2>3, <3>1, DocumentEndFacts
    <3>. QED BY <1>2, <3>2, SameBuilt
  <2>7. CASE AliasEvent
    <3>1. PICK a \in input.aliases : full' = resolve_alias(full, a, n')
      BY <2>7 DEF AliasEvent
    <3>2. phase \in InDocument
      BY <2>7 DEF AliasEvent, Leaf, InDocument
    <3>3. full.in_document
      BY <1>1, <2>1, <3>2, GoodFacts
    <3>. QED BY <1>2, <2>1, <2>3, <3>1, <3>3, AliasBuilt
  <2>8. CASE ScalarEvent
    <3>1. PICK s \in input.scalars : full' = Scalar(full, s, n')
      BY <2>8 DEF ScalarEvent
    <3>2. s.anchor \in Anchors \cup {None}
      BY <1>1, NodeAnchors
    <3>3. s.val = Atom(s.val.t, s.val.key)
      BY <1>1, SetupsAssumption
    <3>4. s.val.pairs = <<>>
      BY ONLY <3>3 DEF Atom
    <3>5. IsSeq(s.val.pairs)
      BY <3>4, NoneSeq
    <3>. QED BY <1>2, <2>1, <2>3, <3>1, <3>2, <3>5, ScalarBuilt
  <2>9. CASE SequenceStartEvent
    <3>1. PICK c \in input.sequences : Started(c, SeqFrame(c.anchor, c.tag, n'))
      BY <2>9 DEF SequenceStartEvent
    <3> DEFINE frame == SeqFrame(c.anchor, c.tag, n')
    <3>2. c.anchor \in Anchors \cup {None}
      BY <1>1, NodeAnchors
    <3>3. /\ Has(frame, SeqFields) /\ frame.f = "seq" /\ frame.start = n'
          /\ frame.anchor = c.anchor
      BY DEF SeqFrame, Has, SeqFields
    <3>4. ByRule(frame)
      BY FreshFrames
    <3>5. full' = CollectionStart(full, c, frame)
      BY <3>1 DEF Started
    <3>. HIDE DEF frame
    <3>6. IsFrame(frame) /\ frame.start \in Nat
      BY <2>3, <3>2, <3>3 DEF IsFrame
    <3>. QED BY <1>2, <2>1, <2>3, <3>2, <3>4, <3>5, <3>6, StartBuilt
  <2>10. CASE MappingStartEvent
    <3>1. PICK c \in input.mappings : Started(c, MapFrame(c.anchor, c.tag, n'))
      BY <2>10 DEF MappingStartEvent
    <3> DEFINE frame == MapFrame(c.anchor, c.tag, n')
    <3>2. c.anchor \in Anchors \cup {None}
      BY <1>1, NodeAnchors
    <3>3. /\ Has(frame, MapFields) /\ frame.f = "key" /\ frame.start = n'
          /\ frame.anchor = c.anchor
      BY DEF MapFrame, Has, MapFields
    <3>4. ByRule(frame)
      BY FreshFrames
    <3>5. full' = CollectionStart(full, c, frame)
      BY <3>1 DEF Started
    <3>. HIDE DEF frame
    <3>6. IsFrame(frame) /\ frame.start \in Nat
      BY <2>3, <3>2, <3>3 DEF IsFrame
    <3>. QED BY <1>2, <2>1, <2>3, <3>2, <3>4, <3>5, <3>6, StartBuilt
  <2>11. CASE SequenceEndEvent
    <3>1. phase = "inside" /\ open[Len(open)] = "seq" /\ full' = SequenceEnd(full, n')
      BY <2>11 DEF SequenceEndEvent, Finish
    <3>2. full.stack # <<>> /\ Last(full.stack).f = "seq"
      BY <1>1, <2>1, <3>1, GoodFacts
    <3>. QED BY <1>2, <2>1, <2>3, <3>1, <3>2, SequenceEndBuilt
  <2>12. CASE MappingEndEvent
    <3>1. phase = "inside" /\ open[Len(open)] = "key" /\ full' = MappingEnd(full, n')
      BY <2>12 DEF MappingEndEvent, Finish
    <3>2. full.stack # <<>> /\ Last(full.stack).f = "key"
      BY <1>1, <2>1, <3>1, GoodFacts
    <3>. QED BY <1>2, <2>1, <2>3, <3>1, <3>2, MappingEndBuilt
  <2>13. CASE Refused
    <3>1. full' = Fail(full, "refused", n')
      BY <2>13 DEF Refused
    <3>. QED BY <1>2, <2>3, <3>1, FailBuilt
  <2>. QED
    BY <1>4, <2>4, <2>5, <2>6, <2>7, <2>8, <2>9, <2>10, <2>11, <2>12, <2>13 DEF Next
<1>. QED
  BY <1>3, <1>4

\* The entry MapByPolicy calls kept is the one chosen.
LEMMA KeptChosen ==
  ASSUME NEW f, IsSeq(f.seen), NEW key, NEW i, Chosen(f.seen, key, config.duplicate, i)
  PROVE  Kept(f, key) = f.seen[i]
<1> DEFINE same == {k \in DOMAIN f.seen : f.seen[k].key = key}
<1>1. DOMAIN f.seen = 1 .. Len(f.seen) /\ Len(f.seen) \in Nat
  BY SeqFacts
<1>2. i \in same /\ same \in SUBSET Nat
  BY <1>1 DEF Chosen
<1>3. CASE config.duplicate = "Last"
  <2>1. \A k \in same : i >= k
    BY <1>1, <1>3 DEF Chosen
  <2>2. Max(same) = i
    <3>. HIDE DEF same
    <3>1. \A x \in same : (\A k \in same : x >= k) <=> x = i
      BY <1>2, <2>1
    <3>. QED BY <1>2, <3>1 DEF Max
  <2>. QED BY <1>3, <2>2 DEF Kept
<1>4. CASE config.duplicate # "Last"
  <2>1. \A k \in same : i <= k
    BY <1>1, <1>4 DEF Chosen
  <2>2. Min(same) = i
    <3>. HIDE DEF same
    <3>1. \A x \in same : (\A k \in same : x <= k) <=> x = i
      BY <1>2, <2>1
    <3>. QED BY <1>2, <3>1 DEF Min
  <2>. QED BY <1>4, <2>2 DEF Kept
<1>. QED
  BY <1>3, <1>4

LEMMA TablePolicy ==
  ASSUME NEW f, TableOf(f)
  PROVE  /\ Len(f.spans) = Len(f.map)
         /\ {f.map[j].key : j \in DOMAIN f.map} = {f.seen[j].key : j \in DOMAIN f.seen}
         /\ \A j \in DOMAIN f.map : LET kept == Kept(f, f.map[j].key) IN
              /\ f.map[j].val = kept.val /\ f.spans[j] = kept.span
              /\ at(f.typed_keys, j) = kept.shape
         /\ \A j, k \in DOMAIN f.map :
              j < k => FirstSeen(f, f.map[j].key) < FirstSeen(f, f.map[k].key)
         /\ \A j, k \in DOMAIN f.seen :
              f.seen[j].key = f.seen[k].key => f.seen[j].shape = f.seen[k].shape
<1>1. Table(f.map, f.spans, f.typed_keys, f.seen, config.duplicate)
  BY DEF TableOf
<1>2. /\ IsSeq(f.map) /\ IsSeq(f.seen) /\ Len(f.spans) = Len(f.map)
      /\ DOMAIN f.map = 1 .. Len(f.map) /\ DOMAIN f.seen = 1 .. Len(f.seen)
  BY <1>1, SeqFacts DEF Table, Columns
<1>3. {f.map[j].key : j \in DOMAIN f.map} = {f.seen[j].key : j \in DOMAIN f.seen}
  <2>1. \A i \in 1 .. Len(f.seen) : \E j \in 1 .. Len(f.map) : f.map[j].key = f.seen[i].key
    BY <1>1 DEF Table, Covered
  <2>2. \A j \in 1 .. Len(f.map) : \E i \in 1 .. Len(f.seen) : f.seen[i].key = f.map[j].key
    BY <1>1, TableKeys
  <2> DEFINE A == {f.map[j].key : j \in DOMAIN f.map}
             B == {f.seen[j].key : j \in DOMAIN f.seen}
  <2>3. ASSUME NEW x \in A PROVE x \in B
    <3>1. PICK j \in 1 .. Len(f.map) : x = f.map[j].key
      BY <1>2
    <3>2. PICK i \in 1 .. Len(f.seen) : f.seen[i].key = f.map[j].key
      BY <2>2
    <3>. QED BY <1>2, <3>1, <3>2, Zenon
  <2>4. ASSUME NEW x \in B PROVE x \in A
    <3>1. PICK i \in 1 .. Len(f.seen) : x = f.seen[i].key
      BY <1>2
    <3>2. PICK j \in 1 .. Len(f.map) : f.map[j].key = f.seen[i].key
      BY <2>1
    <3>. QED BY <1>2, <3>1, <3>2, Zenon
  <2>. QED BY <2>3, <2>4, Zenon
<1>4. ASSUME NEW j \in 1 .. Len(f.map)
      PROVE  LET kept == Kept(f, f.map[j].key) IN
             /\ f.map[j].val = kept.val /\ f.spans[j] = kept.span
             /\ at(f.typed_keys, j) = kept.shape
  <2>1. PICK i \in 1 .. Len(f.seen) :
          /\ Chosen(f.seen, f.map[j].key, config.duplicate, i)
          /\ f.map[j].val = f.seen[i].val /\ f.spans[j] = f.seen[i].span
          /\ at(f.typed_keys, j) = f.seen[i].shape
    BY <1>1 DEF Table, Rows, Row
  <2>2. Kept(f, f.map[j].key) = f.seen[i]
    <3> DEFINE key == f.map[j].key
    <3>1. Chosen(f.seen, key, config.duplicate, i)
      BY <2>1
    <3>. HIDE DEF key
    <3>2. Kept(f, key) = f.seen[i]
      BY <1>2, <3>1, KeptChosen
    <3>. QED BY <3>2 DEF key
  <2>. QED BY <2>1, <2>2
<1>5. \A key : FirstSeen(f, key) = get_index_of(f.seen, key)
  BY DEF FirstSeen, get_index_of
<1>6. \A j, k \in 1 .. Len(f.map) :
        j < k => FirstSeen(f, f.map[j].key) < FirstSeen(f, f.map[k].key)
  BY <1>1, <1>5 DEF Table, InOrder
<1>7. \A j, k \in 1 .. Len(f.seen) :
        f.seen[j].key = f.seen[k].key => f.seen[j].shape = f.seen[k].shape
  BY <1>1 DEF Table, OneShape
<1>. QED
  BY <1>2, <1>3, <1>4, <1>6, <1>7

LEMMA MergePolicy ==
  ASSUME NEW f, f.f # "seq", ByRule(f)
  PROVE  LET m == Merged(f)
             offered == FlattenSeq([j \in DOMAIN f.merge_values |-> f.merge_values[j].pairs])
         IN
         /\ SubSeq(m, 1, Len(f.map)) = f.map
         /\ \A j, k \in DOMAIN m : m[j].key = m[k].key => j = k
         /\ \A o \in DOMAIN offered : get_index_of(m, offered[o].key) # 0
         /\ \A j \in (Len(f.map) + 1) .. Len(m) :
              m[j] = offered[SelectInSeq(offered, LAMBDA p : p.key = m[j].key)]
<1> DEFINE m == Merged(f)
           q == FlattenSeq(Offers(f.merge_values))
           map == f.map
<1>1. IsSeq(map) /\ IsSeq(m) /\ IsSeq(q) /\ Absorbed(map, m, q, Len(q))
  BY MergedSeq
<1>2. q = FlattenSeq([j \in DOMAIN f.merge_values |-> f.merge_values[j].pairs])
  BY DEF Offers
<1>. HIDE DEF m, q, map
<1>3. /\ DOMAIN m = 1 .. Len(m) /\ DOMAIN q = 1 .. Len(q)
      /\ Len(m) \in Nat /\ Len(q) \in Nat /\ Len(map) \in Nat /\ Len(map) <= Len(m)
  BY <1>1, SeqFacts DEF Absorbed
<1>4. SubSeq(m, 1, Len(map)) = map
  <2>1. PICK S : m \in Seq(S)
    BY <1>1 DEF IsSeq
  <2>2. PICK T : map \in Seq(T)
    BY <1>1 DEF IsSeq
  <2>3. \A i \in 1 .. Len(map) : m[i] \in S
    BY <1>3, <2>1
  <2>4. /\ SubSeq(m, 1, Len(map)) \in Seq(S)
        /\ Len(SubSeq(m, 1, Len(map))) = Len(map)
        /\ \A i \in 1 .. Len(map) : SubSeq(m, 1, Len(map))[i] = m[i]
    BY <1>3, <2>1, <2>3, SubSeqProperties
  <2>5. \A i \in 1 .. Len(map) : SubSeq(m, 1, Len(map))[i] = map[i]
    BY <1>1, <2>4 DEF Absorbed
  <2>. QED BY <1>3, <2>2, <2>4, <2>5
<1>5. \A j, k \in 1 .. Len(m) : m[j].key = m[k].key => j = k
  BY <1>1 DEF Absorbed
<1>6. ASSUME NEW o \in 1 .. Len(q) PROVE get_index_of(m, q[o].key) # 0
  <2> DEFINE key == q[o].key
  <2>1. \E j \in 1 .. Len(m) : m[j].key = key
    BY <1>1 DEF Absorbed
  <2>. HIDE DEF key
  <2>2. get_index_of(m, key) # 0
    BY <1>1, <2>1, IndexFacts
  <2>. QED BY <2>2 DEF key
<1>7. ASSUME NEW j \in (Len(map) + 1) .. Len(m)
      PROVE  m[j] = q[SelectInSeq(q, LAMBDA p : p.key = m[j].key)]
  <2>1. PICK i \in 1 .. Len(q) :
          m[j] = q[i] /\ \A h \in 1 .. Len(q) : q[h].key = q[i].key => i <= h
    BY <1>1 DEF Absorbed
  <2>2. get_index_of(q, q[i].key) = i
    BY <1>1, <2>1, IndexIs
  <2>3. get_index_of(q, m[j].key) = i
    BY <2>1, <2>2
  <2>. QED BY <2>1, <2>3 DEF get_index_of
<1>. QED
  BY <1>2, <1>3, <1>4, <1>5, <1>6, <1>7 DEF m, q, map

-----------------------------------------------------------------------------
(* Sums.  f may be any function defined on 1 .. b.                         *)

Summed(f, b, g) == g = [k \in 0 .. b |-> IF k = 0 THEN 0 ELSE g[k - 1] + f[k]]
SumTo(f, b) == (CHOOSE g : Summed(f, b, g))[b]

LEMMA SumExists ==
  ASSUME NEW f, NEW b \in Nat
  PROVE  \E g : Summed(f, b, g)
<1> DEFINE S == {i \in 0 .. b : \E g : Summed(f, i, g)}
<1>1. 0 \in S
  <2> DEFINE g == [k \in 0 .. 0 |-> 0]
  <2>1. Summed(f, 0, g)
    BY DEF Summed
  <2>. QED BY <2>1
<1>2. ASSUME NEW i \in 1 .. b, i - 1 \in S PROVE i \in S
  <2>1. PICK g : Summed(f, i - 1, g)
    BY <1>2
  <2> DEFINE h == [k \in 0 .. i |-> IF k = i THEN g[i - 1] + f[i] ELSE g[k]]
  <2>2. ASSUME NEW k \in 0 .. i
        PROVE  h[k] = IF k = 0 THEN 0 ELSE h[k - 1] + f[k]
    <3>1. i - 1 \in 0 .. i /\ i - 1 # i
      BY <1>2
    <3>2. CASE k = i
      BY <3>1, <3>2
    <3>3. CASE k # i
      <4>1. k \in 0 .. i - 1 /\ (k # 0 => k - 1 \in 0 .. i /\ k - 1 # i)
        BY <3>3
      <4>2. g[k] = IF k = 0 THEN 0 ELSE g[k - 1] + f[k]
        BY <2>1, <4>1 DEF Summed
      <4>. QED BY <3>3, <4>1, <4>2
    <3>. QED BY <3>2, <3>3
  <2>3. h = [k \in 0 .. i |-> IF k = 0 THEN 0 ELSE h[k - 1] + f[k]]
    <3>1. h = [k \in 0 .. i |-> h[k]]
      OBVIOUS
    <3>. HIDE DEF h
    <3>. QED BY <2>2, <3>1
  <2>4. Summed(f, i, h)
    <3>. HIDE DEF h
    <3>. QED BY <2>3 DEF Summed
  <2>. QED BY <2>4
<1>3. \A i \in 0 .. b : i \in S
  <2>. HIDE DEF S
  <2>. QED BY <1>1, <1>2, Upto
<1>. QED
  BY <1>3

\* A sum is that of all terms but the last, and the last.
LEMMA SumFacts ==
  ASSUME NEW f
  PROVE  SumTo(f, 0) = 0 /\ \A b \in Nat : b # 0 => SumTo(f, b) = SumTo(f, b - 1) + f[b]
<1> DEFINE G(b) == CHOOSE g : Summed(f, b, g)
<1>1. ASSUME NEW b \in Nat PROVE Summed(f, b, G(b)) /\ SumTo(f, b) = G(b)[b]
  BY SumExists DEF SumTo
<1>. HIDE DEF G
<1>2. SumTo(f, 0) = 0
  BY <1>1 DEF Summed
<1>3. ASSUME NEW b \in Nat, b # 0 PROVE SumTo(f, b) = SumTo(f, b - 1) + f[b]
  <2> DEFINE g == G(b)
             h == G(b - 1)
             S == {k \in 0 .. b - 1 : g[k] = h[k]}
  <2>1. Summed(f, b, g) /\ Summed(f, b - 1, h) /\ SumTo(f, b) = g[b] /\ SumTo(f, b - 1) = h[b - 1]
    BY <1>1, <1>3
  <2>. HIDE DEF g, h
  <2>2. 0 \in S
    BY <1>3, <2>1 DEF Summed
  <2>3. ASSUME NEW k \in 1 .. b - 1, k - 1 \in S PROVE k \in S
    <3>1. k \in 0 .. b /\ k \in 0 .. b - 1 /\ k # 0
      BY <2>3
    <3>2. g[k] = g[k - 1] + f[k] /\ h[k] = h[k - 1] + f[k]
      BY <2>1, <3>1 DEF Summed
    <3>. QED BY <2>3, <3>1, <3>2
  <2>4. b - 1 \in S
    <3>1. b - 1 \in Nat /\ b - 1 \in 0 .. b - 1
      BY <1>3
    <3>. HIDE DEF S
    <3>. QED BY <2>2, <2>3, <3>1, Upto
  <2>5. g[b] = g[b - 1] + f[b]
    BY <1>3, <2>1 DEF Summed
  <2>. QED BY <2>1, <2>4, <2>5
<1>. QED
  BY <1>2, <1>3

LEMMA TotalIs == ASSUME NEW s PROVE Total(s) = SumTo(s, Len(s))
BY DEF Total, SumTo, Summed

LEMMA SumNat ==
  ASSUME NEW f, NEW b \in Nat, \A k \in 1 .. b : f[k] \in Nat
  PROVE  SumTo(f, b) \in Nat
<1> DEFINE S == {k \in 0 .. b : SumTo(f, k) \in Nat}
<1>1. 0 \in S
  BY SumFacts
<1>2. ASSUME NEW k \in 1 .. b, k - 1 \in S PROVE k \in S
  <2>1. k \in Nat /\ k # 0 /\ f[k] \in Nat /\ k \in 0 .. b
    BY <1>2
  <2>2. SumTo(f, k) = SumTo(f, k - 1) + f[k]
    BY <2>1, SumFacts
  <2>. QED BY <1>2, <2>1, <2>2
<1>3. b \in S
  <2>. HIDE DEF S
  <2>. QED BY <1>1, <1>2, Upto
<1>. QED
  BY <1>3

\* Equal terms.
LEMMA SumSame ==
  ASSUME NEW f, NEW g, NEW b \in Nat, \A k \in 1 .. b : g[k] = f[k]
  PROVE  SumTo(g, b) = SumTo(f, b)
<1> DEFINE S == {k \in 0 .. b : SumTo(g, k) = SumTo(f, k)}
<1>1. 0 \in S
  BY SumFacts
<1>2. ASSUME NEW k \in 1 .. b, k - 1 \in S PROVE k \in S
  <2>1. k \in Nat /\ k # 0 /\ k \in 0 .. b
    BY <1>2
  <2>2. SumTo(f, k) = SumTo(f, k - 1) + f[k] /\ SumTo(g, k) = SumTo(g, k - 1) + g[k]
    BY <2>1, SumFacts
  <2>. QED BY <1>2, <2>1, <2>2
<1>3. b \in S
  <2>. HIDE DEF S
  <2>. QED BY <1>1, <1>2, Upto
<1>. QED
  BY <1>3

\* One term changed.
LEMMA SumChanged ==
  ASSUME NEW f, NEW g, NEW b \in Nat, \A k \in 1 .. b : f[k] \in Nat /\ g[k] \in Nat,
         NEW i \in 1 .. b, \A k \in 1 .. b : k # i => g[k] = f[k]
  PROVE  SumTo(g, b) + f[i] = SumTo(f, b) + g[i]
<1> DEFINE S == {k \in 0 .. b : k >= i => SumTo(g, k) + f[i] = SumTo(f, k) + g[i]}
<1>1. 0 \in S
  OBVIOUS
<1>2. ASSUME NEW k \in 1 .. b, k - 1 \in S PROVE k \in S
  <2>1. k \in Nat /\ k # 0 /\ k \in 0 .. b /\ k - 1 \in Nat
    BY <1>2
  <2>2. SumTo(f, k) = SumTo(f, k - 1) + f[k] /\ SumTo(g, k) = SumTo(g, k - 1) + g[k]
    BY <2>1, SumFacts
  <2>3. \A j \in 1 .. k - 1 : f[j] \in Nat /\ g[j] \in Nat
    OBVIOUS
  <2>4. SumTo(f, k - 1) \in Nat /\ SumTo(g, k - 1) \in Nat
    BY <2>1, <2>3, SumNat
  <2>5. CASE k < i
    BY <2>1, <2>5
  <2>6. CASE k = i
    <3>1. \A j \in 1 .. k - 1 : g[j] = f[j]
      BY <2>6
    <3>2. SumTo(g, k - 1) = SumTo(f, k - 1)
      BY <2>1, <3>1, SumSame
    <3>. QED BY <2>1, <2>2, <2>4, <2>6, <3>2
  <2>7. CASE k > i
    <3>1. SumTo(g, k - 1) + f[i] = SumTo(f, k - 1) + g[i] /\ g[k] = f[k]
      BY <1>2, <2>7
    <3>. QED BY <2>1, <2>2, <2>4, <2>7, <3>1
  <2>. QED BY <2>5, <2>6, <2>7
<1>3. b \in S
  <2>. HIDE DEF S
  <2>. QED BY <1>1, <1>2, Upto
<1>. QED
  BY <1>3

\* The terms of f, and then those of g.
Joined(f, a, g, b, h) ==
  /\ \A k \in 1 .. a : f[k] \in Nat /\ h[k] = f[k]
  /\ \A k \in 1 .. b : g[k] \in Nat /\ h[a + k] = g[k]

LEMMA SumJoined ==
  ASSUME NEW f, NEW g, NEW h, NEW a \in Nat, NEW b \in Nat, Joined(f, a, g, b, h)
  PROVE  SumTo(h, a + b) = SumTo(f, a) + SumTo(g, b)
<1> DEFINE S == {k \in 0 .. b : SumTo(h, a + k) = SumTo(f, a) + SumTo(g, k)}
<1>0. /\ \A k \in 1 .. a : f[k] \in Nat /\ h[k] = f[k]
      /\ \A k \in 1 .. b : g[k] \in Nat /\ h[a + k] = g[k]
  BY DEF Joined
<1>1. 0 \in S
  BY <1>0, SumFacts, SumSame, SumNat
<1>2. ASSUME NEW k \in 1 .. b, k - 1 \in S PROVE k \in S
  <2>1. k \in Nat /\ k # 0 /\ k \in 0 .. b /\ k - 1 \in Nat
    BY <1>2
  <2>2. a + k \in Nat /\ a + k # 0 /\ a + k - 1 = a + (k - 1)
    BY <2>1
  <2>3. SumTo(h, a + k) = SumTo(h, a + k - 1) + h[a + k] /\ SumTo(g, k) = SumTo(g, k - 1) + g[k]
    BY <2>1, <2>2, SumFacts
  <2>4. \A j \in 1 .. k - 1 : g[j] \in Nat
    BY <1>0
  <2>5. SumTo(f, a) \in Nat /\ SumTo(g, k - 1) \in Nat /\ g[k] \in Nat
    BY <1>0, <2>1, <2>4, SumNat
  <2>. QED BY <1>0, <1>2, <2>1, <2>2, <2>3, <2>5
<1>3. b \in S
  <2>. HIDE DEF S
  <2>. QED BY <1>1, <1>2, Upto
<1>. QED
  BY <1>3

-----------------------------------------------------------------------------
(* The nodes and the heights of several values.                            *)

Sized(v) == v.nodes \in Nat \ {0} /\ v.height \in Nat
AllSized(vs) == IsSeq(vs) /\ \A i \in 1 .. Len(vs) : Sized(vs[i])
Nodes(vs) == [i \in DOMAIN vs |-> vs[i].nodes]

\* One element for each of s.
LEMMA Mapped ==
  ASSUME NEW s, IsSeq(s), NEW t, t = [i \in DOMAIN s |-> t[i]]
  PROVE  IsSeq(t) /\ Len(t) = Len(s)
<1>1. Len(s) \in Nat /\ DOMAIN s = 1 .. Len(s)
  BY SeqFacts
<1> DEFINE S == {t[i] : i \in 1 .. Len(s)}
<1>2. t \in [1 .. Len(s) -> S]
  BY <1>1
<1>3. t \in Seq(S) /\ Len(t) = Len(s)
  BY <1>1, <1>2
<1>. QED
  BY <1>3, Zenon DEF IsSeq

LEMMA NodesFacts ==
  ASSUME NEW vs, AllSized(vs)
  PROVE  /\ SumNodes(vs) = SumTo(Nodes(vs), Len(vs)) /\ SumNodes(vs) \in Nat
         /\ \A i \in 1 .. Len(vs) : Nodes(vs)[i] = vs[i].nodes /\ Nodes(vs)[i] \in Nat
         /\ Len(vs) \in Nat
<1>1. IsSeq(vs) /\ Len(vs) \in Nat /\ DOMAIN vs = 1 .. Len(vs)
  BY SeqFacts DEF AllSized
<1>2. Nodes(vs) = [i \in DOMAIN vs |-> Nodes(vs)[i]]
  BY DEF Nodes
<1>3. Len(Nodes(vs)) = Len(vs)
  BY <1>1, <1>2, Mapped
<1>4. SumNodes(vs) = SumTo(Nodes(vs), Len(vs))
  BY <1>3, TotalIs DEF SumNodes, Nodes
<1>5. \A i \in 1 .. Len(vs) : Nodes(vs)[i] = vs[i].nodes /\ Nodes(vs)[i] \in Nat
  BY <1>1 DEF Nodes, AllSized, Sized
<1>. QED
  BY <1>1, <1>4, <1>5, SumNat

\* One value more, ...
LEMMA NodesMore ==
  ASSUME NEW s, NEW t, AllSized(s), AllSized(t), Len(t) = Len(s) + 1,
         \A k \in 1 .. Len(s) : t[k] = s[k]
  PROVE  SumNodes(t) = SumNodes(s) + t[Len(s) + 1].nodes
<1> DEFINE b == Len(s)
<1>1. b \in Nat /\ b + 1 \in Nat /\ b + 1 # 0 /\ (b + 1) - 1 = b /\ b + 1 \in 1 .. b + 1
  BY NodesFacts
<1>2. SumNodes(t) = SumTo(Nodes(t), b) + Nodes(t)[b + 1]
  <2>1. SumNodes(t) = SumTo(Nodes(t), b + 1)
    BY NodesFacts
  <2>. HIDE DEF b
  <2>. QED BY <1>1, <2>1, SumFacts
<1>3. \A k \in 1 .. b : Nodes(t)[k] = Nodes(s)[k]
  <2>1. \A k \in 1 .. b : k \in 1 .. b + 1
    BY <1>1
  <2>2. /\ \A k \in 1 .. b : Nodes(s)[k] = s[k].nodes
        /\ \A k \in 1 .. b + 1 : Nodes(t)[k] = t[k].nodes
    BY NodesFacts
  <2>. QED BY <2>1, <2>2
<1>4. SumTo(Nodes(t), b) = SumTo(Nodes(s), b)
  <2>. HIDE DEF b
  <2>. QED BY <1>1, <1>3, SumSame
<1>5. SumNodes(s) = SumTo(Nodes(s), b)
  BY NodesFacts
<1>6. Nodes(t)[b + 1] = t[b + 1].nodes
  BY <1>1, NodesFacts
<1>. QED
  BY <1>2, <1>4, <1>5, <1>6

\* ... one changed, ...
LEMMA NodesChanged ==
  ASSUME NEW s, NEW t, AllSized(s), AllSized(t), Len(t) = Len(s),
         NEW i \in 1 .. Len(s), \A k \in 1 .. Len(s) : k # i => t[k] = s[k]
  PROVE  SumNodes(t) <= SumNodes(s) + t[i].nodes
<1> DEFINE b == Len(s)
<1>1. /\ b \in Nat /\ SumNodes(s) = SumTo(Nodes(s), b)
      /\ \A k \in 1 .. b : Nodes(s)[k] = s[k].nodes /\ Nodes(s)[k] \in Nat
      /\ SumNodes(s) \in Nat
  BY NodesFacts
<1>2. /\ SumNodes(t) = SumTo(Nodes(t), b)
      /\ \A k \in 1 .. b : Nodes(t)[k] = t[k].nodes /\ Nodes(t)[k] \in Nat
      /\ SumNodes(t) \in Nat
  BY NodesFacts
<1>. HIDE DEF b
<1>3. \A k \in 1 .. b : k # i => Nodes(t)[k] = Nodes(s)[k]
  BY <1>1, <1>2 DEF b
<1>4. i \in 1 .. b
  BY DEF b
<1>5. SumTo(Nodes(t), b) + Nodes(s)[i] = SumTo(Nodes(s), b) + Nodes(t)[i]
  <2>1. b \in Nat /\ \A k \in 1 .. b : Nodes(s)[k] \in Nat /\ Nodes(t)[k] \in Nat
    BY ONLY <1>1, <1>2
  <2>. QED BY ONLY <1>3, <1>4, <2>1, SumChanged
<1>6. Nodes(s)[i] \in Nat /\ Nodes(t)[i] \in Nat /\ Nodes(t)[i] = t[i].nodes
  BY <1>1, <1>2, <1>4
<1>. QED
  BY <1>1, <1>2, <1>5, <1>6

\* ... and those of s, then those of t.
LEMMA NodesJoined ==
  ASSUME NEW s, NEW t, NEW u, AllSized(s), AllSized(t), AllSized(u), Len(u) = Len(s) + Len(t),
         \A k \in 1 .. Len(s) : u[k] = s[k], \A k \in 1 .. Len(t) : u[Len(s) + k] = t[k]
  PROVE  SumNodes(u) = SumNodes(s) + SumNodes(t)
<1> DEFINE a == Len(s)
           b == Len(t)
<1>1. /\ a \in Nat /\ SumNodes(s) = SumTo(Nodes(s), a)
      /\ \A k \in 1 .. a : Nodes(s)[k] = s[k].nodes /\ Nodes(s)[k] \in Nat
  BY NodesFacts
<1>2. /\ b \in Nat /\ SumNodes(t) = SumTo(Nodes(t), b)
      /\ \A k \in 1 .. b : Nodes(t)[k] = t[k].nodes /\ Nodes(t)[k] \in Nat
  BY NodesFacts
<1>3. /\ SumNodes(u) = SumTo(Nodes(u), a + b)
      /\ \A k \in 1 .. a + b : Nodes(u)[k] = u[k].nodes
  BY NodesFacts
<1>4. /\ \A k \in 1 .. a : k \in 1 .. a + b /\ u[k] = s[k]
      /\ \A k \in 1 .. b : a + k \in 1 .. a + b /\ u[a + k] = t[k]
  BY <1>1, <1>2
<1>. HIDE DEF a, b
<1>5. /\ \A k \in 1 .. a : Nodes(u)[k] = Nodes(s)[k]
      /\ \A k \in 1 .. b : Nodes(u)[a + k] = Nodes(t)[k]
  <2>1. ASSUME NEW k \in 1 .. a PROVE Nodes(u)[k] = Nodes(s)[k]
    <3>1. k \in 1 .. a + b /\ u[k] = s[k]
      BY ONLY <1>4, <2>1
    <3>. QED BY ONLY <1>1, <1>3, <2>1, <3>1
  <2>2. ASSUME NEW k \in 1 .. b PROVE Nodes(u)[a + k] = Nodes(t)[k]
    <3>1. a + k \in 1 .. a + b /\ u[a + k] = t[k]
      BY ONLY <1>4, <2>2
    <3>. QED BY ONLY <1>2, <1>3, <2>2, <3>1
  <2>. QED BY ONLY <2>1, <2>2
<1>6. SumTo(Nodes(u), a + b) = SumTo(Nodes(s), a) + SumTo(Nodes(t), b)
  <2>1. Joined(Nodes(s), a, Nodes(t), b, Nodes(u))
    BY <1>1, <1>2, <1>5 DEF Joined
  <2>. QED BY <1>1, <1>2, <2>1, SumJoined
<1>. QED
  BY <1>1, <1>2, <1>3, <1>6

\* MaxHeight is the height of the tallest, 0 for no value.
LEMMA HeightFacts ==
  ASSUME NEW vs, AllSized(vs)
  PROVE  /\ MaxHeight(vs) \in Nat /\ \A i \in 1 .. Len(vs) : vs[i].height <= MaxHeight(vs)
         /\ \A h \in Nat : h # 0 /\ (\A i \in 1 .. Len(vs) : vs[i].height < h) => MaxHeight(vs) < h
<1>1. /\ Len(vs) \in Nat /\ DOMAIN vs = 1 .. Len(vs)
      /\ \A i \in 1 .. Len(vs) : vs[i].height \in Nat
  BY NodesFacts, SeqFacts DEF AllSized, Sized
<1> DEFINE H == {0} \cup {vs[i].height : i \in DOMAIN vs}
           S == {b \in 0 .. Len(vs) : \E m \in H : \A i \in 1 .. b : vs[i].height <= m}
<1>2. H \in SUBSET Nat /\ 0 \in H /\ \A i \in 1 .. Len(vs) : vs[i].height \in H
  BY <1>1
<1>. HIDE DEF H
<1>3. 0 \in S
  BY <1>1, <1>2
<1>4. ASSUME NEW b \in 1 .. Len(vs), b - 1 \in S PROVE b \in S
  <2>1. PICK m \in H : \A i \in 1 .. b - 1 : vs[i].height <= m
    BY <1>4
  <2>2. vs[b].height \in H /\ vs[b].height \in Nat /\ m \in Nat
    BY <1>1, <1>2
  <2>3. \A i \in 1 .. b : (i \in 1 .. b - 1 \/ i = b) /\ i \in 1 .. Len(vs)
    OBVIOUS
  <2>4. CASE vs[b].height <= m
    <3>1. \A i \in 1 .. b : vs[i].height <= m
      BY <2>1, <2>3, <2>4
    <3>. QED BY <3>1
  <2>5. CASE vs[b].height > m
    <3>1. \A i \in 1 .. b : vs[i].height <= vs[b].height
      BY <1>1, <2>1, <2>2, <2>3, <2>5
    <3>. QED BY <2>2, <3>1
  <2>. QED BY <2>2, <2>4, <2>5
<1>5. PICK m \in H : \A i \in 1 .. Len(vs) : vs[i].height <= m
  <2>1. Len(vs) \in S
    <3> DEFINE b == Len(vs)
    <3>1. b \in Nat /\ b \in 0 .. b /\ 0 \in S /\ \A k \in 1 .. b : k - 1 \in S => k \in S
      BY <1>1, <1>3, <1>4
    <3>. HIDE DEF S, b
    <3>2. b \in S
      BY <3>1, Upto
    <3>. QED BY <3>2 DEF b
  <2>. QED BY <2>1
<1>6. \A x \in H : x <= m
  BY <1>1, <1>2, <1>5 DEF H
<1>7. Max(H) = m
  <2>1. \A x \in H : (\A y \in H : x >= y) <=> x = m
    BY <1>2, <1>6
  <2>. QED BY <1>2, <2>1 DEF Max
<1>8. m = 0 \/ \E i \in 1 .. Len(vs) : m = vs[i].height
  BY <1>1 DEF H
<1>9. MaxHeight(vs) = m
  BY <1>7 DEF MaxHeight, H
<1>. QED
  BY <1>2, <1>5, <1>8, <1>9

-----------------------------------------------------------------------------
(* The weight of the entries a value offers for merging: a key is a node.  *)

Entries(m, h) ==
  IsSeq(m) /\ \A i \in 1 .. Len(m) : Sized(m[i].val) /\ m[i].val.height < h
Weight(m) == Len(m) + SumNodes(Vals(m))

\* A value its walk measures: it is taller than its entries, and no lighter.
Valued(v) == Sized(v) /\ Entries(v.pairs, v.height) /\ Weight(v.pairs) <= v.nodes
Values(vs, h) == IsSeq(vs) /\ \A i \in 1 .. Len(vs) : Valued(vs[i]) /\ vs[i].height < h

LEMMA EntriesFacts ==
  ASSUME NEW m, NEW h, Entries(m, h)
  PROVE  /\ AllSized(Vals(m)) /\ Len(Vals(m)) = Len(m)
         /\ \A i \in 1 .. Len(m) : Vals(m)[i] = m[i].val
         /\ Len(m) \in Nat /\ SumNodes(Vals(m)) \in Nat
         /\ Weight(m) = Len(m) + SumNodes(Vals(m)) /\ Weight(m) \in Nat
<1>1. IsSeq(m) /\ Len(m) \in Nat /\ DOMAIN m = 1 .. Len(m)
  BY SeqFacts DEF Entries
<1>2. Vals(m) = [i \in DOMAIN m |-> Vals(m)[i]] /\ \A i \in 1 .. Len(m) : Vals(m)[i] = m[i].val
  BY <1>1 DEF Vals
<1>3. IsSeq(Vals(m)) /\ Len(Vals(m)) = Len(m)
  BY <1>1, <1>2, Mapped
<1>4. AllSized(Vals(m))
  BY <1>2, <1>3 DEF AllSized, Entries
<1>5. SumNodes(Vals(m)) \in Nat
  BY <1>4, NodesFacts
<1>. QED
  BY <1>1, <1>2, <1>3, <1>4, <1>5 DEF Weight

LEMMA ValuesSized == ASSUME NEW vs, NEW h, Values(vs, h) PROVE AllSized(vs)
BY DEF Values, AllSized, Valued

LEMMA EntriesBelow ==
  ASSUME NEW m, NEW h \in Int, NEW k \in Int, Entries(m, h), h <= k
  PROVE  Entries(m, k)
BY DEF Entries, Sized

LEMMA NoEntries == ASSUME NEW h PROVE Entries(<<>>, h) /\ Weight(<<>>) = 0
<1>1. Entries(<<>>, h)
  BY NoneSeq DEF Entries
<1>2. Len(Vals(<<>>)) = 0 /\ AllSized(Vals(<<>>))
  BY <1>1, EntriesFacts, NoneSeq
<1>3. SumNodes(Vals(<<>>)) = 0
  BY <1>2, NodesFacts, SumFacts
<1>. QED
  BY <1>1, <1>3, NoneSeq DEF Weight

LEMMA EntriesAppend ==
  ASSUME NEW m, NEW h, Entries(m, h), NEW p, Sized(p.val), p.val.height < h
  PROVE  Entries(Append(m, p), h) /\ Weight(Append(m, p)) = Weight(m) + 1 + p.val.nodes
<1> DEFINE t == Append(m, p)
           b == Len(m)
<1>1. IsSeq(m) /\ b \in Nat
  BY EntriesFacts DEF Entries
<1>2. IsSeq(t) /\ Len(t) = b + 1 /\ t[b + 1] = p /\ \A i \in 1 .. b : t[i] = m[i]
  BY <1>1, AppendSeq
<1>. HIDE DEF t
<1>3. \A i \in 1 .. b + 1 : i \in 1 .. b \/ i = b + 1
  BY <1>1
<1>4. Entries(t, h)
  BY <1>2, <1>3 DEF Entries
<1>5. /\ AllSized(Vals(t)) /\ Len(Vals(t)) = b + 1 /\ Weight(t) = b + 1 + SumNodes(Vals(t))
      /\ \A i \in 1 .. b + 1 : Vals(t)[i] = t[i].val
  BY <1>2, <1>4, EntriesFacts
<1>6. /\ AllSized(Vals(m)) /\ Len(Vals(m)) = b /\ Weight(m) = b + SumNodes(Vals(m))
      /\ \A i \in 1 .. b : Vals(m)[i] = m[i].val
      /\ SumNodes(Vals(m)) \in Nat
  BY EntriesFacts
<1>7. /\ Vals(t)[b + 1] = p.val
      /\ \A i \in 1 .. b : Vals(t)[i] = Vals(m)[i]
  <2>1. b + 1 \in 1 .. b + 1 /\ \A i \in 1 .. b : i \in 1 .. b + 1
    BY <1>1
  <2>. HIDE DEF b
  <2>. QED BY <1>2, <1>5, <1>6, <2>1
<1>8. SumNodes(Vals(t)) = SumNodes(Vals(m)) + Vals(t)[b + 1].nodes
  <2> DEFINE u == Vals(t)
             w == Vals(m)
  <2>1. /\ AllSized(w) /\ AllSized(u) /\ Len(w) = b /\ Len(u) = b + 1
        /\ \A i \in 1 .. b : u[i] = w[i]
    BY <1>5, <1>6, <1>7
  <2>. HIDE DEF u, w, b
  <2>2. Len(u) = Len(w) + 1 /\ \A i \in 1 .. Len(w) : u[i] = w[i]
    BY <2>1
  <2>3. SumNodes(u) = SumNodes(w) + u[Len(w) + 1].nodes
    BY <2>1, <2>2, NodesMore
  <2>. QED BY <2>1, <2>3 DEF u, w
<1>9. p.val.nodes \in Nat
  BY DEF Sized
<1>. QED
  BY <1>1, <1>4, <1>5, <1>6, <1>7, <1>8, <1>9 DEF t

LEMMA EntriesConcat ==
  ASSUME NEW m, NEW q, NEW h, Entries(m, h), Entries(q, h)
  PROVE  Entries(m \o q, h) /\ Weight(m \o q) = Weight(m) + Weight(q)
<1> DEFINE t == m \o q
           a == Len(m)
           b == Len(q)
<1>1. IsSeq(m) /\ IsSeq(q) /\ a \in Nat /\ b \in Nat
  BY EntriesFacts DEF Entries
<1>2. /\ IsSeq(t) /\ Len(t) = a + b
      /\ \A i \in 1 .. a : t[i] = m[i]
      /\ \A i \in 1 .. b : t[a + i] = q[i]
  BY <1>1, ConcatSeq
<1>3. \A i \in 1 .. a + b : i \in 1 .. a \/ \E j \in 1 .. b : i = a + j
  <2>. TAKE i \in 1 .. a + b
  <2>1. i > a => i - a \in 1 .. b /\ i = a + (i - a)
    BY <1>1
  <2>. QED BY <1>1, <2>1
<1>. HIDE DEF t, a, b
<1>4. Entries(t, h)
  <2>1. ASSUME NEW i \in 1 .. Len(t) PROVE Sized(t[i].val) /\ t[i].val.height < h
    <3>0. /\ \A j \in 1 .. a : Sized(m[j].val) /\ m[j].val.height < h
          /\ \A j \in 1 .. b : Sized(q[j].val) /\ q[j].val.height < h
      BY DEF Entries, a, b
    <3>1. CASE i \in 1 .. a
      BY <1>2, <3>0, <3>1
    <3>2. ASSUME NEW j \in 1 .. b, i = a + j PROVE Sized(t[i].val) /\ t[i].val.height < h
      BY <1>2, <3>0, <3>2
    <3>. QED BY <1>2, <1>3, <3>1, <3>2
  <2>. QED BY <1>2, <2>1 DEF Entries
<1>5. /\ AllSized(Vals(t)) /\ Len(Vals(t)) = a + b /\ Weight(t) = a + b + SumNodes(Vals(t))
      /\ \A i \in 1 .. a + b : Vals(t)[i] = t[i].val
  BY <1>2, <1>4, EntriesFacts
<1>6. /\ AllSized(Vals(m)) /\ Len(Vals(m)) = a /\ Weight(m) = a + SumNodes(Vals(m))
      /\ \A i \in 1 .. a : Vals(m)[i] = m[i].val
      /\ SumNodes(Vals(m)) \in Nat
  BY EntriesFacts DEF a
<1>7. /\ AllSized(Vals(q)) /\ Len(Vals(q)) = b /\ Weight(q) = b + SumNodes(Vals(q))
      /\ \A i \in 1 .. b : Vals(q)[i] = q[i].val
      /\ SumNodes(Vals(q)) \in Nat
  BY EntriesFacts DEF b
<1>8. \A i \in 1 .. a : Vals(t)[i] = Vals(m)[i]
  BY <1>1, <1>2, <1>5, <1>6
<1>9. \A i \in 1 .. b : Vals(t)[a + i] = Vals(q)[i]
  BY <1>1, <1>2, <1>5, <1>7
<1>10. SumNodes(Vals(t)) = SumNodes(Vals(m)) + SumNodes(Vals(q))
  <2> DEFINE u == Vals(t)
             w == Vals(m)
             x == Vals(q)
  <2>1. /\ AllSized(w) /\ AllSized(x) /\ AllSized(u) /\ Len(u) = Len(w) + Len(x)
        /\ \A i \in 1 .. Len(w) : u[i] = w[i]
        /\ \A i \in 1 .. Len(x) : u[Len(w) + i] = x[i]
    BY <1>5, <1>6, <1>7, <1>8, <1>9
  <2>. HIDE DEF u, w, x
  <2>2. SumNodes(u) = SumNodes(w) + SumNodes(x)
    BY <2>1, NodesJoined
  <2>. QED BY <2>2 DEF u, w, x
<1>. QED
  BY <1>1, <1>4, <1>5, <1>6, <1>7, <1>10 DEF t

LEMMA OfferWeight ==
  ASSUME NEW m, NEW h, Entries(m, h), NEW p, Sized(p.val), p.val.height < h
  PROVE  Entries(Offer(m, p), h) /\ Weight(Offer(m, p)) <= Weight(m) + 1 + p.val.nodes
<1>1. Weight(m) \in Nat /\ p.val.nodes \in Nat
  BY EntriesFacts DEF Sized
<1>2. Offer(m, p) = m \/ Offer(m, p) = Append(m, p)
  BY DEF Offer
<1>3. CASE Offer(m, p) = m
  BY <1>1, <1>3
<1>4. CASE Offer(m, p) = Append(m, p)
  BY <1>1, <1>4, EntriesAppend
<1>. QED
  BY <1>2, <1>3, <1>4

\* Merging from a value adds at most what the value weighs, and nothing taller.
LEMMA ApplyWeight ==
  ASSUME NEW m, NEW h \in Nat, Entries(m, h), NEW v, Valued(v), v.height <= h
  PROVE  Entries(apply_merge(m, v), h) /\ Weight(apply_merge(m, v)) <= Weight(m) + v.nodes
<1> DEFINE p == v.pairs
           b == Len(p)
           N == Nodes(Vals(p))
<1>1. Entries(p, v.height) /\ Weight(p) <= v.nodes /\ v.nodes \in Nat /\ v.height \in Nat
  BY DEF Valued, Sized
<1>2. IsSeq(p) /\ \A i \in 1 .. b : Sized(p[i].val) /\ p[i].val.height < h
  BY <1>1 DEF Entries, Sized
<1>3. /\ b \in Nat /\ Weight(p) = b + SumTo(N, b)
      /\ \A i \in 1 .. b : N[i] = p[i].val.nodes /\ N[i] \in Nat
  <2> DEFINE u == Vals(p)
  <2>1. /\ AllSized(u) /\ Len(u) = b /\ b \in Nat /\ Weight(p) = b + SumNodes(u)
        /\ \A i \in 1 .. b : u[i] = p[i].val
    BY <1>1, EntriesFacts
  <2>. HIDE DEF u, b
  <2>2. SumNodes(u) = SumTo(Nodes(u), b) /\ \A i \in 1 .. b : Nodes(u)[i] = u[i].nodes /\ Nodes(u)[i] \in Nat
    BY <2>1, NodesFacts
  <2>. QED BY <2>1, <2>2 DEF u
<1>4. PICK g : Folded(m, p, b, g) /\ apply_merge(m, v) = g[b]
  BY <1>2, ApplyFacts
<1>5. Weight(m) \in Nat
  BY EntriesFacts
<1>. HIDE DEF N, b, p
<1> DEFINE S == {k \in 0 .. b : Entries(g[k], h) /\ Weight(g[k]) <= Weight(m) + k + SumTo(N, k)}
<1>6. 0 \in S
  <2>1. g[0] = m
    BY <1>3, <1>4 DEF Folded
  <2>. QED BY <1>3, <1>5, <2>1, SumFacts
<1>7. ASSUME NEW k \in 1 .. b, k - 1 \in S PROVE k \in S
  <2>1. k \in Nat /\ k # 0 /\ k \in 0 .. b /\ k - 1 \in Nat
    BY <1>3
  <2>2. g[k] = Offer(g[k - 1], p[k])
    BY <1>4, <2>1 DEF Folded
  <2>3. SumTo(N, k) = SumTo(N, k - 1) + N[k] /\ N[k] = p[k].val.nodes /\ N[k] \in Nat
    BY <1>3, <2>1, SumFacts
  <2>4. SumTo(N, k - 1) \in Nat
    <3>1. \A i \in 1 .. k - 1 : N[i] \in Nat
      BY <1>3
    <3>. QED BY <2>1, <3>1, SumNat
  <2>5. Entries(g[k - 1], h) /\ Weight(g[k - 1]) <= Weight(m) + (k - 1) + SumTo(N, k - 1)
    BY <1>7
  <2>6. Sized(p[k].val) /\ p[k].val.height < h
    BY <1>2 DEF b
  <2>7. /\ Entries(g[k], h) /\ Weight(g[k]) \in Nat /\ Weight(g[k - 1]) \in Nat
        /\ Weight(g[k]) <= Weight(g[k - 1]) + 1 + p[k].val.nodes
    <3> DEFINE w == g[k - 1]
               e == p[k]
    <3>1. Entries(w, h) /\ Sized(e.val) /\ e.val.height < h
      BY <2>5, <2>6
    <3>. HIDE DEF w, e
    <3>2. Entries(Offer(w, e), h) /\ Weight(Offer(w, e)) <= Weight(w) + 1 + e.val.nodes
      BY <3>1, OfferWeight
    <3>3. Weight(w) \in Nat /\ Weight(Offer(w, e)) \in Nat
      BY <3>1, <3>2, EntriesFacts
    <3>. QED BY <2>2, <3>2, <3>3 DEF w, e
  <2>. QED BY <1>5, <2>1, <2>3, <2>4, <2>5, <2>7
<1>8. b \in S
  <2>. HIDE DEF S
  <2>. QED BY <1>3, <1>6, <1>7, Upto
<1>9. Entries(g[b], h) /\ Weight(g[b]) <= Weight(m) + b + SumTo(N, b)
  BY <1>8
<1>10. SumTo(N, b) \in Nat /\ Weight(g[b]) \in Nat
  BY <1>3, <1>9, SumNat, EntriesFacts
<1>. QED
  BY <1>1, <1>3, <1>4, <1>5, <1>9, <1>10

\* A mapping with its merge values applied.
LEMMA MergedWeight ==
  ASSUME NEW f, NEW h \in Nat, Entries(f.map, h), Values(f.merge_values, h)
  PROVE  /\ Entries(Merged(f), h)
         /\ Weight(Merged(f)) <= Weight(f.map) + SumNodes(f.merge_values)
<1> DEFINE vs == f.merge_values
           m == f.map
           b == Len(vs)
           N == Nodes(vs)
<1>1. /\ b \in Nat /\ SumNodes(vs) = SumTo(N, b)
      /\ \A i \in 1 .. b : N[i] = vs[i].nodes /\ N[i] \in Nat
      /\ IsSeq(vs) /\ \A i \in 1 .. b : Valued(vs[i]) /\ vs[i].height < h /\ vs[i].height \in Nat
  <2>1. /\ AllSized(vs) /\ IsSeq(vs)
        /\ \A i \in 1 .. b : Valued(vs[i]) /\ vs[i].height < h /\ vs[i].height \in Nat
    <3>1. AllSized(vs)
      BY ValuesSized
    <3>. QED BY <3>1 DEF Values, Valued, Sized
  <2>. HIDE DEF vs
  <2>. QED BY <2>1, NodesFacts
<1>2. PICK g : Applied(m, vs, b, g) /\ Merged(f) = g[b]
  BY <1>1, MergedFacts
<1>3. Entries(m, h) /\ Weight(m) \in Nat
  <2> HIDE DEF m
  <2>1. Entries(m, h)
    BY DEF m
  <2>. QED BY <2>1, EntriesFacts
<1>. HIDE DEF N, b, vs, m
<1> DEFINE S == {k \in 0 .. b : Entries(g[k], h) /\ Weight(g[k]) <= Weight(m) + SumTo(N, k)}
<1>4. 0 \in S
  <2>1. g[0] = m
    BY <1>1, <1>2 DEF Applied
  <2>. QED BY <1>1, <1>3, <2>1, SumFacts
<1>5. ASSUME NEW k \in 1 .. b, k - 1 \in S PROVE k \in S
  <2>1. k \in Nat /\ k # 0 /\ k \in 0 .. b /\ k - 1 \in Nat
    BY <1>1
  <2>2. g[k] = apply_merge(g[k - 1], vs[k])
    BY <1>2, <2>1 DEF Applied
  <2>3. SumTo(N, k) = SumTo(N, k - 1) + N[k] /\ N[k] = vs[k].nodes /\ N[k] \in Nat
    BY <1>1, <2>1, SumFacts
  <2>4. SumTo(N, k - 1) \in Nat
    <3>1. \A i \in 1 .. k - 1 : N[i] \in Nat
      BY <1>1
    <3>. QED BY <2>1, <3>1, SumNat
  <2>5. Entries(g[k - 1], h) /\ Weight(g[k - 1]) <= Weight(m) + SumTo(N, k - 1)
    BY <1>5
  <2>6. /\ Entries(g[k], h) /\ Weight(g[k]) \in Nat /\ Weight(g[k - 1]) \in Nat
        /\ Weight(g[k]) <= Weight(g[k - 1]) + vs[k].nodes
    <3> DEFINE w == g[k - 1]
               v == vs[k]
    <3>1. Entries(w, h) /\ Valued(v) /\ v.height <= h
      BY <1>1, <2>5
    <3>. HIDE DEF w, v
    <3>2. Entries(apply_merge(w, v), h) /\ Weight(apply_merge(w, v)) <= Weight(w) + v.nodes
      BY <3>1, ApplyWeight
    <3>3. Weight(w) \in Nat /\ Weight(apply_merge(w, v)) \in Nat
      BY <3>1, <3>2, EntriesFacts
    <3>. QED BY <2>2, <3>2, <3>3 DEF w, v
  <2>. QED BY <1>3, <2>1, <2>3, <2>4, <2>5, <2>6
<1>6. b \in S
  <2>1. b \in Nat /\ b \in 0 .. b
    BY <1>1
  <2>. HIDE DEF S
  <2>2. \A k \in 0 .. b : k \in S
    BY ONLY <1>4, <1>5, <2>1, Upto
  <2>. QED BY <2>1, <2>2
<1>. QED
  BY <1>1, <1>2, <1>6 DEF vs, m

\* What several values offer together.
LEMMA FlattenWeight ==
  ASSUME NEW vs, NEW h \in Nat, Values(vs, h)
  PROVE  /\ Entries(FlattenSeq(Offers(vs)), h)
         /\ Weight(FlattenSeq(Offers(vs))) <= SumNodes(vs)
<1> DEFINE b == Len(vs)
           N == Nodes(vs)
<1>1. /\ AllSized(vs) /\ IsSeq(vs)
      /\ \A i \in 1 .. b : Valued(vs[i]) /\ vs[i].height < h /\ vs[i].height \in Nat
  <2>1. AllSized(vs)
    BY ValuesSized
  <2>. QED BY <2>1 DEF Values, Valued, Sized
<1>2. /\ b \in Nat /\ SumNodes(vs) = SumTo(N, b) /\ SumNodes(vs) \in Nat
      /\ \A i \in 1 .. b : N[i] = vs[i].nodes /\ N[i] \in Nat
  BY <1>1, NodesFacts
<1>3. \A i \in 1 .. b : Entries(vs[i].pairs, h) /\ Weight(vs[i].pairs) <= N[i]
                        /\ Weight(vs[i].pairs) \in Nat
  <2>. TAKE i \in 1 .. b
  <2> DEFINE p == vs[i].pairs
             k == vs[i].height
  <2>1. Entries(p, k) /\ k \in Nat /\ k <= h /\ Weight(p) <= N[i]
    BY <1>1, <1>2 DEF Valued
  <2>. HIDE DEF p, k
  <2>2. Entries(p, h)
    BY <2>1, EntriesBelow
  <2>3. Weight(p) \in Nat
    BY <2>2, EntriesFacts
  <2>. QED BY <2>1, <2>2, <2>3 DEF p
<1>4. Sources(vs)
  BY <1>1, <1>3 DEF Sources, Entries
<1>5. /\ Len(Offers(vs)) = b /\ \A i \in 1 .. b : Offers(vs)[i] = vs[i].pairs
  BY <1>4, OffersFacts
<1>6. CASE b = 0
  <2>1. FlattenSeq(Offers(vs)) = <<>>
    BY <1>5, <1>6 DEF FlattenSeq
  <2>. QED BY <1>2, <2>1, NoEntries
<1>7. CASE b # 0
  <2>1. PICK g : Flattened(Offers(vs), b, g) /\ FlattenSeq(Offers(vs)) = g[b]
    BY <1>2, <1>5, <1>7, FlattenFacts
  <2>. HIDE DEF b, N
  <2> DEFINE S == {k \in 0 .. b : k # 0 => Entries(g[k], h) /\ Weight(g[k]) <= SumTo(N, k)}
  <2>2. 0 \in S
    BY <1>2
  <2>3. ASSUME NEW k \in 1 .. b, k - 1 \in S PROVE k \in S
    <3>1. k \in Nat /\ k # 0 /\ k \in 0 .. b /\ k - 1 \in Nat
      BY <1>2
    <3>2. g[k] = IF k = 1 THEN vs[k].pairs ELSE g[k - 1] \o vs[k].pairs
      BY <1>5, <2>1 DEF Flattened
    <3>3. SumTo(N, k) = SumTo(N, k - 1) + N[k] /\ N[k] \in Nat
      BY <1>2, <3>1, SumFacts
    <3>4. SumTo(N, k - 1) \in Nat
      <4>1. \A i \in 1 .. k - 1 : N[i] \in Nat
        BY <1>2
      <4>. QED BY <3>1, <4>1, SumNat
    <3>5. Entries(vs[k].pairs, h) /\ Weight(vs[k].pairs) <= N[k] /\ Weight(vs[k].pairs) \in Nat
      BY <1>3
    <3>6. CASE k = 1
      <4>1. g[k] = vs[k].pairs
        BY <3>2, <3>6
      <4>. QED BY <3>1, <3>3, <3>4, <3>5, <4>1
    <3>7. CASE k # 1
      <4> DEFINE w == g[k - 1]
                 p == vs[k].pairs
      <4>1. Entries(w, h) /\ Weight(w) <= SumTo(N, k - 1)
        BY <2>3, <3>1, <3>7
      <4>2. Entries(p, h) /\ Weight(p) <= N[k] /\ Weight(p) \in Nat /\ g[k] = w \o p
        BY <3>2, <3>5, <3>7
      <4>. HIDE DEF w, p
      <4>3. Entries(w \o p, h) /\ Weight(w \o p) = Weight(w) + Weight(p) /\ Weight(w) \in Nat
        BY <4>1, <4>2, EntriesConcat, EntriesFacts
      <4>4. Entries(g[k], h) /\ Weight(g[k]) <= SumTo(N, k)
        BY <3>3, <3>4, <4>1, <4>2, <4>3
      <4>. QED BY <3>1, <4>4
    <3>. QED BY <3>6, <3>7
  <2>4. b \in S
    <3>. HIDE DEF S
    <3>. QED BY <1>2, <2>2, <2>3, Upto
  <2>. QED BY <1>2, <1>7, <2>1, <2>4
<1>. QED
  BY <1>6, <1>7

-----------------------------------------------------------------------------
(* The values a frame holds fit below it.                                  *)

Deepest == effective_max_depth(MaxDepth)
\* Heights below this fit in the i-th frame.
Room(i) == Deepest - i + 1

FrameFits(f, i) ==
  /\ i <= Deepest
  /\ f.f = "seq" => Values(f.items, Room(i))
  /\ f.f # "seq" =>
       /\ Entries(f.map, Room(i)) /\ Values(f.merge_values, Room(i))
       /\ \A k \in 1 .. Len(f.map) : Has(f.map[k], {"key", "val"})

OwnNodes(f) == IF f.tag THEN 2 ELSE 1

LEMMA RoomFacts ==
  /\ Deepest \in Nat
  /\ \A i \in Nat : i <= Deepest => Room(i) \in Nat /\ Room(i) # 0
                                    /\ (i # 0 => Room(i - 1) = Room(i) + 1)
<1>1. Deepest \in Nat
  BY CeilingAssumption, LoaderAssumption DEF Deepest, effective_max_depth
<1>. QED
  BY <1>1 DEF Room

LEMMA ValuesAppend ==
  ASSUME NEW vs, NEW h, Values(vs, h), NEW v, Valued(v), v.height < h
  PROVE  /\ Values(Append(vs, v), h) /\ SumNodes(Append(vs, v)) = SumNodes(vs) + v.nodes
         /\ SumNodes(vs) \in Nat /\ v.nodes \in Nat \ {0}
<1> DEFINE t == Append(vs, v)
           b == Len(vs)
<1>1. IsSeq(vs) /\ b \in Nat
  BY SeqFacts DEF Values
<1>2. IsSeq(t) /\ Len(t) = b + 1 /\ t[b + 1] = v /\ \A i \in 1 .. b : t[i] = vs[i]
  BY <1>1, AppendSeq
<1>. HIDE DEF t
<1>3. \A i \in 1 .. b + 1 : i \in 1 .. b \/ i = b + 1
  BY <1>1
<1>4. Values(t, h)
  BY <1>2, <1>3 DEF Values
<1>5. AllSized(vs) /\ AllSized(t)
  BY <1>4, ValuesSized
<1>6. SumNodes(t) = SumNodes(vs) + t[b + 1].nodes
  BY <1>2, <1>5, NodesMore
<1>7. SumNodes(vs) \in Nat
  BY <1>5, NodesFacts
<1>. QED
  BY <1>2, <1>4, <1>6, <1>7 DEF t, Valued, Sized

LEMMA SequenceFrame ==
  ASSUME NEW f, f.f = "seq", NEW i \in Nat, FrameFits(f, i)
  PROVE  /\ Held(f) = f.items /\ AllSized(Held(f)) /\ SumNodes(f.items) \in Nat
         /\ FrameNodes(f) = OwnNodes(f) + SumNodes(f.items)
         /\ FrameNodes(f) \in Nat /\ OwnNodes(f) \in Nat /\ MaxHeight(Held(f)) < Room(i)
         /\ MaxHeight(Held(f)) \in Nat
<1>1. Values(f.items, Room(i)) /\ Held(f) = f.items
  BY DEF FrameFits, Held
<1>2. AllSized(f.items)
  BY <1>1, ValuesSized
<1>3. SumNodes(f.items) \in Nat
  BY <1>2, NodesFacts
<1>4. FrameNodes(f) = OwnNodes(f) + SumNodes(f.items) + 0 + 0 /\ OwnNodes(f) \in Nat
  BY <1>1 DEF FrameNodes, OwnNodes
<1>5. MaxHeight(f.items) < Room(i) /\ MaxHeight(f.items) \in Nat
  <2>1. Room(i) \in Nat /\ Room(i) # 0
    BY RoomFacts DEF FrameFits
  <2> DEFINE vs == f.items
             h == Room(i)
  <2>2. AllSized(vs) /\ h \in Nat /\ h # 0 /\ \A k \in 1 .. Len(vs) : vs[k].height < h
    BY <1>1, <1>2, <2>1 DEF Values
  <2>. HIDE DEF vs, h
  <2>3. MaxHeight(vs) < h /\ MaxHeight(vs) \in Nat
    BY <2>2, HeightFacts
  <2>. QED BY <2>3 DEF vs, h
<1>. QED
  BY <1>1, <1>2, <1>3, <1>4, <1>5

LEMMA MappingFrame ==
  ASSUME NEW f, f.f \in {"key", "value"}, NEW i \in Nat, FrameFits(f, i)
  PROVE  /\ AllSized(Held(f)) /\ SumNodes(f.merge_values) \in Nat /\ Weight(f.map) \in Nat
         /\ FrameNodes(f) = OwnNodes(f) + Weight(f.map) + SumNodes(f.merge_values)
                              + (IF f.f = "value" THEN 1 ELSE 0)
         /\ FrameNodes(f) \in Nat /\ OwnNodes(f) \in Nat /\ MaxHeight(Held(f)) < Room(i)
<1> DEFINE m == f.map
           vs == f.merge_values
           h == Room(i)
           s == Vals(m)
           u == s \o vs
<1>1. Entries(m, h) /\ Values(vs, h) /\ Held(f) = u
  BY DEF FrameFits, Held
<1>2. h \in Nat /\ h # 0
  BY RoomFacts DEF FrameFits
<1>. HIDE DEF m, vs, h
<1>3. /\ AllSized(s) /\ Len(s) = Len(m) /\ \A k \in 1 .. Len(m) : s[k] = m[k].val
      /\ Len(m) \in Nat /\ SumNodes(s) \in Nat /\ Weight(m) = Len(m) + SumNodes(s)
  BY <1>1, EntriesFacts
<1>4. AllSized(vs) /\ SumNodes(vs) \in Nat
  BY <1>1, ValuesSized, NodesFacts
<1>5. \A k \in 1 .. Len(s) : s[k].height < h
  BY <1>1, <1>3 DEF Entries
<1>6. \A k \in 1 .. Len(vs) : vs[k].height < h
  BY <1>1 DEF Values
<1>. HIDE DEF s
<1>7. /\ IsSeq(u) /\ Len(u) = Len(s) + Len(vs) /\ Len(s) \in Nat /\ Len(vs) \in Nat
      /\ \A k \in 1 .. Len(s) : u[k] = s[k]
      /\ \A k \in 1 .. Len(vs) : u[Len(s) + k] = vs[k]
  BY <1>3, <1>4, ConcatSeq, SeqFacts, SMTT(60) DEF AllSized
<1>. HIDE DEF u
<1>8. \A k \in 1 .. Len(u) : Sized(u[k]) /\ u[k].height < h
  <2>. TAKE k \in 1 .. Len(u)
  <2>1. CASE k <= Len(s)
    <3>1. k \in 1 .. Len(s)
      BY <1>7, <2>1
    <3>. QED BY <1>3, <1>5, <1>7, <3>1 DEF AllSized
  <2>2. CASE k > Len(s)
    <3> DEFINE j == k - Len(s)
    <3>1. j \in 1 .. Len(vs) /\ k = Len(s) + j
      BY <1>7, <2>2
    <3>. HIDE DEF j
    <3>2. u[k] = vs[j] /\ Sized(vs[j]) /\ vs[j].height < h
      BY <1>4, <1>6, <1>7, <3>1 DEF AllSized
    <3>. QED BY <3>2
  <2>. QED BY <1>7, <2>1, <2>2
<1>9. AllSized(u)
  BY <1>7, <1>8 DEF AllSized
<1>10. SumNodes(u) = SumNodes(s) + SumNodes(vs)
  BY <1>3, <1>4, <1>7, <1>9, NodesJoined
<1>11. MaxHeight(u) < h
  BY <1>2, <1>8, <1>9, HeightFacts
<1>12. FrameNodes(f) = OwnNodes(f) + SumNodes(u) + Len(m) + (IF f.f = "value" THEN 1 ELSE 0)
  BY <1>1 DEF FrameNodes, OwnNodes, m
<1>13. OwnNodes(f) \in Nat
  BY DEF OwnNodes
<1>14. /\ FrameNodes(f) = OwnNodes(f) + Weight(m) + SumNodes(vs)
                              + (IF f.f = "value" THEN 1 ELSE 0)
       /\ FrameNodes(f) \in Nat
  BY <1>3, <1>4, <1>10, <1>12, <1>13
<1>15. Weight(m) \in Nat
  BY <1>3
<1>. QED
  BY <1>1, <1>4, <1>9, <1>11, <1>13, <1>14, <1>15 DEF m, vs, h

\* Frame g, which has taken v, costs at most what f did and v.
Took(f, g, v, i) == FrameFits(g, i) /\ FrameNodes(g) <= FrameNodes(f) + v.nodes

LEMMA ItemTaken ==
  ASSUME NEW f, NEW g, f.f = "seq", g.f = "seq", g.tag = f.tag, NEW i \in Nat, FrameFits(f, i),
         NEW v, Valued(v), v.height < Room(i), g.items = Append(f.items, v)
  PROVE  Took(f, g, v, i)
<1> DEFINE vs == f.items
           h == Room(i)
<1>1. Values(vs, h)
  BY DEF FrameFits
<1>2. h = Room(i)
  OBVIOUS
<1>3. /\ Values(Append(vs, v), h) /\ SumNodes(Append(vs, v)) = SumNodes(vs) + v.nodes
      /\ SumNodes(vs) \in Nat /\ v.nodes \in Nat
  <2>. HIDE DEF vs, h
  <2>. QED BY <1>1, <1>2, ValuesAppend
<1>4. FrameFits(g, i)
  BY <1>3 DEF FrameFits
<1>5. /\ FrameNodes(f) = OwnNodes(f) + SumNodes(f.items)
      /\ FrameNodes(g) = OwnNodes(g) + SumNodes(g.items)
      /\ OwnNodes(f) \in Nat /\ OwnNodes(g) = OwnNodes(f)
  BY <1>4, SequenceFrame DEF OwnNodes
<1>. QED
  BY <1>3, <1>4, <1>5 DEF Took

LEMMA KeyTaken ==
  ASSUME NEW f, NEW g, f.f = "key", g.f = "value", g.tag = f.tag, g.map = f.map,
         g.merge_values = f.merge_values, NEW i \in Nat, FrameFits(f, i), NEW v, Valued(v)
  PROVE  Took(f, g, v, i)
<1>1. FrameFits(g, i)
  BY DEF FrameFits
<1>2. /\ FrameNodes(f) = OwnNodes(f) + Weight(f.map) + SumNodes(f.merge_values) + 0
      /\ FrameNodes(f) \in Nat
  BY MappingFrame
<1>3. FrameNodes(g) = OwnNodes(g) + Weight(f.map) + SumNodes(f.merge_values) + 1
  BY <1>1, MappingFrame
<1>4. /\ OwnNodes(g) = OwnNodes(f) /\ OwnNodes(f) \in Nat /\ Weight(f.map) \in Nat
      /\ SumNodes(f.merge_values) \in Nat /\ v.nodes \in Nat \ {0}
  BY MappingFrame DEF OwnNodes, Valued, Sized
<1>. QED
  BY <1>1, <1>2, <1>3, <1>4 DEF Took

LEMMA MergeTaken ==
  ASSUME NEW f, NEW g, f.f = "value", g.f = "key", g.tag = f.tag, g.map = f.map,
         NEW i \in Nat, FrameFits(f, i), NEW v, Valued(v), v.height < Room(i),
         g.merge_values = Append(f.merge_values, v)
  PROVE  Took(f, g, v, i)
<1> DEFINE vs == f.merge_values
           h == Room(i)
<1>1. Values(vs, h) /\ h = Room(i)
  BY DEF FrameFits
<1>2. /\ Values(Append(vs, v), h) /\ SumNodes(Append(vs, v)) = SumNodes(vs) + v.nodes
      /\ SumNodes(vs) \in Nat /\ v.nodes \in Nat
  <2>. HIDE DEF vs, h
  <2>. QED BY <1>1, ValuesAppend
<1>3. FrameFits(g, i)
  BY <1>2 DEF FrameFits
<1>4. /\ FrameNodes(f) = OwnNodes(f) + Weight(f.map) + SumNodes(vs) + 1
      /\ OwnNodes(f) \in Nat /\ Weight(f.map) \in Nat
  BY MappingFrame
<1>5. FrameNodes(g) = OwnNodes(g) + Weight(f.map) + SumNodes(g.merge_values) + 0
  <2>1. g.f = "key" /\ i \in Nat /\ FrameFits(g, i)
    BY <1>3
  <2>2. FrameNodes(g) = OwnNodes(g) + Weight(g.map) + SumNodes(g.merge_values) + 0
    BY ONLY <2>1, MappingFrame
  <2>. QED BY <2>2
<1>6. OwnNodes(g) = OwnNodes(f)
  BY DEF OwnNodes
<1>. QED
  BY <1>2, <1>3, <1>4, <1>5, <1>6 DEF Took

\* An entry added, or given another value.
Entry(m, t, key, v) ==
  \/ t = Append(m, [key |-> key, val |-> v])
  \/ \E idx \in 1 .. Len(m) : t = [m EXCEPT ![idx].val = v]
  \/ t = m

LEMMA EntryWeight ==
  ASSUME NEW m, NEW h, Entries(m, h), \A k \in 1 .. Len(m) : Has(m[k], {"key", "val"}),
         NEW v, Sized(v), v.height < h, NEW key, NEW t, Entry(m, t, key, v)
  PROVE  /\ Entries(t, h) /\ Weight(t) <= Weight(m) + 1 + v.nodes
         /\ Weight(t) \in Nat /\ Weight(m) \in Nat
         /\ \A k \in 1 .. Len(t) : Has(t[k], {"key", "val"})
<1>1. IsSeq(m) /\ Len(m) \in Nat /\ Weight(m) \in Nat /\ v.nodes \in Nat
  BY EntriesFacts DEF Entries, Sized
<1>2. CASE t = m
  BY <1>1, <1>2
<1>3. CASE t = Append(m, [key |-> key, val |-> v])
  <2> DEFINE p == [key |-> key, val |-> v]
  <2>1. p.val = v /\ Has(p, {"key", "val"})
    BY DEF Has
  <2>. HIDE DEF p
  <2>2. Entries(Append(m, p), h) /\ Weight(Append(m, p)) = Weight(m) + 1 + p.val.nodes
    BY <2>1, EntriesAppend
  <2>3. /\ Len(Append(m, p)) = Len(m) + 1 /\ Append(m, p)[Len(m) + 1] = p
        /\ \A k \in 1 .. Len(m) : Append(m, p)[k] = m[k]
    BY <1>1, AppendSeq
  <2>4. \A k \in 1 .. Len(m) + 1 : k \in 1 .. Len(m) \/ k = Len(m) + 1
    BY <1>1
  <2>5. t = Append(m, p)
    BY <1>3 DEF p
  <2>. QED BY <1>1, <2>1, <2>2, <2>3, <2>4, <2>5
<1>4. ASSUME NEW idx \in 1 .. Len(m), t = [m EXCEPT ![idx].val = v]
      PROVE  /\ Entries(t, h) /\ Weight(t) <= Weight(m) + 1 + v.nodes
             /\ Weight(t) \in Nat /\ \A k \in 1 .. Len(t) : Has(t[k], {"key", "val"})
  <2> DEFINE e == m[idx]
             x == [e EXCEPT !.val = v]
  <2>1. Has(e, {"key", "val"})
    OBVIOUS
  <2>2. t = Put(m, idx, x)
    BY <1>4 DEF Put
  <2>. HIDE DEF e
  <2>3. Has(x, {"key", "val"}) /\ x.val = v
    BY <2>1 DEF Has
  <2>. HIDE DEF x
  <2>4. /\ IsSeq(t) /\ Len(t) = Len(m) /\ t[idx] = x
        /\ \A k \in 1 .. Len(m) : k # idx => t[k] = m[k]
    BY <1>1, <2>2, PutFacts
  <2>5. Entries(t, h) /\ \A k \in 1 .. Len(t) : Has(t[k], {"key", "val"})
    BY <2>3, <2>4 DEF Entries
  <2> DEFINE r == Vals(m)
             s == Vals(t)
             b == Len(m)
  <2>6. /\ AllSized(r) /\ Len(r) = b /\ \A k \in 1 .. b : r[k] = m[k].val
        /\ Weight(m) = b + SumNodes(r) /\ SumNodes(r) \in Nat
    BY EntriesFacts
  <2>7. /\ AllSized(s) /\ Len(s) = b /\ \A k \in 1 .. b : s[k] = t[k].val
        /\ Weight(t) = b + SumNodes(s) /\ Weight(t) \in Nat /\ SumNodes(s) \in Nat
    BY <2>4, <2>5, EntriesFacts
  <2>8. idx \in 1 .. b /\ b \in Nat
    BY <1>1
  <2>. HIDE DEF r, s, b
  <2>9. \A k \in 1 .. b : k # idx => s[k] = r[k]
    BY <2>4, <2>6, <2>7 DEF b
  <2>10. idx \in 1 .. Len(r) /\ Len(s) = Len(r) /\ \A k \in 1 .. Len(r) : k # idx => s[k] = r[k]
    BY <2>6, <2>7, <2>8, <2>9
  <2>11. SumNodes(s) <= SumNodes(r) + s[idx].nodes
    BY <2>6, <2>7, <2>10, NodesChanged
  <2>12. s[idx] = v
    BY <2>3, <2>4, <2>7, <2>8
  <2>. QED BY <1>1, <2>5, <2>6, <2>7, <2>8, <2>11, <2>12
<1>. QED
  BY <1>1, <1>2, <1>3, <1>4 DEF Entry

LEMMA ValueTaken ==
  ASSUME NEW f, NEW g, f.f = "value", g.f = "key", g.tag = f.tag,
         g.merge_values = f.merge_values, NEW i \in Nat, FrameFits(f, i),
         NEW v, Valued(v), v.height < Room(i), Entry(f.map, g.map, f.key, v)
  PROVE  Took(f, g, v, i)
<1> DEFINE m == f.map
           t == g.map
           h == Room(i)
           key == f.key
<1>1. /\ Entries(m, h) /\ \A k \in 1 .. Len(m) : Has(m[k], {"key", "val"})
      /\ Sized(v) /\ v.height < h /\ Entry(m, t, key, v) /\ v.nodes \in Nat
  BY DEF FrameFits, Valued, Sized
<1>2. /\ Entries(t, h) /\ Weight(t) <= Weight(m) + 1 + v.nodes
      /\ Weight(t) \in Nat /\ Weight(m) \in Nat
      /\ \A k \in 1 .. Len(t) : Has(t[k], {"key", "val"})
  <2>. HIDE DEF m, t, h, key
  <2>. QED BY <1>1, EntryWeight
<1>3. FrameFits(g, i)
  BY <1>2 DEF FrameFits
<1>4. /\ FrameNodes(f) = OwnNodes(f) + Weight(m) + SumNodes(f.merge_values) + 1
      /\ OwnNodes(f) \in Nat /\ SumNodes(f.merge_values) \in Nat
  BY MappingFrame
<1>5. FrameNodes(g) = OwnNodes(g) + Weight(t) + SumNodes(f.merge_values) + 0
  BY <1>3, MappingFrame
<1>6. OwnNodes(g) = OwnNodes(f)
  BY DEF OwnNodes
<1>. HIDE DEF m, t, h
<1>. QED
  BY <1>1, <1>2, <1>3, <1>4, <1>5, <1>6 DEF Took

\* The value of a key, whatever becomes of it.
LEMMA EnteredTaken ==
  ASSUME NEW L, NEW f, Has(f, MapFields), f.anchor \in Anchors \cup {None}, f.f = "value",
         NEW i \in Nat, FrameFits(f, i), NEW v, Valued(v), v.height < Room(i), NEW span
  PROVE  Took(f, NextKey(Entered(L, f, v, span)), v, i)
<1> DEFINE a == Entered(L, f, v, span)
           g == NextKey(a)
           idx == get_index_of(f.map, f.key)
<1>1. Has(a, MapFields) /\ a.anchor = f.anchor /\ a.tag = f.tag
  BY EnteredFacts
<1>2. /\ g.f = "key" /\ g.tag = f.tag /\ g.map = a.map /\ g.merge_values = a.merge_values
  <2>. HIDE DEF a
  <2>. QED BY <1>1, NextKeyFacts
<1>3. CASE IsMerge(f) /\ config.merge # "AsOrdinary"
  <2>1. a = [f EXCEPT !.merge_values = Append(@, v)]
    BY <1>3 DEF Entered
  <2>2. a.map = f.map /\ a.merge_values = Append(f.merge_values, v)
    BY <2>1, BufferFacts
  <2>. HIDE DEF a, g
  <2>3. Took(f, g, v, i)
    BY <1>2, <2>2, MergeTaken
  <2>. QED BY <2>3 DEF g, a
<1>4. CASE ~(IsMerge(f) /\ config.merge # "AsOrdinary")
  <2> DEFINE b == InsertBare(f, v)
             c == InsertSpanned(f, v, span)
  <2>1. /\ SameNode(f, b) /\ SameNode(f, c) /\ c.map = b.map
    BY InsertFacts
  <2>2. a = b \/ a = Seen(c, v, span)
    BY <1>4 DEF Entered
  <2>3. Entry(f.map, b.map, f.key, v)
    <3>1. IsSeq(f.map)
      BY DEF FrameFits, Entries
    <3>2. idx \in 0 .. Len(f.map) /\ Len(f.map) \in Nat
      <4> DEFINE m == f.map
                 key == f.key
      <4>1. IsSeq(m)
        BY <3>1
      <4>. HIDE DEF m, key
      <4>2. get_index_of(m, key) \in 0 .. Len(m) /\ Len(m) \in Nat
        BY <4>1, IndexFacts, SeqFacts
      <4>. QED BY <4>2 DEF m, key
    <3>3. CASE idx = 0
      <4> DEFINE new == Append(f.map, [key |-> f.key, val |-> v])
                 shapes == record(f.typed_keys, Len(f.map), f.key_value)
      <4>1. b = [f EXCEPT !.map = new, !.typed_keys = shapes]
        BY <3>3 DEF InsertBare, Inserted
      <4>. HIDE DEF new, shapes, b
      <4>2. b.map = new
        BY <4>1 DEF Has, MapFields
      <4>. QED BY <4>2 DEF Entry, new
    <3>4. CASE idx # 0 /\ config.duplicate = "Last"
      <4> DEFINE old == [f.map EXCEPT ![idx].val = v]
      <4>1. b = [f EXCEPT !.map = old]
        BY <3>4, Zenon DEF InsertBare
      <4>. HIDE DEF old, b, idx
      <4>2. b.map = old
        BY <4>1 DEF Has, MapFields
      <4>3. idx \in 1 .. Len(f.map)
        BY <3>2, <3>4
      <4>. QED BY <4>2, <4>3 DEF Entry, old
    <3>5. CASE idx # 0 /\ config.duplicate # "Last"
      BY <3>5 DEF InsertBare, Entry
    <3>. QED BY <3>3, <3>4, <3>5
  <2>. HIDE DEF a, g, b, c
  <2>4. a.map = b.map /\ a.merge_values = f.merge_values
    <3>1. CASE a = b
      BY <2>1, <3>1 DEF SameNode
    <3>2. CASE a = Seen(c, v, span)
      BY <2>1, <3>2, SeenFacts DEF SameNode
    <3>. QED BY <2>2, <3>1, <3>2
  <2>5. Took(f, g, v, i)
    BY <1>2, <2>3, <2>4, ValueTaken
  <2>. QED BY <2>5 DEF g, a
<1>. QED
  BY <1>3, <1>4

-----------------------------------------------------------------------------
(* A loader whose values fit, and what its frames cost.                    *)

Costs(s) == [i \in DOMAIN s |-> FrameNodes(s[i])]
Load(s) == Total(Costs(s))

Fits(L) ==
  /\ \A i \in 1 .. Len(L.stack) : FrameFits(L.stack[i], i)
  /\ \A a \in DOMAIN L.anchor_map : Valued(L.anchor_map[a].val)
  /\ \A i \in 1 .. Len(L.docs) : Sized(L.docs[i].val) /\ L.docs[i].val.height <= Deepest

\* M's tree costs at most w more than L's, whose document is not complete.
Grown(L, M, w) ==
  IF M.stack = <<>>
  THEN Last(M.docs).val.nodes \in Nat /\ Last(M.docs).val.nodes <= Load(L.stack) + w
  ELSE Load(M.stack) \in Nat /\ Load(M.stack) <= Load(L.stack) + w

LEMMA LoadFacts ==
  ASSUME NEW L, IsLoader(L), Fits(L)
  PROVE  /\ Len(L.stack) \in Nat /\ Load(L.stack) = SumTo(Costs(L.stack), Len(L.stack))
         /\ \A i \in 1 .. Len(L.stack) :
              Costs(L.stack)[i] = FrameNodes(L.stack[i]) /\ Costs(L.stack)[i] \in Nat
         /\ Load(L.stack) \in Nat /\ (L.stack = <<>> => Load(L.stack) = 0)
<1> DEFINE s == L.stack
           b == Len(s)
           t == Costs(s)
<1>1. /\ IsSeq(s) /\ b \in Nat /\ DOMAIN s = 1 .. b /\ (s = <<>> => b = 0)
      /\ \A i \in 1 .. b : IsFrame(s[i]) /\ FrameFits(s[i], i)
  BY SeqFacts DEF IsLoader, Fits
<1>2. \A i \in 1 .. b : FrameNodes(s[i]) \in Nat
  <2>. TAKE i \in 1 .. b
  <2> DEFINE f == s[i]
  <2>1. f.f \in {"seq", "key", "value"} /\ FrameFits(f, i) /\ i \in Nat
    BY <1>1 DEF IsFrame
  <2>. HIDE DEF f
  <2>2. FrameNodes(f) \in Nat
    BY <2>1, SequenceFrame, MappingFrame
  <2>. QED BY <2>2 DEF f
<1>3. t = [i \in DOMAIN s |-> t[i]] /\ \A i \in 1 .. b : t[i] = FrameNodes(s[i]) /\ t[i] \in Nat
  BY <1>1, <1>2 DEF Costs
<1>4. Len(t) = b
  <2>. HIDE DEF t
  <2>. QED BY <1>1, <1>3, Mapped
<1>5. Load(s) = SumTo(t, b)
  BY <1>4, TotalIs DEF Load
<1>6. SumTo(t, b) \in Nat
  BY <1>1, <1>3, SumNat
<1>7. b = 0 => SumTo(t, b) = 0
  BY SumFacts
<1>. QED
  BY <1>1, <1>3, <1>5, <1>6, <1>7

LEMMA SameFits ==
  ASSUME NEW L, Fits(L), NEW M, M.stack = L.stack, M.anchor_map = L.anchor_map, M.docs = L.docs
  PROVE  Fits(M)
BY DEF Fits

LEMMA FailFits ==
  ASSUME NEW L, IsLoader(L), Fits(L), NEW e, NEW p
  PROVE  Fits(Fail(L, e, p))
<1>1. /\ Fail(L, e, p).stack = L.stack /\ Fail(L, e, p).anchor_map = L.anchor_map
      /\ Fail(L, e, p).docs = L.docs
  BY FailFacts DEF Keeps
<1>. QED
  BY <1>1, SameFits

\* Frames that differ in the last only.
LEMMA TopLoad ==
  ASSUME NEW L, NEW M, IsLoader(L), IsLoader(M), Fits(L), Fits(M), L.stack # <<>>,
         Len(M.stack) = Len(L.stack), \A i \in 1 .. Len(L.stack) - 1 : M.stack[i] = L.stack[i]
  PROVE  Load(M.stack) + FrameNodes(Last(L.stack)) = Load(L.stack) + FrameNodes(Last(M.stack))
<1> DEFINE b == Len(L.stack)
           f == Costs(L.stack)
           g == Costs(M.stack)
<1>1. /\ b \in Nat /\ b \in 1 .. b /\ Last(L.stack) = L.stack[b] /\ Last(M.stack) = M.stack[b]
  BY TopFrame DEF Last
<1>2. /\ Load(L.stack) = SumTo(f, b)
      /\ \A i \in 1 .. b : f[i] = FrameNodes(L.stack[i]) /\ f[i] \in Nat
  BY LoadFacts
<1>3. /\ Load(M.stack) = SumTo(g, b)
      /\ \A i \in 1 .. b : g[i] = FrameNodes(M.stack[i]) /\ g[i] \in Nat
  BY LoadFacts
<1>4. \A i \in 1 .. b : i # b => g[i] = f[i]
  <2>1. \A i \in 1 .. b : i # b => i \in 1 .. b - 1
    BY <1>1
  <2>. QED BY <1>2, <1>3, <2>1
<1>. HIDE DEF b, f, g
<1>5. SumTo(g, b) + f[b] = SumTo(f, b) + g[b]
  <2>1. \A i \in 1 .. b : f[i] \in Nat /\ g[i] \in Nat
    BY <1>2, <1>3
  <2>. QED BY <1>1, <1>4, <2>1, SumChanged
<1>. QED
  BY <1>1, <1>2, <1>3, <1>5

LEMMA SetTopFits ==
  ASSUME NEW L, IsLoader(L), Fits(L), L.stack # <<>>, NEW g, IsFrame(g),
         NEW v, v.nodes \in Nat, Took(Last(L.stack), g, v, Len(L.stack))
  PROVE  Fits(SetTop(L, g)) /\ Grown(L, SetTop(L, g), v.nodes)
<1> DEFINE M == SetTop(L, g)
           f == Last(L.stack)
<1>1. /\ IsLoader(M) /\ Len(M.stack) = Len(L.stack) /\ M.stack # <<>> /\ Last(M.stack) = g
      /\ M.anchor_map = L.anchor_map /\ M.docs = L.docs
      /\ \A i \in 1 .. Len(L.stack) - 1 : M.stack[i] = L.stack[i]
  BY SetTopFacts DEF Keeps
<1>2. Len(L.stack) \in Nat /\ Len(L.stack) \in 1 .. Len(L.stack) /\ f = L.stack[Len(L.stack)]
  BY TopFrame
<1>. HIDE DEF M
<1>3. M.stack[Len(L.stack)] = g
  BY <1>1 DEF Last
<1>4. \A i \in 1 .. Len(L.stack) : i = Len(L.stack) \/ i \in 1 .. Len(L.stack) - 1
  BY <1>2
<1>5. FrameFits(g, Len(L.stack)) /\ FrameNodes(g) <= FrameNodes(f) + v.nodes
  BY DEF Took
<1>6. Fits(M)
  BY <1>1, <1>3, <1>4, <1>5 DEF Fits
<1>7. Load(M.stack) + FrameNodes(f) = Load(L.stack) + FrameNodes(g)
  BY <1>1, <1>6, TopLoad
<1>8. Load(M.stack) \in Nat /\ Load(L.stack) \in Nat
  BY <1>1, <1>6, LoadFacts
<1>9. FrameNodes(f) \in Nat
  BY <1>2, LoadFacts
<1>10. FrameNodes(g) \in Nat
  BY <1>1, <1>2, <1>3, <1>6, LoadFacts
<1>11. Load(M.stack) <= Load(L.stack) + v.nodes
  BY <1>5, <1>7, <1>8, <1>9, <1>10
<1>. QED
  BY <1>1, <1>6, <1>8, <1>11 DEF Grown, M

LEMMA TopFits ==
  ASSUME NEW L, IsLoader(L), Fits(L), L.stack # <<>>
  PROVE  /\ IsFrame(Last(L.stack)) /\ FrameFits(Last(L.stack), Len(L.stack))
         /\ Len(L.stack) \in Nat /\ Len(L.stack) # 0
BY TopFrame DEF Fits

LEMMA PushItemFits ==
  ASSUME NEW L, IsLoader(L), Fits(L), L.err = "none", L.stack # <<>>, Last(L.stack).f = "seq",
         NEW v, Valued(v), v.height < Room(Len(L.stack)), NEW spans
  PROVE  LET M == PushItem(L, v, spans)
         IN  Fits(M) /\ (M.err = "none" => Grown(L, M, v.nodes))
<1> DEFINE f == Last(L.stack)
           g == [f EXCEPT !.items = Append(@, v), !.spans = spans]
           i == Len(L.stack)
<1>1. /\ Has(f, SeqFields) /\ f.anchor \in Anchors \cup {None} /\ f.f = "seq"
      /\ FrameFits(f, i) /\ i \in Nat /\ v.height < Room(i) /\ v.nodes \in Nat
  BY TopFits DEF IsFrame, Valued, Sized
<1>2. /\ g.f = "seq" /\ g.anchor = f.anchor /\ g.tag = f.tag /\ Has(g, SeqFields)
      /\ g.items = Append(f.items, v)
  BY <1>1 DEF Has, SeqFields
<1>3. PushItem(L, v, spans) = SetTop(L, g) \/ PushItem(L, v, spans) = Fail(L, "sequence_length", 0)
  BY DEF PushItem
<1>. HIDE DEF g, f, i
<1>4. IsFrame(g) /\ Took(f, g, v, i)
  BY <1>1, <1>2, ItemTaken DEF IsFrame
<1>5. CASE PushItem(L, v, spans) = SetTop(L, g)
  BY <1>1, <1>4, <1>5, SetTopFits DEF f, i
<1>6. CASE PushItem(L, v, spans) = Fail(L, "sequence_length", 0)
  BY <1>6, FailFits, FailFacts
<1>. QED
  BY <1>3, <1>5, <1>6

LEMMA PushKeyFits ==
  ASSUME NEW L, IsLoader(L), Fits(L), L.err = "none", L.stack # <<>>, Last(L.stack).f = "key",
         NEW v, Valued(v), NEW may, NEW key_span, NEW start
  PROVE  LET M == PushKey(L, v, may, key_span, start)
         IN  Fits(M) /\ (M.err = "none" => Grown(L, M, v.nodes))
<1> DEFINE f == Last(L.stack)
           i == Len(L.stack)
           M == PushKey(L, v, may, key_span, start)
           G(shape) == [f EXCEPT !.f = "value", !.key = v.key, !.key_may_merge = may,
                                 !.key_value = shape, !.key_span = key_span]
<1>1. /\ Has(f, MapFields) /\ f.anchor \in Anchors \cup {None} /\ f.f = "key"
      /\ FrameFits(f, i) /\ i \in Nat /\ v.nodes \in Nat
  BY TopFits DEF IsFrame, Valued, Sized
<1>2. M = Fail(L, "non_scalar_key", start) \/ \E shape : M = SetTop(L, G(shape))
  BY DEF PushKey
<1>3. ASSUME NEW shape PROVE IsFrame(G(shape)) /\ Took(f, G(shape), v, i)
  <2> DEFINE g == G(shape)
  <2>1. /\ g.f = "value" /\ g.anchor = f.anchor /\ g.tag = f.tag /\ Has(g, MapFields)
        /\ g.map = f.map /\ g.merge_values = f.merge_values
    BY <1>1 DEF Has, MapFields
  <2>. HIDE DEF g, f, i
  <2>2. IsFrame(g) /\ Took(f, g, v, i)
    BY <1>1, <2>1, KeyTaken DEF IsFrame
  <2>. QED BY <2>2 DEF g, f
<1>. HIDE DEF G, M, f, i
<1>4. ASSUME NEW shape, M = SetTop(L, G(shape)) PROVE Fits(M) /\ Grown(L, M, v.nodes)
  BY <1>1, <1>3, <1>4, SetTopFits DEF f, i
<1>5. ASSUME M = Fail(L, "non_scalar_key", start) PROVE Fits(M) /\ M.err # "none"
  <2>1. Fits(Fail(L, "non_scalar_key", start))
    BY FailFits
  <2>2. Fail(L, "non_scalar_key", start).err = "non_scalar_key"
    BY FailFacts
  <2>. QED BY <1>5, <2>1, <2>2
<1>6. Fits(M) /\ (M.err = "none" => Grown(L, M, v.nodes))
  BY <1>2, <1>4, <1>5
<1>. QED
  BY <1>6 DEF M

LEMMA PushValueFits ==
  ASSUME NEW L, IsLoader(L), Fits(L), L.err = "none", L.stack # <<>>, Last(L.stack).f = "value",
         NEW v, Valued(v), v.height < Room(Len(L.stack)), NEW span
  PROVE  LET M == PushValue(L, v, span)
         IN  Fits(M) /\ (M.err = "none" => Grown(L, M, v.nodes))
<1> DEFINE f == Last(L.stack)
           i == Len(L.stack)
           g == NextKey(Entered(L, f, v, span))
           M == PushValue(L, v, span)
<1>1. /\ Has(f, MapFields) /\ f.anchor \in Anchors \cup {None} /\ f.f = "value"
      /\ FrameFits(f, i) /\ i \in Nat /\ v.height < Room(i) /\ v.nodes \in Nat
  BY TopFits DEF IsFrame, Valued, Sized
<1>2. M = SetTop(L, g) \/ \E e \in Refusals : \E p : M = Fail(L, e, p)
  BY PushValueCases
<1>3. IsFrame(g)
  <2> DEFINE h == Entered(L, f, v, span)
  <2>1. Has(h, MapFields) /\ h.anchor = f.anchor
    BY <1>1, EnteredFacts
  <2>. HIDE DEF h
  <2>2. IsFrame(NextKey(h))
    BY <1>1, <2>1, NextKeyFacts
  <2>. QED BY <2>2 DEF h
<1>4. Took(f, g, v, i)
  <2>. HIDE DEF f, i
  <2>. QED BY <1>1, EnteredTaken
<1>. HIDE DEF g, f, i, M
<1>5. ASSUME M = SetTop(L, g) PROVE Fits(M) /\ Grown(L, M, v.nodes)
  BY <1>1, <1>3, <1>4, <1>5, SetTopFits DEF f, i
<1>6. ASSUME NEW e \in Refusals, NEW p, M = Fail(L, e, p) PROVE Fits(M) /\ M.err # "none"
  BY <1>6, FailFits, FailFacts DEF Refusals
<1>7. Fits(M) /\ (M.err = "none" => Grown(L, M, v.nodes))
  BY <1>2, <1>5, <1>6
<1>. QED
  BY <1>7 DEF M

LEMMA PushFits ==
  ASSUME NEW L, IsLoader(L), Fits(L), L.err = "none", NEW v, Valued(v),
         v.height < Room(Len(L.stack)), NEW span, NEW may
  PROVE  LET M == Push(L, v, span, may)
         IN  Fits(M) /\ (M.err = "none" => Grown(L, M, v.nodes))
<1> DEFINE M == Push(L, v, span, may)
<1>1. CASE L.stack = <<>>
  <2>1. PICK d : M = [L EXCEPT !.docs = Append(@, d)] /\ d.val = v
    <3>1. CASE L.spanned
      <4> DEFINE d == [val |-> v, span |-> span]
      <4>1. M = [L EXCEPT !.docs = Append(@, d)] /\ d.val = v
        BY <1>1, <3>1 DEF Push, push_node
      <4>. HIDE DEF d, M
      <4>. QED BY <4>1
    <3>2. CASE ~L.spanned
      <4> DEFINE d == [val |-> v]
      <4>1. M = [L EXCEPT !.docs = Append(@, d)] /\ d.val = v
        BY <1>1, <3>2 DEF Push, push_value
      <4>. HIDE DEF d, M
      <4>. QED BY <4>1
    <3>. QED BY <3>1, <3>2
  <2>. HIDE DEF M
  <2>2. /\ M.docs = Append(L.docs, d) /\ M.stack = <<>> /\ M.anchor_map = L.anchor_map
    BY <1>1, <2>1, RootFacts DEF Rooted, Keeps
  <2>3. /\ IsSeq(L.docs) /\ Len(L.docs) \in Nat
        /\ Len(M.docs) = Len(L.docs) + 1 /\ M.docs[Len(L.docs) + 1] = d
        /\ \A i \in 1 .. Len(L.docs) : M.docs[i] = L.docs[i]
    BY <2>2, AppendSeq, SeqFacts DEF IsLoader
  <2>4. Sized(v) /\ v.height <= Deepest /\ v.nodes \in Nat
    <3>1. Len(L.stack) = 0 /\ v.height \in Nat
      BY <1>1, NoneSeq DEF Valued, Sized
    <3>2. v.height < Deepest - 0 + 1
      BY <3>1 DEF Room
    <3>. QED BY <3>1, <3>2, RoomFacts DEF Valued, Sized
  <2>5. \A i \in 1 .. Len(L.docs) + 1 : i \in 1 .. Len(L.docs) \/ i = Len(L.docs) + 1
    BY <2>3
  <2>6. Fits(M)
    BY <1>1, <2>1, <2>2, <2>3, <2>4, <2>5 DEF Fits
  <2>7. Last(M.docs).val = v
    BY <2>1, <2>3 DEF Last
  <2>8. Load(L.stack) = 0
    BY <1>1, LoadFacts
  <2>9. Grown(L, M, v.nodes)
    BY <2>2, <2>4, <2>7, <2>8 DEF Grown
  <2>. QED BY <2>6, <2>9 DEF M
<1>2. CASE L.stack # <<>>
  <2>1. Last(L.stack).f \in {"seq", "key", "value"}
    BY <1>2, TopFrame DEF IsFrame
  <2>2. CASE Last(L.stack).f = "seq"
    <3>1. \E spans : M = PushItem(L, v, spans)
      BY <1>2, <2>2 DEF Push, push_node, push_value
    <3>. QED BY <1>2, <2>2, <3>1, PushItemFits
  <2>3. CASE Last(L.stack).f = "key"
    <3>1. \E key_span, start : M = PushKey(L, v, may, key_span, start)
      BY <1>2, <2>3 DEF Push, push_node, push_value
    <3>. QED BY <1>2, <2>3, <3>1, PushKeyFits
  <2>4. CASE Last(L.stack).f = "value"
    <3>1. M = PushValue(L, v, span)
      BY <1>2, <2>4 DEF Push, push_node, push_value
    <3>. QED BY <1>2, <2>4, <3>1, PushValueFits
  <2>. QED BY <2>1, <2>2, <2>3, <2>4
<1>. QED
  BY <1>1, <1>2

-----------------------------------------------------------------------------
(* Leaves: a scalar fits anywhere, an alias where resolve_alias says so.   *)

LEMMA DefineFits ==
  ASSUME NEW L, IsLoader(L), Fits(L), NEW anchor \in Anchors \cup {None},
         NEW v, Valued(v), NEW start
  PROVE  Fits(DefineAnchor(L, anchor, v, start))
<1> DEFINE M == DefineAnchor(L, anchor, v, start)
<1>1. /\ M.stack = L.stack /\ M.docs = L.docs
      /\ M.anchor_map = NewAnchors(L.anchor_map, anchor, v, start)
  <2>1. M.stack = L.stack /\ M.docs = L.docs
    BY DefineAnchorFacts
  <2>2. M.anchor_map = NewAnchors(L.anchor_map, anchor, v, start)
    BY DefineAnchorMap
  <2>. QED BY <2>1, <2>2
<1>. HIDE DEF M
<1>2. ASSUME NEW a \in DOMAIN M.anchor_map PROVE Valued(M.anchor_map[a].val)
  <2>1. CASE anchor = None
    BY <1>1, <2>1 DEF NewAnchors, Fits
  <2>2. CASE anchor # None /\ a = anchor
    <3>1. M.anchor_map[a].val = v
      BY <1>1, <2>2 DEF NewAnchors
    <3>. QED BY <3>1
  <2>3. CASE anchor # None /\ a # anchor
    <3>1. a \in DOMAIN L.anchor_map /\ M.anchor_map[a] = L.anchor_map[a]
      BY <1>1, <2>3 DEF NewAnchors
    <3>. QED BY <3>1 DEF Fits
  <2>. QED BY <2>1, <2>2, <2>3
<1>3. Fits(M)
  BY <1>1, <1>2 DEF Fits
<1>. QED
  BY <1>3 DEF M

LEMMA RoomBelow ==
  ASSUME NEW i \in Nat, NEW h \in Nat, h + i <= Deepest
  PROVE  h < Room(i)
BY RoomFacts DEF Room

LEMMA PushBytes ==
  ASSUME NEW L, IsLoader(L), L.err = "none", NEW v, NEW span, NEW may
  PROVE  Push(L, v, span, may).alias_bytes = L.alias_bytes
<1>1. Keeps(L, Push(L, v, span, may))
  BY PushFacts
<1>. QED
  BY <1>1 DEF Keeps

LEMMA PushedBytes ==
  ASSUME NEW L, IsLoader(L), L.err = "none", NEW M, NEW v, NEW span, NEW may,
         M = Push(L, v, span, may)
  PROVE  M.alias_bytes = L.alias_bytes
BY PushBytes

\* A push that follows from a loader with the same frames.
LEMMA GrownFrom ==
  ASSUME NEW L, NEW K, NEW M, NEW w, K.stack = L.stack, Grown(K, M, w)
  PROVE  Grown(L, M, w)
BY DEF Grown

LEMMA ScalarFits ==
  ASSUME NEW L, IsLoader(L), L.err = "none", Fits(L), Len(L.stack) <= Deepest,
         NEW s, s.anchor \in Anchors \cup {None}, Valued(s.val), s.val.height = 0,
         NEW pos \in Nat
  PROVE  LET M == Scalar(L, s, pos)
         IN  /\ Fits(M) /\ M.alias_bytes = L.alias_bytes
             /\ M.err = "none" => Grown(L, M, s.val.nodes)
<1> DEFINE v == s.val
           anchor == s.anchor
           J == DefineSpan(L, anchor, pos)
           K == DefineAnchor(J, anchor, v, pos)
           M == Scalar(L, s, pos)
<1>1. Valued(v) /\ v.height = 0 /\ anchor \in Anchors \cup {None} /\ s.val = v
  OBVIOUS
<1>2. M = Push(K, v, Span(TRUE, pos, pos), s.plain)
  BY DEF Scalar
<1>. HIDE DEF v, anchor, M
<1>3. /\ IsLoader(J) /\ J.stack = L.stack /\ J.docs = L.docs /\ J.alias_bytes = L.alias_bytes
      /\ J.anchor_map = L.anchor_map /\ J.err = L.err
  BY <1>1, DefineSpanFacts, ZenonT(60)
<1>. HIDE DEF J
<1>4. Fits(J)
  BY <1>3, SameFits
<1>5. /\ IsLoader(K) /\ K.stack = J.stack /\ K.err = J.err /\ K.alias_bytes = J.alias_bytes
  <2>1. IsLoader(K) /\ SpanKeeps(J, K)
    BY <1>1, <1>3, DefineAnchorKeeps
  <2>. QED BY <2>1 DEF SpanKeeps
<1>6. Fits(K)
  BY <1>1, <1>3, <1>4, DefineFits
<1>7. v.height < Room(Len(K.stack))
  <2>1. Len(L.stack) \in Nat /\ Len(K.stack) = Len(L.stack)
    BY <1>3, <1>5, LoadFacts
  <2>2. v.height \in Nat /\ v.height + Len(L.stack) <= Deepest
    BY <1>1, <2>1, RoomFacts
  <2>. QED BY <2>1, <2>2, RoomBelow
<1>. HIDE DEF K
<1>8. Fits(M) /\ (M.err = "none" => Grown(K, M, v.nodes))
  BY <1>1, <1>2, <1>3, <1>5, <1>6, <1>7, PushFits
<1>9. M.alias_bytes = K.alias_bytes
  <2> DEFINE span == Span(TRUE, pos, pos)
             may == s.plain
  <2>1. M = Push(K, v, span, may)
    BY <1>2
  <2>. HIDE DEF span, may
  <2>2. IsLoader(K) /\ K.err = "none"
    BY <1>3, <1>5
  <2>. QED BY ONLY <2>1, <2>2, PushedBytes
<1>10. M.err = "none" => Grown(L, M, v.nodes)
  BY <1>3, <1>5, <1>8, GrownFrom
<1>. QED
  BY <1>3, <1>5, <1>8, <1>9, <1>10 DEF M, v

\* What an alias copies is charged.
LEMMA AliasFits ==
  ASSUME NEW L, IsLoader(L), L.err = "none", L.in_document, Fits(L), L.depth = Len(L.stack),
         NEW anchor, NEW pos
  PROVE  LET M == resolve_alias(L, anchor, pos)
         IN  /\ Fits(M)
             /\ M.err = "none" => \E c \in Nat :
                  Grown(L, M, c) /\ M.alias_bytes = L.alias_bytes + c * NODE_BYTES
<1> DEFINE known == L.anchor_map[anchor]
           v == known.val
           total == alias_bytes_total(L.alias_bytes, alias_cost(v))
           K == [L EXCEPT !.alias_bytes = total]
           M == resolve_alias(L, anchor, pos)
<1>1. Has(L, LoaderFields)
  BY DEF IsLoader
<1>2. /\ Has(K, LoaderFields) /\ K.docs = L.docs /\ K.stack = L.stack /\ K.err = L.err
      /\ K.alias_bytes = total /\ K.depth = L.depth
      /\ K.anchor_map = L.anchor_map /\ K.anchor_def_spans = L.anchor_def_spans
  BY <1>1 DEF Has, LoaderFields
<1>3. \/ \E e \in {"self_reference", "unknown_anchor", "depth"} : \E p : M = Fail(L, e, p)
      \/ \E p : M = Fail(K, "alias_bytes", p)
      \/ /\ anchor \in DOMAIN L.anchor_map
         /\ ~alias_too_deep(L, v)
         /\ ~alias_bytes_exceeded(L.alias_bytes, alias_cost(v), MaxDocumentLength)
         /\ M = Push(K, v, Span(FALSE, pos, known.start), FALSE)
  BY DEF resolve_alias, missing_anchor
<1>4. anchor \in DOMAIN L.anchor_map => Valued(v)
  BY DEF Fits
<1>. HIDE DEF K, M, known, v
<1>5. IsLoader(K) /\ Fits(K)
  <2>1. IsLoader(K)
    BY <1>2 DEF IsLoader
  <2>2. Fits(K)
    BY <1>2, SameFits
  <2>. QED BY <2>1, <2>2
<1>6. ASSUME NEW e \in {"self_reference", "unknown_anchor", "depth"}, NEW p, M = Fail(L, e, p)
      PROVE  Fits(M) /\ M.err # "none"
  BY <1>6, FailFits, FailFacts
<1>7. ASSUME NEW p, M = Fail(K, "alias_bytes", p) PROVE Fits(M) /\ M.err # "none"
  <2>1. Fits(Fail(K, "alias_bytes", p)) /\ Fail(K, "alias_bytes", p).err = "alias_bytes"
    BY <1>5, FailFits, FailFacts
  <2>. QED BY <1>7, <2>1
<1>8. ASSUME anchor \in DOMAIN L.anchor_map, ~alias_too_deep(L, v),
             ~alias_bytes_exceeded(L.alias_bytes, alias_cost(v), MaxDocumentLength),
             M = Push(K, v, Span(FALSE, pos, known.start), FALSE)
      PROVE  /\ Fits(M)
             /\ M.err = "none" => \E c \in Nat :
                  Grown(L, M, c) /\ M.alias_bytes = L.alias_bytes + c * NODE_BYTES
  <2>1. Valued(v) /\ v.nodes \in Nat /\ v.height \in Nat
    BY <1>4, <1>8 DEF Valued, Sized
  <2>2. v.height < Room(Len(K.stack))
    <3>1. ~(L.depth + v.height > Deepest)
      BY <1>8 DEF alias_too_deep, depth_exceeded, Deepest
    <3>2. Len(L.stack) \in Nat /\ Len(K.stack) = Len(L.stack)
      BY <1>2, LoadFacts
    <3>3. v.height + Len(L.stack) <= Deepest
      BY <2>1, <3>1, <3>2, RoomFacts
    <3>. QED BY <2>1, <3>2, <3>3, RoomBelow
  <2>3. total = L.alias_bytes + v.nodes * NODE_BYTES
    <3>1. ~(total > MAX_ALIAS_BYTES)
      BY <1>8 DEF alias_bytes_exceeded
    <3>2. total # UsizeMax
      BY <3>1, CeilingAssumption, UsizeAssumption
    <3>. QED BY <3>2 DEF alias_bytes_total, saturating_add, alias_cost
  <2>4. Fits(M) /\ (M.err = "none" => Grown(K, M, v.nodes))
    BY <1>2, <1>5, <1>8, <2>1, <2>2, PushFits
  <2>5. M.alias_bytes = K.alias_bytes
    <3> DEFINE span == Span(FALSE, pos, known.start)
    <3>1. M = Push(K, v, span, FALSE)
      BY <1>8
    <3>. HIDE DEF span
    <3>2. IsLoader(K) /\ K.err = "none"
      BY <1>2, <1>5
    <3>. QED BY ONLY <3>1, <3>2, PushedBytes
  <2>6. M.err = "none" => Grown(L, M, v.nodes)
    BY <1>2, <2>4, GrownFrom
  <2>. QED BY <1>2, <2>1, <2>3, <2>4, <2>5, <2>6
<1>9. /\ Fits(M)
      /\ M.err = "none" => \E c \in Nat :
           Grown(L, M, c) /\ M.alias_bytes = L.alias_bytes + c * NODE_BYTES
  BY <1>3, <1>6, <1>7, <1>8
<1>. QED
  BY <1>9 DEF M

\* A frame that holds nothing yet.
Fresh(f) == \/ f.f = "seq" /\ f.items = <<>>
            \/ f.f = "key" /\ f.map = <<>> /\ f.merge_values = <<>>

LEMMA FreshFits ==
  ASSUME NEW f, Fresh(f), NEW i \in Nat, i <= Deepest
  PROVE  FrameFits(f, i) /\ FrameNodes(f) = OwnNodes(f) /\ OwnNodes(f) \in Nat
<1>1. Entries(<<>>, Room(i)) /\ Values(<<>>, Room(i)) /\ Weight(<<>>) = 0 /\ SumNodes(<<>>) = 0
  <2>1. Values(<<>>, Room(i))
    BY NoneSeq DEF Values
  <2>2. AllSized(<<>>)
    BY NoneSeq DEF AllSized
  <2>3. SumNodes(<<>>) = 0
    BY <2>2, NodesFacts, NoneSeq, SumFacts
  <2>. QED BY <2>1, <2>3, NoEntries
<1>2. OwnNodes(f) \in Nat
  BY DEF OwnNodes
<1>3. CASE f.f = "seq" /\ f.items = <<>>
  <2>1. FrameFits(f, i)
    BY <1>1, <1>3 DEF FrameFits
  <2>2. FrameNodes(f) = OwnNodes(f) + SumNodes(f.items)
    BY <1>3, <2>1, SequenceFrame
  <2>. QED BY <1>1, <1>2, <1>3, <2>1, <2>2
<1>4. CASE f.f = "key" /\ f.map = <<>> /\ f.merge_values = <<>>
  <2>1. FrameFits(f, i)
    BY <1>1, <1>4, NoneSeq DEF FrameFits
  <2>2. f.f \in {"key", "value"} /\ f.f # "value"
    BY <1>4
  <2>3. FrameNodes(f) = OwnNodes(f) + Weight(f.map) + SumNodes(f.merge_values)
                              + (IF f.f = "value" THEN 1 ELSE 0)
    BY ONLY <2>1, <2>2, i \in Nat, MappingFrame
  <2>. QED BY <1>1, <1>2, <1>4, <2>1, <2>2, <2>3
<1>. QED
  BY <1>3, <1>4 DEF Fresh

-----------------------------------------------------------------------------
(* Collections: a frame was charged when it opened, so ending it is free.  *)

LEMMA StartFits ==
  ASSUME NEW L, IsLoader(L), L.err = "none", Fits(L), L.depth = Len(L.stack),
         NEW c, c.anchor \in Anchors \cup {None},
         NEW frame, Fresh(frame), IsFrame(frame), frame.start \in Nat
  PROVE  LET M == CollectionStart(L, c, frame)
         IN  /\ Fits(M) /\ M.alias_bytes = L.alias_bytes
             /\ M.err = "none" => Grown(L, M, OwnNodes(frame))
<1> DEFINE M == CollectionStart(L, c, frame)
           D == [L EXCEPT !.depth = @ + 1]
           b == Len(L.stack)
           f == Costs(L.stack)
           g == Costs(M.stack)
<1>1. /\ IsLoader(M) /\ M.docs = L.docs /\ M.anchor_map = L.anchor_map
      /\ M.alias_bytes = L.alias_bytes
      /\ \/ M.err = "depth"
         \/ M.err = "none" /\ M.stack = Append(L.stack, frame)
  BY StartFacts
<1>2. Has(L, LoaderFields) /\ IsSeq(L.stack) /\ L.depth \in Nat
  BY DEF IsLoader
<1>3. /\ Has(D, LoaderFields) /\ D.docs = L.docs /\ D.stack = L.stack /\ D.depth = L.depth + 1
      /\ D.anchor_map = L.anchor_map /\ D.anchor_def_spans = L.anchor_def_spans
  BY <1>2 DEF Has, LoaderFields
<1>4. IsLoader(D) /\ Fits(D)
  <2>. HIDE DEF D
  <2>1. IsLoader(D)
    BY <1>2, <1>3 DEF IsLoader
  <2>. QED BY <1>3, <2>1, SameFits
<1>5. \/ depth_exceeded(D.depth, MaxDepth) /\ M = Fail(D, "depth", 0)
      \/ ~depth_exceeded(D.depth, MaxDepth)
  BY DEF CollectionStart
<1>6. ~depth_exceeded(D.depth, MaxDepth) => M.err = "none"
  <2>1. IsLoader(D) /\ D.err = L.err
    BY <1>2, <1>4 DEF Has, LoaderFields
  <2>. HIDE DEF D
  <2>2. DefineSpan(D, c.anchor, frame.start).err = "none" /\ IsLoader(DefineSpan(D, c.anchor, frame.start))
    BY <2>1, DefineSpanFacts, ZenonT(60)
  <2>3. ~depth_exceeded(D.depth, MaxDepth) =>
          M = [DefineSpan(D, c.anchor, frame.start) EXCEPT !.stack = Append(@, frame)]
    BY DEF CollectionStart, D
  <2>. HIDE DEF M
  <2>. QED BY <2>2, <2>3 DEF IsLoader, Has, LoaderFields
<1>. HIDE DEF M, D
<1>7. ASSUME M = Fail(D, "depth", 0) PROVE Fits(M) /\ M.err # "none"
  BY <1>4, <1>7, FailFits, FailFacts
<1>8. ASSUME ~depth_exceeded(D.depth, MaxDepth) PROVE Fits(M) /\ Grown(L, M, OwnNodes(frame))
  <2>1. /\ M.stack = Append(L.stack, frame) /\ b \in Nat
        /\ Len(M.stack) = b + 1 /\ M.stack[b + 1] = frame
        /\ \A i \in 1 .. b : M.stack[i] = L.stack[i]
    <3>1. M.stack = Append(L.stack, frame)
      BY <1>1, <1>6, <1>8
    <3>. QED BY <1>2, <3>1, AppendSeq, SeqFacts
  <2>2. b + 1 <= Deepest
    BY <1>2, <1>3, <1>8, <2>1, RoomFacts DEF depth_exceeded, Deepest
  <2>3. /\ FrameFits(frame, b + 1) /\ FrameNodes(frame) = OwnNodes(frame)
        /\ OwnNodes(frame) \in Nat
    BY <2>1, <2>2, FreshFits
  <2>4. \A i \in 1 .. b + 1 : i \in 1 .. b \/ i = b + 1
    BY <2>1
  <2>5. Fits(M)
    BY <1>1, <2>1, <2>3, <2>4 DEF Fits
  <2>6. /\ Load(L.stack) = SumTo(f, b)
        /\ \A i \in 1 .. b : f[i] = FrameNodes(L.stack[i])
    BY LoadFacts
  <2>7. /\ Load(M.stack) = SumTo(g, b + 1)
        /\ \A i \in 1 .. b + 1 : g[i] = FrameNodes(M.stack[i])
    BY <1>1, <2>1, <2>5, LoadFacts
  <2>8. b + 1 \in 1 .. b + 1 /\ b + 1 # 0 /\ b + 1 - 1 = b /\ b + 1 \in Nat
        /\ \A i \in 1 .. b : i \in 1 .. b + 1
    BY <2>1
  <2>9. M.stack # <<>>
    BY <2>1, <2>8, NoneSeq
  <2>10. \A i \in 1 .. b : g[i] = f[i]
    BY <2>1, <2>6, <2>7, <2>8
  <2>11. Load(L.stack) \in Nat
    BY LoadFacts
  <2>. HIDE DEF b, f, g
  <2>12. SumTo(g, b) = SumTo(f, b)
    BY <2>1, <2>10, SumSame
  <2>13. SumTo(g, b + 1) = SumTo(g, b) + g[b + 1]
    <3> DEFINE k == b + 1
    <3>1. k \in Nat /\ k # 0 /\ k - 1 = b
      BY <2>1, <2>8
    <3>. HIDE DEF k
    <3>2. SumTo(g, k) = SumTo(g, k - 1) + g[k]
      BY <3>1, SumFacts
    <3>. QED BY <3>1, <3>2 DEF k
  <2>14. g[b + 1] = OwnNodes(frame)
    BY <2>1, <2>3, <2>7, <2>8
  <2>15. Load(M.stack) = Load(L.stack) + OwnNodes(frame)
    BY <2>6, <2>7, <2>12, <2>13, <2>14
  <2>16. Load(M.stack) \in Nat /\ Load(M.stack) <= Load(L.stack) + OwnNodes(frame)
    BY <2>3, <2>11, <2>15, SMT
  <2>. QED BY <2>5, <2>9, <2>16 DEF Grown
<1>9. Fits(M) /\ (M.err = "none" => Grown(L, M, OwnNodes(frame)))
  BY <1>5, <1>7, <1>8
<1>. QED
  BY <1>1, <1>9 DEF M

LEMMA PopFits ==
  ASSUME NEW L, IsLoader(L), Fits(L), L.stack # <<>>
  PROVE  /\ Fits(Pop(L)) /\ Len(Pop(L).stack) = Len(L.stack) - 1
         /\ Load(L.stack) = Load(Pop(L).stack) + FrameNodes(Last(L.stack))
         /\ Load(Pop(L).stack) \in Nat /\ FrameNodes(Last(L.stack)) \in Nat
<1> DEFINE M == Pop(L)
           b == Len(L.stack)
           f == Costs(L.stack)
           g == Costs(M.stack)
<1>1. /\ IsLoader(M) /\ M.docs = L.docs /\ M.anchor_map = L.anchor_map
      /\ Len(M.stack) = b - 1 /\ \A i \in 1 .. b - 1 : M.stack[i] = L.stack[i]
  BY PopFacts
<1>2. b \in Nat /\ b # 0 /\ b - 1 \in Nat /\ b \in 1 .. b /\ Last(L.stack) = L.stack[b]
  BY TopFrame
<1>3. \A i \in 1 .. b - 1 : i \in 1 .. b
  BY <1>2
<1>. HIDE DEF M
<1>4. Fits(M)
  BY <1>1, <1>3 DEF Fits
<1>5. /\ Load(L.stack) = SumTo(f, b)
      /\ \A i \in 1 .. b : f[i] = FrameNodes(L.stack[i]) /\ f[i] \in Nat
  BY LoadFacts
<1>6. /\ Load(M.stack) = SumTo(g, b - 1) /\ Load(M.stack) \in Nat
      /\ \A i \in 1 .. b - 1 : g[i] = FrameNodes(M.stack[i])
  BY <1>1, <1>4, LoadFacts
<1>7. \A i \in 1 .. b - 1 : g[i] = f[i]
  BY <1>1, <1>3, <1>5, <1>6
<1>. HIDE DEF b, f, g
<1>8. SumTo(g, b - 1) = SumTo(f, b - 1)
  BY <1>2, <1>7, SumSame
<1>9. SumTo(f, b) = SumTo(f, b - 1) + f[b]
  BY <1>2, SumFacts
<1>10. Fits(M) /\ Len(M.stack) = b - 1 /\ Load(L.stack) = Load(M.stack) + FrameNodes(Last(L.stack))
       /\ Load(M.stack) \in Nat /\ FrameNodes(Last(L.stack)) \in Nat
  BY <1>1, <1>2, <1>4, <1>5, <1>6, <1>8, <1>9
<1>. QED
  BY <1>10 DEF M, b

\* A collection built from the i-th frame, before its tag wraps it.
ValueFields == {"t", "parts", "key", "pairs", "nodes", "height", "mergeable"}

Measured(inner, f, i) ==
  /\ Has(inner, ValueFields) /\ Valued(inner) /\ inner.height < Room(i - 1)
  /\ inner.nodes + (IF f.tag THEN 1 ELSE 0) <= FrameNodes(f)

LEMMA Wrapped ==
  ASSUME NEW inner, NEW f, NEW i, Measured(inner, f, i), FrameNodes(f) \in Nat
  PROVE  LET v == wrap_with_tag(inner, f.tag)
         IN  Valued(v) /\ v.height < Room(i - 1) /\ v.nodes <= FrameNodes(f)
<1> DEFINE v == wrap_with_tag(inner, f.tag)
<1>1. inner.nodes \in Nat \ {0} /\ inner.height \in Nat
  BY DEF Measured, Valued, Sized
<1>2. CASE f.tag
  <2>1. v = [inner EXCEPT !.t = "Tagged", !.parts = <<inner>>, !.pairs = <<>>,
                          !.nodes = @ + 1, !.mergeable = FALSE]
    BY <1>2 DEF wrap_with_tag
  <2>. HIDE DEF v
  <2>2. v.pairs = <<>> /\ v.nodes = inner.nodes + 1 /\ v.height = inner.height
    BY <2>1 DEF Measured, Has, ValueFields
  <2>3. v.nodes \in Nat \ {0} /\ v.nodes <= FrameNodes(f)
    BY <1>1, <1>2, <2>2 DEF Measured
  <2>4. Entries(v.pairs, v.height) /\ Weight(v.pairs) = 0
    BY <2>2, NoEntries
  <2>5. Weight(v.pairs) <= v.nodes
    BY <2>3, <2>4
  <2>6. Valued(v)
    BY <1>1, <2>2, <2>3, <2>4, <2>5 DEF Valued, Sized
  <2>7. Valued(v) /\ v.height < Room(i - 1) /\ v.nodes <= FrameNodes(f)
    BY <2>2, <2>3, <2>6 DEF Measured
  <2>. QED BY <2>7 DEF v
<1>3. CASE ~f.tag
  <2>1. v = inner
    BY <1>3 DEF wrap_with_tag
  <2>. HIDE DEF v
  <2>2. Valued(v) /\ v.height < Room(i - 1) /\ v.nodes <= FrameNodes(f)
    BY <1>1, <1>3, <2>1 DEF Measured
  <2>. QED BY <2>2 DEF v
<1>. QED
  BY <1>2, <1>3

LEMMA CompletedFits ==
  ASSUME NEW L, IsLoader(L), L.err = "none", Fits(L), L.stack # <<>>,
         NEW inner, Measured(inner, Last(L.stack), Len(L.stack))
  PROVE  LET M == Completed(L, Last(L.stack), inner)
         IN  /\ Fits(M) /\ M.alias_bytes = L.alias_bytes
             /\ M.err = "none" => Grown(L, M, 0)
<1> DEFINE f == Last(L.stack)
           v == wrap_with_tag(inner, f.tag)
           J == Pop(L)
           K == DefineAnchor(J, f.anchor, v, f.start)
           M == Completed(L, f, inner)
           span == Span(FALSE, f.start, f.start)
<1>1. f.anchor \in Anchors \cup {None}
  BY TopFrame DEF IsFrame
<1>2. IsLoader(J) /\ J.err = L.err /\ J.alias_bytes = L.alias_bytes
  BY PopFacts
<1>3. /\ Fits(J) /\ Len(J.stack) = Len(L.stack) - 1
      /\ Load(L.stack) = Load(J.stack) + FrameNodes(f)
      /\ Load(J.stack) \in Nat /\ FrameNodes(f) \in Nat
  BY PopFits
<1>4. Valued(v) /\ v.height < Room(Len(L.stack) - 1) /\ v.nodes <= FrameNodes(f)
  BY <1>3, Wrapped
<1>5. M = Push(K, v, span, FALSE)
  BY DEF Completed
<1>6. v.nodes \in Nat
  BY <1>4 DEF Valued, Sized
<1>. HIDE DEF v, J, f, span, M
<1>7. /\ IsLoader(K) /\ K.stack = J.stack /\ K.err = J.err /\ K.alias_bytes = J.alias_bytes
  <2>1. IsLoader(K) /\ SpanKeeps(J, K)
    BY <1>1, <1>2, DefineAnchorKeeps
  <2>. QED BY <2>1 DEF SpanKeeps
<1>8. Fits(K)
  BY <1>1, <1>2, <1>3, <1>4, DefineFits
<1>. HIDE DEF K
<1>9. v.height < Room(Len(K.stack)) /\ K.err = "none"
  BY <1>2, <1>3, <1>4, <1>7
<1>10. Fits(M) /\ (M.err = "none" => Grown(K, M, v.nodes))
  BY <1>4, <1>5, <1>7, <1>8, <1>9, PushFits
<1>11. M.alias_bytes = K.alias_bytes
  BY ONLY <1>5, <1>7, <1>9, PushedBytes
<1>12. Load(K.stack) + v.nodes <= Load(L.stack) + 0
  BY <1>3, <1>4, <1>6, <1>7
<1>13. ASSUME Grown(K, M, v.nodes) PROVE Grown(L, M, 0)
  <2>2. Load(K.stack) \in Nat /\ Load(L.stack) \in Nat
    BY <1>3, <1>7
  <2>. QED BY <1>6, <1>12, <1>13, <2>2 DEF Grown
<1>14. Fits(M) /\ M.alias_bytes = L.alias_bytes /\ (M.err = "none" => Grown(L, M, 0))
  BY <1>2, <1>7, <1>10, <1>11, <1>13
<1>. QED
  BY <1>14 DEF M, f

\* A frame is charged for its collection, which is one taller than its values.
LEMMA SequenceMeasured ==
  ASSUME NEW f, f.f = "seq", NEW i \in Nat, i # 0, FrameFits(f, i)
  PROVE  Measured(SequenceOf(f.items), f, i)
<1> DEFINE inner == SequenceOf(f.items)
           vs == f.items
           h == 1 + MaxHeight(vs)
<1>1. /\ Has(inner, ValueFields) /\ inner.pairs = FlattenSeq(Offers(vs))
      /\ inner.nodes = 1 + SumNodes(vs) /\ inner.height = h
  BY DEF SequenceOf, Offers, Has, ValueFields
<1>2. /\ Values(vs, Room(i)) /\ Held(f) = vs
  BY DEF FrameFits, Held
<1>3. /\ SumNodes(vs) \in Nat /\ FrameNodes(f) = OwnNodes(f) + SumNodes(vs)
      /\ MaxHeight(vs) < Room(i) /\ MaxHeight(vs) \in Nat
  BY <1>2, SequenceFrame
<1>4. Room(i) \in Nat /\ Room(i - 1) = Room(i) + 1
  BY RoomFacts DEF FrameFits
<1>. HIDE DEF inner, vs, h
<1>5. AllSized(vs)
  BY <1>2, ValuesSized
<1>6. h \in Nat /\ h = 1 + MaxHeight(vs)
  BY <1>3 DEF h
<1>7. Values(vs, h)
  <2>1. \A k \in 1 .. Len(vs) : vs[k].height < h
    <3>. TAKE k \in 1 .. Len(vs)
    <3>1. vs[k].height <= MaxHeight(vs) /\ vs[k].height \in Nat
      BY <1>5, HeightFacts DEF AllSized, Sized
    <3>. QED BY <1>3, <1>6, <3>1
  <2>. QED BY <1>2, <2>1 DEF Values
<1>8. Entries(inner.pairs, inner.height) /\ Weight(inner.pairs) <= SumNodes(vs)
  BY <1>1, <1>6, <1>7, FlattenWeight
<1>9. Weight(inner.pairs) \in Nat
  BY <1>8, EntriesFacts
<1>10. inner.nodes \in Nat \ {0} /\ Weight(inner.pairs) <= inner.nodes
  BY <1>1, <1>3, <1>8, <1>9
<1>11. Valued(inner)
  BY <1>1, <1>6, <1>8, <1>10 DEF Valued, Sized
<1>12. inner.height < Room(i - 1)
  BY <1>1, <1>3, <1>4, <1>6
<1>13. inner.nodes + (IF f.tag THEN 1 ELSE 0) <= FrameNodes(f)
  BY <1>1, <1>3 DEF OwnNodes
<1>. QED
  BY <1>1, <1>11, <1>12, <1>13 DEF Measured, inner, vs

LEMMA MappingMeasured ==
  ASSUME NEW f, f.f = "key", NEW i \in Nat, i # 0, FrameFits(f, i)
  PROVE  Measured(MappingOf(Merged(f)), f, i)
<1> DEFINE m == Merged(f)
           inner == MappingOf(m)
           s == Vals(m)
           h == 1 + MaxHeight(s)
<1>1. /\ Has(inner, ValueFields) /\ inner.pairs = m
      /\ inner.nodes = 1 + Len(m) + SumNodes(s) /\ inner.height = h
  BY DEF MappingOf, Has, ValueFields
<1>2. Entries(f.map, Room(i)) /\ Values(f.merge_values, Room(i))
  BY DEF FrameFits
<1>3. Room(i) \in Nat /\ Room(i) # 0 /\ Room(i - 1) = Room(i) + 1
  BY RoomFacts DEF FrameFits
<1>4. /\ Entries(m, Room(i))
      /\ Weight(m) <= Weight(f.map) + SumNodes(f.merge_values)
  BY <1>2, <1>3, MergedWeight
<1>5. /\ FrameNodes(f) = OwnNodes(f) + Weight(f.map) + SumNodes(f.merge_values) + 0
      /\ Weight(f.map) \in Nat /\ SumNodes(f.merge_values) \in Nat
  <2>1. f.f \in {"key", "value"} /\ f.f # "value"
    OBVIOUS
  <2>. QED BY <2>1, MappingFrame
<1>. HIDE DEF inner, m
<1>6. /\ AllSized(s) /\ Len(s) = Len(m) /\ \A k \in 1 .. Len(m) : s[k] = m[k].val
      /\ Len(m) \in Nat /\ SumNodes(s) \in Nat /\ Weight(m) = Len(m) + SumNodes(s)
  BY <1>4, EntriesFacts
<1>. HIDE DEF s, h
<1>7. MaxHeight(s) \in Nat /\ \A k \in 1 .. Len(s) : s[k].height <= MaxHeight(s)
  BY <1>6, HeightFacts
<1>8. h \in Nat /\ h = 1 + MaxHeight(s)
  BY <1>7 DEF h
<1>9. MaxHeight(s) < Room(i)
  <2>1. \A k \in 1 .. Len(s) : s[k].height < Room(i)
    BY <1>4, <1>6 DEF Entries
  <2>. QED BY <1>3, <1>6, <2>1, HeightFacts
<1>10. Entries(m, h)
  <2>1. \A k \in 1 .. Len(m) : m[k].val.height < h
    <3>. TAKE k \in 1 .. Len(m)
    <3>1. m[k].val.height <= MaxHeight(s) /\ m[k].val.height \in Nat
      BY <1>4, <1>6, <1>7 DEF Entries, Sized
    <3>. QED BY <1>7, <1>8, <3>1
  <2>. QED BY <1>4, <2>1 DEF Entries
<1>11. Weight(m) \in Nat /\ inner.nodes = 1 + Weight(m)
  <2>1. inner.nodes = 1 + Len(m) + SumNodes(s)
    BY <1>1
  <2>2. Len(m) \in Nat /\ SumNodes(s) \in Nat /\ Weight(m) = Len(m) + SumNodes(s)
    BY <1>6
  <2>. QED BY ONLY <2>1, <2>2
<1>12. inner.nodes \in Nat \ {0} /\ Weight(inner.pairs) <= inner.nodes
  <2>1. Weight(inner.pairs) = Weight(m)
    BY <1>1
  <2>. QED BY <1>11, <2>1
<1>13. Valued(inner)
  BY <1>1, <1>8, <1>10, <1>12 DEF Valued, Sized
<1>14. inner.height < Room(i - 1)
  BY <1>1, <1>3, <1>7, <1>8, <1>9
<1>15. inner.nodes + (IF f.tag THEN 1 ELSE 0) <= FrameNodes(f)
  BY <1>4, <1>5, <1>11 DEF OwnNodes
<1>. QED
  BY <1>1, <1>13, <1>14, <1>15 DEF Measured, inner, m

LEMMA SequenceEndFits ==
  ASSUME NEW L, IsLoader(L), L.err = "none", Fits(L), L.stack # <<>>,
         Last(L.stack).f = "seq", NEW pos
  PROVE  LET M == SequenceEnd(L, pos)
         IN  /\ Fits(M) /\ M.alias_bytes = L.alias_bytes
             /\ M.err = "none" => Grown(L, M, 0)
<1> DEFINE f == Last(L.stack)
           i == Len(L.stack)
           inner == SequenceOf(f.items)
<1>1. f.f = "seq" /\ FrameFits(f, i) /\ i \in Nat /\ i # 0
  BY TopFits
<1>2. SequenceEnd(L, pos) = Completed(L, f, inner)
  BY DEF SequenceEnd, Innermost
<1>3. Measured(inner, f, i)
  <2>. HIDE DEF f, i
  <2>. QED BY <1>1, SequenceMeasured
<1>. HIDE DEF inner
<1>. QED
  BY <1>2, <1>3, CompletedFits

LEMMA MappingEndFits ==
  ASSUME NEW L, IsLoader(L), L.err = "none", Fits(L), L.stack # <<>>,
         Last(L.stack).f = "key", NEW pos
  PROVE  LET M == MappingEnd(L, pos)
         IN  /\ Fits(M) /\ M.alias_bytes = L.alias_bytes
             /\ M.err = "none" => Grown(L, M, 0)
<1> DEFINE f == Last(L.stack)
           i == Len(L.stack)
           inner == MappingOf(Merged(f))
           M == MappingEnd(L, pos)
<1>1. f.f = "key" /\ FrameFits(f, i) /\ i \in Nat /\ i # 0
  BY TopFits
<1>2. M = Fail(Pop(L), "scalar_in_merge", 0) \/ M = Completed(L, f, inner)
  BY DEF MappingEnd, Innermost
<1>3. Measured(inner, f, i)
  <2>. HIDE DEF f, i
  <2>. QED BY <1>1, MappingMeasured
<1>. HIDE DEF inner, M
<1>4. ASSUME M = Fail(Pop(L), "scalar_in_merge", 0)
      PROVE  Fits(M) /\ M.alias_bytes = L.alias_bytes /\ M.err # "none"
  <2>1. IsLoader(Pop(L)) /\ Fits(Pop(L)) /\ Pop(L).alias_bytes = L.alias_bytes
    BY PopFacts, PopFits
  <2>2. Fits(M)
    BY <1>4, <2>1, FailFits
  <2>3. M.err = "scalar_in_merge" /\ Keeps(Pop(L), M)
    BY <1>4, <2>1, FailFacts
  <2>. QED BY <2>1, <2>2, <2>3 DEF Keeps
<1>5. ASSUME M = Completed(L, f, inner)
      PROVE  Fits(M) /\ M.alias_bytes = L.alias_bytes /\ (M.err = "none" => Grown(L, M, 0))
  BY <1>3, <1>5, CompletedFits
<1>6. Fits(M) /\ M.alias_bytes = L.alias_bytes /\ (M.err = "none" => Grown(L, M, 0))
  BY <1>2, <1>4, <1>5
<1>. QED
  BY <1>6 DEF M

-----------------------------------------------------------------------------
(* What the document costs, and what was charged for it.                   *)

\* The Values of the document under construction.
Owed(L, ph) == (IF ph = "rooted" THEN Last(L.docs).val.nodes ELSE 0) + Load(L.stack)

\* p Values were charged as events and k as copies.
Spent(L, ph, p) ==
  L.err = "none" /\ L.in_document =>
    \E k \in Nat : L.alias_bytes = k * NODE_BYTES /\ Owed(L, ph) <= p + k

TreeFits == Fits(full) /\ paid \in Nat /\ Spent(full, phase, paid)

\* A node that costs w + c, of which w are charged as events and c as copies.
LEMMA Charged ==
  ASSUME NEW L, NEW M, IsLoader(L), Fits(L), IsLoader(M), Fits(M), L.err = "none", L.in_document,
         NEW ph \in {"root", "inside"}, NEW ph2 \in {"inside", "rooted"},
         M.err = "none" => (ph2 = "inside" <=> M.stack # <<>>),
         NEW p \in Nat, NEW w \in Nat, NEW c \in Nat, Spent(L, ph, p),
         M.err = "none" => /\ Grown(L, M, w + c)
                           /\ M.alias_bytes = L.alias_bytes + c * NODE_BYTES
  PROVE  Spent(M, ph2, p + w)
<1>. SUFFICES ASSUME M.err = "none"
              PROVE  \E k \in Nat : M.alias_bytes = k * NODE_BYTES /\ Owed(M, ph2) <= p + w + k
  BY DEF Spent
<1>1. PICK k \in Nat : L.alias_bytes = k * NODE_BYTES /\ Owed(L, ph) <= p + k
  BY DEF Spent
<1>2. Load(L.stack) \in Nat /\ Load(M.stack) \in Nat /\ (M.stack = <<>> => Load(M.stack) = 0)
  BY LoadFacts
<1>3. Owed(L, ph) = Load(L.stack)
  BY <1>2 DEF Owed
<1>4. Owed(M, ph2) <= Load(L.stack) + (w + c)
  BY <1>2 DEF Owed, Grown
<1>5. Owed(M, ph2) \in Nat
  BY <1>2 DEF Owed, Grown
<1>6. k + c \in Nat /\ M.alias_bytes = (k + c) * NODE_BYTES
  <2>1. NODE_BYTES \in Nat
    BY LoaderAssumption
  <2>2. (k + c) * NODE_BYTES = k * NODE_BYTES + c * NODE_BYTES
    BY <2>1
  <2>. QED BY <1>1, <2>2
<1>7. Owed(M, ph2) <= p + w + (k + c)
  BY <1>1, <1>2, <1>3, <1>4, <1>5
<1>. QED
  BY <1>6, <1>7

LEMMA Divided ==
  ASSUME NEW k \in Nat
  PROVE  (k * NODE_BYTES) \div NODE_BYTES = k
BY LoaderAssumption

LEMMA FitsBounded ==
  ASSUME IInv, TreeFits
  PROVE  TreeBounded
<1>1. Fits(full) /\ paid \in Nat /\ Spent(full, phase, paid) /\ IsLoader(full)
  BY DEF TreeFits, IInv, Good, Together
<1>2. IsSeq(full.docs) /\ IsSeq(full.stack)
  BY <1>1 DEF IsLoader
<1>3. DOMAIN full.docs = 1 .. Len(full.docs) /\ DOMAIN full.stack = 1 .. Len(full.stack)
  BY <1>2, SeqFacts
<1>4. ASSUME NEW i \in DOMAIN full.docs
      PROVE  ~depth_exceeded(full.docs[i].val.height, MaxDepth)
  <2>1. full.docs[i].val.height \in Nat /\ full.docs[i].val.height <= Deepest
    BY <1>1, <1>3 DEF Fits, Sized
  <2>. QED BY <2>1, RoomFacts DEF depth_exceeded, Deepest
<1>5. ASSUME NEW i \in DOMAIN full.stack
      PROVE  ~depth_exceeded(i + MaxHeight(Held(full.stack[i])), MaxDepth)
  <2> DEFINE f == full.stack[i]
             h == MaxHeight(Held(f))
  <2>1. FrameFits(f, i) /\ f.f \in {"seq", "key", "value"} /\ i \in Nat
    BY <1>1, <1>2, <1>3, SeqFacts DEF Fits, IsLoader, IsFrame
  <2>2. AllSized(Held(f)) /\ h < Room(i)
    <3>. HIDE DEF f
    <3>. QED BY <2>1, SequenceFrame, MappingFrame
  <2>3. h \in Nat
    <3>. HIDE DEF f
    <3>. QED BY <2>2, HeightFacts
  <2>. HIDE DEF h
  <2>4. ~(i + h > Deepest)
    BY <2>1, <2>2, <2>3, RoomFacts DEF Room
  <2>. QED BY <2>4 DEF depth_exceeded, Deepest, h
<1>6. DepthBounded
  BY <1>4, <1>5 DEF DepthBounded
<1>7. PaidFor
  <2>. SUFFICES ASSUME full.err = "none", full.in_document
                PROVE  Owed(full, phase) <= paid + full.alias_bytes \div NODE_BYTES
    BY DEF PaidFor, Owed, Load, Costs
  <2>1. PICK k \in Nat : full.alias_bytes = k * NODE_BYTES /\ Owed(full, phase) <= paid + k
    BY <1>1 DEF Spent
  <2>2. full.alias_bytes \div NODE_BYTES = k
    BY <2>1, Divided
  <2>. QED BY <2>1, <2>2
<1>. QED
  BY <1>6, <1>7 DEF TreeBounded

LEMMA InitFits == Init => TreeFits
<1>. SUFFICES ASSUME Init PROVE TreeFits
  OBVIOUS
<1>1. full = NewLoader(TRUE) /\ paid = 0
  BY DEF Init
<1>2. /\ full.stack = <<>> /\ full.anchor_map = NoAnchors /\ full.docs = <<>>
      /\ full.in_document = FALSE
  BY <1>1, NewFacts
<1>3. DOMAIN full.anchor_map = {} /\ Len(full.stack) = 0 /\ Len(full.docs) = 0
  BY <1>2, NoneSeq DEF NoAnchors
<1>4. Fits(full)
  BY <1>3 DEF Fits
<1>. QED
  BY <1>1, <1>2, <1>4 DEF TreeFits, Spent

LEMMA NextFits == IInv /\ TreeFits /\ [Next]_vars => TreeFits'
<1>. SUFFICES ASSUME IInv, TreeFits, [Next]_vars PROVE TreeFits'
  OBVIOUS
<1>1. (\E s \in Setups : input = s.input) /\ n \in Nat /\ Good(full, bare, phase, open, doc, latest)
  BY DEF IInv
<1>2. Fits(full) /\ paid \in Nat /\ Spent(full, phase, paid)
  BY DEF TreeFits
<1>3. CASE UNCHANGED vars
  BY <1>2, <1>3 DEF vars, gvars, TreeFits
<1>4. CASE Next
  <2>1. full.err = "none" /\ n' = n + 1
    BY <1>4 DEF Next
  <2>2. SUFFICES Fits(full') /\ paid' \in Nat /\ Spent(full', phase', paid')
    BY DEF TreeFits
  <2>3. /\ n' \in Nat /\ IsLoader(full) /\ (full.in_document <=> phase \in InDocument)
        /\ full.depth = Len(full.stack)
    BY <1>1, <2>1 DEF Good, Together, Follows, Match
  <2>4. /\ IsLoader(full')
        /\ full'.err = "none" => (phase' = "inside" <=> full'.stack # <<>>)
    <3>1. Good(full', bare', phase', open', doc', latest')
      BY <1>4, NextInv DEF IInv
    <3>2. IsLoader(full')
      BY <3>1 DEF Good, Together
    <3>3. ASSUME full'.err = "none" PROVE phase' = "inside" <=> full'.stack # <<>>
      BY <3>1, <3>3, GoodFacts
    <3>. QED BY <3>2, <3>3
  <2>5. ASSUME phase \in {"root", "inside"}, phase' \in {"inside", "rooted"},
               Fits(full'), NEW w \in Nat, paid' = paid + w,
               full'.err = "none" => \E c \in Nat :
                 Grown(full, full', w + c) /\ full'.alias_bytes = full.alias_bytes + c * NODE_BYTES
        PROVE  Fits(full') /\ paid' \in Nat /\ Spent(full', phase', paid')
    <3>1. full.in_document
      BY <2>3, <2>5 DEF InDocument
    <3>2. paid' \in Nat
      BY <1>2, <2>5
    <3>3. CASE full'.err # "none"
      BY <2>5, <3>2, <3>3 DEF Spent
    <3>4. CASE full'.err = "none"
      <4>1. PICK c \in Nat :
              Grown(full, full', w + c) /\ full'.alias_bytes = full.alias_bytes + c * NODE_BYTES
        BY <2>5, <3>4
      <4>2. Spent(full', phase', paid + w)
        BY <1>2, <2>1, <2>3, <2>4, <2>5, <3>1, <4>1, Charged
      <4>. QED BY <2>5, <3>2, <4>2
    <3>. QED BY <3>3, <3>4
  <2>6. ASSUME phase \in {"root", "inside"}, phase' \in {"inside", "rooted"},
               Fits(full'), NEW w \in Nat, paid' = paid + w,
               full'.err = "none" => Grown(full, full', w), full'.alias_bytes = full.alias_bytes
        PROVE  Fits(full') /\ paid' \in Nat /\ Spent(full', phase', paid')
    <3>1. PICK k \in Nat : full.alias_bytes = k * NODE_BYTES
      <4>1. full.in_document
        BY <2>3, <2>6 DEF InDocument
      <4>. QED BY <1>2, <2>1, <4>1 DEF Spent
    <3>2. full.alias_bytes \in Nat
      <4>1. NODE_BYTES \in Nat
        BY LoaderAssumption
      <4>. QED BY <3>1, <4>1
    <3>3. w + 0 = w /\ full'.alias_bytes = full.alias_bytes + 0 * NODE_BYTES /\ 0 \in Nat
      BY <2>6, <3>2, LoaderAssumption
    <3>4. full'.err = "none" => Grown(full, full', w + 0)
      BY <2>6, <3>3
    <3>. QED BY <2>5, <2>6, <3>3, <3>4
  <2>7. CASE StreamEvent
    <3>1. /\ phase \in {"start", "between"} /\ full' = full /\ paid' = paid
      BY <2>7 DEF StreamEvent, StartStream, EndStream
    <3>2. ~full.in_document
      BY <2>3, <3>1 DEF InDocument
    <3>. QED BY <1>2, <3>1, <3>2 DEF Spent
  <2>8. CASE DocumentStartEvent
    <3>1. full' = DocumentStart(full) /\ paid' = 0 /\ phase = "between" /\ phase' = "root"
      BY <2>8 DEF DocumentStartEvent, StartDocument
    <3>2. /\ full'.stack = full.stack /\ full'.anchor_map = NoAnchors /\ full'.docs = full.docs
          /\ full'.alias_bytes = 0
      BY <2>3, <3>1, DocumentStartFacts
    <3>3. DOMAIN full'.anchor_map = {}
      BY <3>2 DEF NoAnchors
    <3>4. Fits(full')
      BY <1>2, <3>2, <3>3 DEF Fits
    <3>5. full.stack = <<>>
      BY <1>1, <2>1, <3>1, GoodFacts
    <3>6. Load(full'.stack) = 0
      BY <1>2, <2>3, <3>2, <3>5, LoadFacts
    <3>7. Owed(full', phase') = 0
      BY <3>1, <3>6 DEF Owed
    <3>8. full'.alias_bytes = 0 * NODE_BYTES /\ Owed(full', phase') <= 0 + 0
      BY <3>2, <3>7, LoaderAssumption
    <3>. QED BY <3>1, <3>4, <3>8 DEF Spent
  <2>9. CASE DocumentEndEvent
    <3>1. full' = DocumentEnd(full) /\ paid' = paid
      BY <2>9 DEF DocumentEndEvent
    <3>2. /\ full'.stack = full.stack /\ full'.anchor_map = full.anchor_map
          /\ full'.docs = full.docs /\ full'.in_document = FALSE
      BY <2>3, <3>1, DocumentEndFacts
    <3>. QED BY <1>2, <3>1, <3>2, SameFits DEF Spent
  <2>10. CASE AliasEvent
    <3>1. PICK a \in input.aliases : full' = resolve_alias(full, a, n')
      BY <2>10 DEF AliasEvent
    <3>2. phase \in {"root", "inside"} /\ phase' \in {"inside", "rooted"} /\ paid' = paid
      BY <2>10 DEF AliasEvent, Leaf
    <3>3. full.in_document
      BY <2>3, <3>2 DEF InDocument
    <3>4. /\ Fits(full')
          /\ full'.err = "none" => \E c \in Nat :
               Grown(full, full', c) /\ full'.alias_bytes = full.alias_bytes + c * NODE_BYTES
      BY <1>2, <2>1, <2>3, <3>1, <3>3, AliasFits
    <3>5. paid' = paid + 0 /\ \A c \in Nat : 0 + c = c
      BY <1>2, <3>2
    <3>6. full'.err = "none" => \E c \in Nat :
            Grown(full, full', 0 + c) /\ full'.alias_bytes = full.alias_bytes + c * NODE_BYTES
      BY <3>4, <3>5
    <3>. QED BY <2>5, <3>2, <3>4, <3>5, <3>6
  <2>11. CASE ScalarEvent
    <3>1. PICK s \in input.scalars : full' = Scalar(full, s, n') /\ paid' = paid + s.val.nodes
      BY <2>11 DEF ScalarEvent
    <3>2. phase \in {"root", "inside"} /\ phase' \in {"inside", "rooted"}
      BY <2>11 DEF ScalarEvent, Leaf
    <3>3. s.anchor \in Anchors \cup {None}
      BY <1>1, NodeAnchors
    <3>4. s.val = Atom(s.val.t, s.val.key)
      BY <1>1, SetupsAssumption
    <3>5. s.val.pairs = <<>> /\ s.val.nodes = 1 /\ s.val.height = 0
      BY ONLY <3>4 DEF Atom
    <3> DEFINE v == s.val
    <3>6. Valued(v)
      <4>1. v.pairs = <<>> /\ v.nodes = 1 /\ v.height = 0
        BY <3>5
      <4>. HIDE DEF v
      <4>2. Entries(v.pairs, v.height) /\ Weight(v.pairs) = 0
        BY <4>1, NoEntries
      <4>. QED BY <4>1, <4>2 DEF Valued, Sized
    <3>7. Len(full.stack) <= Deepest
      <4>1. CASE full.stack = <<>>
        BY <4>1, NoneSeq, RoomFacts
      <4>2. CASE full.stack # <<>>
        BY <1>2, <2>3, <4>2, TopFits DEF FrameFits
      <4>. QED BY <4>1, <4>2
    <3>8. /\ Fits(full') /\ full'.alias_bytes = full.alias_bytes
          /\ full'.err = "none" => Grown(full, full', 1)
      BY <1>2, <2>1, <2>3, <3>1, <3>3, <3>5, <3>6, <3>7, ScalarFits
    <3>. QED BY <2>6, <3>1, <3>2, <3>5, <3>8
  <2>12. ASSUME phase \in {"root", "inside"}, phase' = "inside",
                NEW c, c.anchor \in Anchors \cup {None},
                NEW frame, IsFrame(frame), Fresh(frame), frame.start = n', frame.tag = c.tag,
                Started(c, frame)
         PROVE  Fits(full') /\ paid' \in Nat /\ Spent(full', phase', paid')
    <3>1. full' = CollectionStart(full, c, frame)
      BY <2>12 DEF Started
    <3>2. paid' = paid + OwnNodes(frame) /\ OwnNodes(frame) \in Nat
      BY <2>12 DEF Started, OwnNodes
    <3>3. /\ Fits(full') /\ full'.alias_bytes = full.alias_bytes
          /\ full'.err = "none" => Grown(full, full', OwnNodes(frame))
      BY <1>2, <2>1, <2>3, <2>12, <3>1, StartFits
    <3>. QED BY <2>6, <2>12, <3>2, <3>3
  <2>13. CASE SequenceStartEvent
    <3>1. PICK c \in input.sequences : Started(c, SeqFrame(c.anchor, c.tag, n'))
      BY <2>13 DEF SequenceStartEvent
    <3> DEFINE frame == SeqFrame(c.anchor, c.tag, n')
    <3>2. c.anchor \in Anchors \cup {None}
      BY <1>1, NodeAnchors
    <3>3. /\ Has(frame, SeqFields) /\ frame.f = "seq" /\ frame.start = n'
          /\ frame.anchor = c.anchor /\ frame.items = <<>> /\ frame.tag = c.tag
      BY DEF SeqFrame, Has, SeqFields
    <3>4. phase \in {"root", "inside"} /\ phase' = "inside"
      BY <2>13 DEF SequenceStartEvent, Begin
    <3>5. Started(c, frame)
      BY <3>1
    <3>. HIDE DEF frame
    <3>6. IsFrame(frame) /\ Fresh(frame)
      BY <3>2, <3>3 DEF IsFrame, Fresh
    <3>. QED BY <2>12, <3>2, <3>3, <3>4, <3>5, <3>6
  <2>14. CASE MappingStartEvent
    <3>1. PICK c \in input.mappings : Started(c, MapFrame(c.anchor, c.tag, n'))
      BY <2>14 DEF MappingStartEvent
    <3> DEFINE frame == MapFrame(c.anchor, c.tag, n')
    <3>2. c.anchor \in Anchors \cup {None}
      BY <1>1, NodeAnchors
    <3>3. /\ Has(frame, MapFields) /\ frame.f = "key" /\ frame.start = n'
          /\ frame.anchor = c.anchor /\ frame.tag = c.tag
          /\ frame.map = <<>> /\ frame.merge_values = <<>>
      BY DEF MapFrame, Has, MapFields
    <3>4. phase \in {"root", "inside"} /\ phase' = "inside"
      BY <2>14 DEF MappingStartEvent, Begin
    <3>5. Started(c, frame)
      BY <3>1
    <3>. HIDE DEF frame
    <3>6. IsFrame(frame) /\ Fresh(frame)
      BY <3>2, <3>3 DEF IsFrame, Fresh
    <3>. QED BY <2>12, <3>2, <3>3, <3>4, <3>5, <3>6
  <2>15. ASSUME NEW e, NEW c, Finish(e, c), paid' = paid, Fits(full'),
                full'.alias_bytes = full.alias_bytes,
                full'.err = "none" => Grown(full, full', 0)
         PROVE  Fits(full') /\ paid' \in Nat /\ Spent(full', phase', paid')
    <3>1. phase = "inside" /\ phase' \in {"rooted", "inside"}
      BY <2>15 DEF Finish
    <3>2. paid' = paid + 0 /\ 0 \in Nat
      BY <1>2, <2>15
    <3>. QED BY <2>6, <2>15, <3>1, <3>2
  <2>16. CASE SequenceEndEvent
    <3>1. /\ phase = "inside" /\ open[Len(open)] = "seq" /\ full' = SequenceEnd(full, n')
          /\ Finish("SequenceEnd", "seq") /\ paid' = paid
      BY <2>16 DEF SequenceEndEvent, Finish
    <3>2. full.stack # <<>> /\ Last(full.stack).f = "seq"
      BY <1>1, <2>1, <3>1, GoodFacts
    <3>3. /\ Fits(full') /\ full'.alias_bytes = full.alias_bytes
          /\ full'.err = "none" => Grown(full, full', 0)
      BY <1>2, <2>1, <2>3, <3>1, <3>2, SequenceEndFits
    <3>. QED BY <2>15, <3>1, <3>3
  <2>17. CASE MappingEndEvent
    <3>1. /\ phase = "inside" /\ open[Len(open)] = "key" /\ full' = MappingEnd(full, n')
          /\ Finish("MappingEnd", "key") /\ paid' = paid
      BY <2>17 DEF MappingEndEvent, Finish
    <3>2. full.stack # <<>> /\ Last(full.stack).f = "key"
      BY <1>1, <2>1, <3>1, GoodFacts
    <3>3. /\ Fits(full') /\ full'.alias_bytes = full.alias_bytes
          /\ full'.err = "none" => Grown(full, full', 0)
      BY <1>2, <2>1, <2>3, <3>1, <3>2, MappingEndFits
    <3>. QED BY <2>15, <3>1, <3>3
  <2>18. CASE Refused
    <3>1. full' = Fail(full, "refused", n') /\ paid' = paid
      BY <2>18 DEF Refused
    <3>2. Fits(full') /\ full'.err = "refused"
      BY <1>2, <2>3, <3>1, FailFits, FailFacts
    <3>. QED BY <1>2, <3>1, <3>2 DEF Spent
  <2>. QED
    BY <1>4, <2>7, <2>8, <2>9, <2>10, <2>11, <2>13, <2>14, <2>16, <2>17, <2>18 DEF Next
<1>. QED
  BY <1>3, <1>4

-----------------------------------------------------------------------------
(* Theorems.                                                               *)

\* In every state the frames match the events, the anchors are those of the
\* document, and the two loaders are twins.
THEOREM Invariant == Spec => []IInv
<1>. QED
  BY InitInv, NextInv, PTL DEF Spec

\* A loader's frames are the collections open in the event stream, so it
\* never meets an end event it does not expect or an alias outside a
\* document, and each document adds exactly one entry to docs.
THEOREM FramesFollow == Spec => []FramesFollowEvents
<1>1. IInv => FramesFollowEvents
  BY DEF IInv, Good, Together, Follows, Match, Impossible, InDocument, FramesFollowEvents
<1>. QED
  BY <1>1, Invariant, PTL

\* An alias means the node last completed under its anchor in the same
\* document, and the self-reference error is given exactly inside the anchor.
THEOREM AnchorsInScope == Spec => []AnchorScope
<1>1. IInv => AnchorScope
  <2>. SUFFICES ASSUME IInv, full.err = "none", phase \notin {"start", "between", "end"},
                       NEW a \in Anchors
                PROVE  /\ a \in DOMAIN full.anchor_map <=> doc > 0 /\ latest[a].doc = doc
                       /\ doc > 0 /\ latest[a].doc = doc => full.anchor_map[a].val = latest[a].val
                       /\ full.anchor_def_spans[a] # 0 <=>
                            (doc > 0 /\ latest[a].doc = doc)
                              \/ \E i \in DOMAIN full.stack : full.stack[i].anchor = a
    BY DEF AnchorScope
  <2>1. phase \in InDocument
    BY DEF IInv, Good, Ghosts
  <2>2. doc > 0 /\ Scope(full, doc, latest)
    BY <2>1 DEF IInv, Good, Ghosts
  <2>. QED BY <2>2 DEF Scope, Inside
<1>. QED
  BY <1>1, Invariant, PTL

\* NoSpanLoader builds the documents Loader builds and refuses the same
\* input for the same reason, whatever the policies and the limits.
THEOREM SameLoader == Spec => []LoadersAgree
<1>1. IInv => LoadersAgree
  BY DEF IInv, Good, Agree, LoadersAgree
<1>. QED
  BY <1>1, Invariant, PTL

\* Every mapping under construction holds what the duplicate-key policy and
\* the merge keys say of the entries met, for every document and policy: each
\* key once, in order of first appearance, with the kept value, its span and
\* the shape of its key, and behind them the first entry any merge source
\* offers under each further key.
THEOREM ByPolicy == Spec => []MappingsByPolicy
<1>1. Spec => []FramesByRule
  BY Invariant, InitBuilt, NextBuilt, PTL DEF Spec
<1>2. IInv /\ FramesByRule => MappingsByPolicy
  <2>. SUFFICES ASSUME IInv, FramesByRule, NEW i \in Mappings
                PROVE  full.stack[i].f # "seq" /\ ByRule(full.stack[i])
    <3>1. ASSUME NEW f, f.f # "seq", ByRule(f) PROVE TableOf(f)
      BY <3>1 DEF ByRule
    <3>2. ASSUME \A i \in Mappings : full.stack[i].f # "seq" /\ ByRule(full.stack[i])
          PROVE  MapByPolicy
      BY <3>1, <3>2, TablePolicy DEF MapByPolicy
    <3>3. ASSUME \A i \in Mappings : full.stack[i].f # "seq" /\ ByRule(full.stack[i])
          PROVE  MergePrecedence
      BY <3>3, MergePolicy DEF MergePrecedence
    <3>. QED BY <3>2, <3>3 DEF MappingsByPolicy
  <2>1. IsSeq(full.stack)
    BY DEF IInv, Good, Together, IsLoader
  <2>2. i \in 1 .. Len(full.stack)
    BY <2>1, SeqFacts DEF Mappings
  <2>. QED BY <2>2 DEF Mappings, FramesByRule, Built
<1>. QED
  BY <1>1, <1>2, Invariant, PTL

\* No document grows deeper than max_depth or larger than what was charged for
\* it, for every policy, limit and document: what an alias copies and what a
\* merge key spreads was checked and charged by resolve_alias.
THEOREM WithinBudgets == Spec => []TreeBounded
<1>. QED
  BY Invariant, InitFits, NextFits, FitsBounded, PTL DEF Spec

=============================================================================
