---------------------------- MODULE PostProcess -----------------------------
(* The document pipeline every loader entry point runs on a parsed value      *)
(* (de.rs post_process_document): `!include` substitution, `${...}`           *)
(* interpolation, then the value policies.                                    *)
EXTENDS Value

CONSTANTS
    Files,        \* the resolver: a function from names to [bytes, value]
    Limits        \* the budgets of the configuration

Sum(f) == FoldFunction(LAMBDA a, b : a + b, 0, f)
Tallest(f) == FoldFunction(LAMBDA a, b : IF a > b THEN a ELSE b, 0, f)

(* Collection nesting, parser nodes and scalar bytes of a value.  A tag adds  *)
(* nothing; a mapping key is a node of its own.                               *)
RECURSIVE Measure(_)
Measure(v) ==
    CASE v.kind = "tag" -> Measure(v.inner)
      [] v.kind = "seq" ->
           LET m == [i \in DOMAIN v.items |-> Measure(v.items[i])]
           IN  [height |-> 1 + Tallest([i \in DOMAIN m |-> m[i].height]),
                nodes |-> 1 + Sum([i \in DOMAIN m |-> m[i].nodes]),
                text |-> Sum([i \in DOMAIN m |-> m[i].text])]
      [] v.kind = "map" ->
           LET m == [i \in DOMAIN v.entries |-> Measure(v.entries[i][2])]
           IN  [height |-> 1 + Tallest([i \in DOMAIN m |-> m[i].height]),
                nodes |-> 1 + Len(m) + Sum([i \in DOMAIN m |-> m[i].nodes]),
                text |-> Sum([i \in DOMAIN m |-> Len(v.entries[i][1]) + m[i].text])]
      [] v.kind = "str" -> [height |-> 0, nodes |-> 1, text |-> Len(v.str)]
      [] OTHER -> [height |-> 0, nodes |-> 1, text |-> 0]

-----------------------------------------------------------------------------
(* One placeholder of a string, from position `i` on: what is written and     *)
(* where reading goes on; 0 for a syntax error or a refusal.                  *)

NameChar(c) == c \in {"a", "b", "c", "0", "1", "."}

RECURSIVE NameEnd(_, _)
NameEnd(s, j) == IF j <= Len(s) /\ NameChar(s[j]) THEN NameEnd(s, j + 1) ELSE j

parse_placeholder_token(s, start) ==
    LET j == NameEnd(s, start)
        name == SubSeq(s, start, j - 1)
        close == {x \in j + 2 .. Len(s) : s[x] = "}"}
        x == CHOOSE c \in close : \A d \in close : c <= d
    IN  CASE j > Len(s) \/ j = start \/ s[j] \notin {"}", ":"} -> [ok |-> FALSE]
          [] j <= Len(s) /\ j > start /\ s[j] = "}" ->
               [ok |-> TRUE, name |-> name, fallback |-> {}, close |-> j]
          [] j <= Len(s) /\ j > start /\ s[j] = ":" ->
               IF j = Len(s) \/ s[j + 1] # "-" \/ close = {} THEN [ok |-> FALSE]
               ELSE [ok |-> TRUE, name |-> name,
                     fallback |-> {SubSeq(s, j + 2, x - 1)}, close |-> x]

(* The property's text, else the default, else the missing action.            *)
resolve_placeholder_value(tok, props, missing) ==
    LET known == {p \in props : p.name = tok.name}
    IN  CASE known # {} -> {(CHOOSE p \in known : TRUE).text}
          [] known = {} /\ tok.fallback # {} -> tok.fallback
          [] known = {} /\ tok.fallback = {} /\ missing = "empty" -> {<<>>}
          [] OTHER -> {}

Over(n, limit) == limit >= 0 /\ n > limit

(* One left-to-right pass; what is substituted is not scanned again.          *)
RECURSIVE ExpandFrom(_, _, _, _, _, _, _)
ExpandFrom(s, i, out, props, missing, limit, base) ==
    LET at(k, c) == i + k <= Len(s) /\ s[i + k] = c
        Go(n, more) == ExpandFrom(s, n, out \o more, props, missing, limit, base)
        tok == parse_placeholder_token(s, i + 2)
        found == resolve_placeholder_value(tok, props, missing)
        text == CHOOSE t \in found : TRUE
    IN  CASE i > Len(s) -> [ok |-> TRUE, text |-> out]
          [] at(0, "$") /\ at(1, "$") -> Go(i + 2, <<"$">>)
          [] at(0, "$") /\ at(1, "{") /\ at(2, "{") -> Go(i + 3, <<"$", "{">>)
          [] at(0, "$") /\ at(1, "{") /\ ~at(2, "{") ->
               IF \/ ~tok.ok
                  \/ found = {}
                  \/ Over(base + Len(out) + Len(text), limit)
               THEN [ok |-> FALSE, text |-> s]
               ELSE Go(tok.close + 1, text)
          [] at(0, "}") /\ at(1, "}") -> Go(i + 2, <<"}">>)
          [] OTHER -> Go(i + 1, <<s[i]>>)

\* Mutant: substituted text is expanded again.
expand_placeholders_again(s, props, missing, limit, base) ==
    LET once == ExpandFrom(s, 1, <<>>, props, missing, limit, base)
    IN  IF once.ok THEN ExpandFrom(once.text, 1, <<>>, props, missing, limit, base) ELSE once

expand_placeholders(s, props, missing, limit, base) ==
    ExpandFrom(s, 1, <<>>, props, missing, limit, base)

(* The walk over the tree: strings are replaced in place, keys only charged;  *)
(* it stops at the first error, leaving what it has written.                  *)
RECURSIVE interpolate_walk(_, _, _, _, _)
RECURSIVE InterpolateAll(_, _, _, _, _, _, _)
InterpolateAll(keys, done, vs, props, missing, limit, seen) ==
    IF vs = <<>> THEN [ok |-> TRUE, vs |-> done, seen |-> seen]
    ELSE LET charged == seen + Len(keys[Len(done) + 1])
             r == interpolate_walk(Head(vs), props, missing, limit, charged)
         IN  IF Over(charged, limit) THEN [ok |-> FALSE, vs |-> done \o vs, seen |-> charged]
             ELSE IF ~r.ok THEN [ok |-> FALSE, vs |-> Append(done, r.v) \o Tail(vs), seen |-> r.seen]
             ELSE InterpolateAll(keys, Append(done, r.v), Tail(vs), props, missing, limit, r.seen)

interpolate_walk(v, props, missing, limit, seen) ==
    CASE v.kind = "str" ->
           LET e == expand_placeholders(v.str, props, missing, limit, seen)
               total == seen + Len(e.text)
           IN  [ok |-> e.ok /\ ~Over(total, limit), v |-> Str(e.text), seen |-> total]
      [] v.kind = "tag" ->
           LET r == interpolate_walk(v.inner, props, missing, limit, seen)
           IN  [r EXCEPT !.v = Tagged(v.tag, @)]
      [] v.kind = "seq" ->
           LET r == InterpolateAll([i \in DOMAIN v.items |-> <<>>], <<>>, v.items,
                                   props, missing, limit, seen)
           IN  [ok |-> r.ok, v |-> Sequence(r.vs), seen |-> r.seen]
      [] v.kind = "map" ->
           LET keys == [i \in DOMAIN v.entries |-> v.entries[i][1]]
               r == InterpolateAll(keys, <<>>, [i \in DOMAIN keys |-> v.entries[i][2]],
                                   props, missing, limit, seen)
           IN  [ok |-> r.ok, v |-> Mapping([i \in DOMAIN keys |-> <<keys[i], r.vs[i]>>]),
                seen |-> r.seen]
      [] OTHER -> [ok |-> TRUE, v |-> v, seen |-> seen]

interpolate_inner_bounded(v, props, missing, limit) ==
    interpolate_walk(v, props, missing, limit, 0)

-----------------------------------------------------------------------------
(* `!include`: the walk carries its counters; `at` is where it is.            *)

IncludeTag == <<"!", "i">>
Includes(v) == v.kind = "tag" /\ v.tag = IncludeTag

split_fragment(spec) ==
    LET i == SelectInSeq(spec, LAMBDA c : c = "#")
    IN  IF i = 0 THEN [path |-> spec, fragment |-> {}]
        ELSE [path |-> SubSeq(spec, 1, i - 1), fragment |-> {SubSeq(spec, i + 1, Len(spec))}]

(* One source parsed under what is left of the depth; each source meets the   *)
(* node and text budgets by itself.                                           *)
parse_exactly_one_value(v, depth) ==
    LET m == Measure(v)
    IN  m.height <= depth /\ m.nodes <= Limits.nodes /\ m.text <= Limits.text

(* Source count, total bytes, then the length of this source.                 *)
charge(w, file) ==
    LET n == [w EXCEPT !.sources = @ + 1, !.bytes = @ + file.bytes]
    IN  [n EXCEPT !.ok = /\ n.sources <= Limits.sources
                         /\ n.bytes <= Limits.bytes
                         /\ file.bytes <= Limits.length]

select_include_fragment(v, spec) ==
    LET f == split_fragment(spec).fragment
        frag == CHOOSE x \in f : TRUE
    IN  CASE f = {} -> {v}
          [] f # {} -> {m[StrMap!get_index_of(m, frag)][2] :
                           m \in {e \in as_mapping(v) : StrMap!contains_key(e, frag)}}

RECURSIVE walk(_, _, _)
RECURSIVE WalkAll(_, _, _, _)
WalkAll(w, done, vs, at) ==
    IF vs = <<>> THEN [w EXCEPT !.v = done]
    ELSE LET r == walk(w, Head(vs), at)
         IN  IF r.ok THEN WalkAll(r, Append(done, r.v), Tail(vs), at) ELSE r

(* Resolve, charge and parse one source, then resolve the includes inside it. *)
load(w, spec, at) ==
    LET name == split_fragment(spec).path
        file == Files[name]
        paid == charge(w, file)
        priced == [paid EXCEPT !.visited = @ \cup {name},
                               !.text = @ + Measure(file.value).text]
        inner == walk(priced, file.value, [at EXCEPT !.include = @ + 1])
        picked == select_include_fragment(inner.v, spec)
    IN  IF \/ at.include + 1 > Limits.includes
           \/ name \notin DOMAIN Files
           \/ ~paid.ok
           \/ name \in w.visited
           \/ ~parse_exactly_one_value(file.value, Limits.depth - at.tree)
           \/ priced.text > Limits.text
           \/ ~inner.ok
           \/ picked = {}
        THEN [w EXCEPT !.ok = FALSE]
        ELSE [inner EXCEPT !.visited = @ \ {name}, !.v = CHOOSE v \in picked : TRUE]

walk(w, v, at) ==
    LET inner == [at EXCEPT !.tree = @ + 1]
    IN  CASE Includes(v) ->
               IF as_str(v.inner) = {} THEN [w EXCEPT !.ok = FALSE]
               ELSE load([w EXCEPT !.text = @ - Len(v.inner.str)], v.inner.str, at)
          [] v.kind = "tag" /\ ~Includes(v) ->
               LET r == walk(w, v.inner, at)
               IN  IF r.ok THEN [r EXCEPT !.v = Tagged(v.tag, @)] ELSE r
          [] v.kind = "seq" ->
               LET r == WalkAll(w, <<>>, v.items, inner)
               IN  IF r.ok THEN [r EXCEPT !.v = Sequence(@)] ELSE r
          [] v.kind = "map" ->
               LET r == WalkAll(w, <<>>, [i \in DOMAIN v.entries |-> v.entries[i][2]], inner)
               IN  IF r.ok THEN [r EXCEPT !.v = Mapping([i \in DOMAIN v.entries |->
                                                 <<v.entries[i][1], r.v[i]>>])]
                           ELSE r
          [] OTHER -> [w EXCEPT !.v = v]

\* Mutant: sources are only bounded one by one.
enforce_expanded_node_budget_none(v) == TRUE

(* The combined tree is measured again.                                       *)
enforce_expanded_node_budget(v) ==
    LET m == Measure(v) IN m.nodes <= Limits.nodes /\ m.text <= Limits.text

Rebudgeted(w) ==
    [ok |-> w.ok /\ enforce_expanded_node_budget(w.v), v |-> w.v,
     sources |-> w.sources, bytes |-> w.bytes]
apply_includes(v) ==
    Rebudgeted(walk([ok |-> TRUE, v |-> v, visited |-> {}, sources |-> 0, bytes |-> 0,
                   text |-> Measure(v).text], v, [include |-> 0, tree |-> 0]))

(* The pipeline.  A policy here refuses values that hold a denied number.     *)
check_document(v, denied) ==
    \A i \in DOMAIN Addresses(v) : At(v, Addresses(v)[i]) \notin denied

Checked(included, filled, denied) ==
    [ok |-> included.ok /\ filled.ok /\ check_document(filled.v, denied),
     v |-> filled.v, sources |-> included.sources, bytes |-> included.bytes]
Filled(included, props, missing, denied) ==
    Checked(included, interpolate_inner_bounded(included.v, props, missing, Limits.text), denied)
post_process_document(v, props, missing, denied) ==
    Filled(apply_includes(v), props, missing, denied)
=============================================================================
