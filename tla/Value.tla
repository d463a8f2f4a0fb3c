------------------------------- MODULE Value --------------------------------
(* The value tree of value.rs: its variants, equality, hash and order, and    *)
(* the place a key or an index leads to.  A text is a sequence of one-        *)
(* character strings; a number is an integer.                                 *)
EXTENDS Integers, Sequences, SequencesExt

Null == [kind |-> "null"]
Num(n) == [kind |-> "num", num |-> n]
Str(s) == [kind |-> "str", str |-> s]
Sequence(items) == [kind |-> "seq", items |-> items]
Mapping(entries) == [kind |-> "map", entries |-> entries]
Tagged(t, v) == [kind |-> "tag", tag |-> t, inner |-> v]

None == [kind |-> "none"]

(* The accessors: the content of the variant asked for, or nothing.           *)
as_str(v) == IF v.kind = "str" THEN {v.str} ELSE {}
as_sequence(v) == IF v.kind = "seq" THEN {v.items} ELSE {}
as_mapping(v) == IF v.kind = "map" THEN {v.entries} ELSE {}

(* `Null < Bool < Number < String < Sequence < Mapping < Tagged`              *)
Variants == <<"null", "bool", "num", "str", "seq", "map", "tag">>

(* Tags compare without their leading `!`.                                    *)
nobang(t) == IF t # <<>> /\ Head(t) = "!" THEN Tail(t) ELSE t

StrMap == INSTANCE IndexMap WITH Same <- LAMBDA a, b : a = b

-----------------------------------------------------------------------------
(* PartialEq: mappings compare as maps, so the order of their entries does    *)
(* not count.                                                                 *)
RECURSIVE eq(_, _)
eq(a, b) ==
    /\ a.kind = b.kind
    /\ CASE a.kind = "null" -> TRUE
         [] a.kind = "num" -> a.num = b.num
         [] a.kind = "str" -> a.str = b.str
         [] a.kind = "seq" -> /\ Len(a.items) = Len(b.items)
                              /\ \A i \in DOMAIN a.items : eq(a.items[i], b.items[i])
         [] a.kind = "map" ->
              /\ Len(a.entries) = Len(b.entries)
              /\ \A i \in DOMAIN a.entries : \E j \in DOMAIN b.entries :
                    /\ a.entries[i][1] = b.entries[j][1]
                    /\ eq(a.entries[i][2], b.entries[j][2])
         [] a.kind = "tag" -> nobang(a.tag) = nobang(b.tag) /\ eq(a.inner, b.inner)

(* Hash: what is fed to the hasher, in the order it is fed.  Two values hash  *)
(* alike when the streams are equal (collisions are left out).                *)
RECURSIVE hash(_)
hash(v) ==
    <<v.kind>> \o
    CASE v.kind = "null" -> <<>>
      [] v.kind = "num" -> <<ToString(v.num)>>
      [] v.kind = "str" -> Append(v.str, "end")
      [] v.kind = "seq" -> <<ToString(Len(v.items))>>
                           \o FlattenSeq([i \in DOMAIN v.items |-> hash(v.items[i])])
      [] v.kind = "map" ->
           <<ToString(Len(v.entries))>>
           \o FlattenSeq([i \in DOMAIN v.entries |->
                 Append(v.entries[i][1], "end") \o hash(v.entries[i][2])])
      [] v.kind = "tag" -> Append(nobang(v.tag), "end") \o hash(v.inner)

(* Ord on texts; `Chars` lists the characters in code-point order.            *)
Chars == <<"!", "\"", "#", "$", "*", "-", ".", "0", "1", ":", "<", "[", "\\", "]", "a",
           "b", "c", "{", "}">>
Rank(c) == CHOOSE i \in DOMAIN Chars : Chars[i] = c
Sign(n) == IF n < 0 THEN -1 ELSE IF n > 0 THEN 1 ELSE 0
First(rs) == LET i == SelectInSeq(rs, LAMBDA r : r # 0)
             IN  IF i = 0 THEN 0 ELSE rs[i]
Shorter(a, b) == IF Len(a) < Len(b) THEN Len(a) ELSE Len(b)
text_cmp(s, t) ==
    First([i \in 1 .. Shorter(s, t) |-> Sign(Rank(s[i]) - Rank(t[i]))]
          \o <<Sign(Len(s) - Len(t))>>)

(* Ord: by variant, then collections by length, then entry by entry in        *)
(* insertion order.                                                           *)
type_order(v) == CHOOSE i \in DOMAIN Variants : Variants[i] = v.kind

RECURSIVE cmp(_, _)
cmp(a, b) ==
    IF a.kind # b.kind THEN Sign(type_order(a) - type_order(b))
    ELSE CASE a.kind = "null" -> 0
           [] a.kind = "num" -> Sign(a.num - b.num)
           [] a.kind = "str" -> text_cmp(a.str, b.str)
           [] a.kind = "seq" ->
                First(<<Sign(Len(a.items) - Len(b.items))>>
                      \o [i \in 1 .. Shorter(a.items, b.items) |->
                            cmp(a.items[i], b.items[i])])
           [] a.kind = "map" ->
                First(<<Sign(Len(a.entries) - Len(b.entries))>>
                      \o [i \in 1 .. Shorter(a.entries, b.entries) |->
                            First(<<text_cmp(a.entries[i][1], b.entries[i][1]),
                                    cmp(a.entries[i][2], b.entries[i][2])>>)])
           [] a.kind = "tag" -> First(<<text_cmp(a.tag, b.tag), cmp(a.inner, b.inner)>>)

(* The map behind `MappingAny` finds a key by its hash, then by equality.     *)
AnyMap == INSTANCE IndexMap WITH Same <- LAMBDA a, b : hash(a) = hash(b) /\ eq(a, b)

-----------------------------------------------------------------------------
(* A reference into the tree is an address: the steps from the root, a key, a *)
(* position, or the descent through a tag.                                    *)
ToKey(k) == [step |-> "key", key |-> k]
ToIndex(i) == [step |-> "index", index |-> i]
ThroughTag == [step |-> "tag"]

(* `Value::get` with a key or an index: the address below `v` it leads to,    *)
(* looking through tags, or the set is empty.                                 *)
RECURSIVE index_into(_, _)
index_into(v, s) ==
    CASE v.kind = "tag" -> {<<ThroughTag>> \o a : a \in index_into(v.inner, s)}
      [] v.kind = "map" /\ s.step = "key" ->
           IF StrMap!contains_key(v.entries, s.key) THEN {<<s>>} ELSE {}
      [] v.kind = "seq" /\ s.step = "index" ->
           IF s.index < Len(v.items) THEN {<<s>>} ELSE {}
      [] OTHER -> {}

\* Mutant: a tagged value is not looked through.
RECURSIVE index_into_mut_bare(_, _)
index_into_mut_bare(v, s) ==
    CASE v.kind = "map" /\ s.step = "key" -> {<<ToKey(k)>> : k \in {e[1] : e \in ToSet(v.entries)} \cap {s.key}}
      [] v.kind = "seq" /\ s.step = "index" -> {<<ToIndex(i - 1)>> : i \in DOMAIN v.items \cap {s.index + 1}}
      [] OTHER -> {}

(* `Value::get_mut`: written apart from `get`, one match per kind of index.   *)
RECURSIVE index_into_mut(_, _)
index_into_mut(v, s) ==
    CASE v.kind = "map" /\ s.step = "key" -> {<<ToKey(k)>> : k \in {e[1] : e \in ToSet(v.entries)} \cap {s.key}}
      [] v.kind = "seq" /\ s.step = "index" -> {<<ToIndex(i - 1)>> : i \in DOMAIN v.items \cap {s.index + 1}}
      [] v.kind = "tag" -> {<<ThroughTag>> \o a : a \in index_into_mut(v.inner, s)}
      [] OTHER -> {}

(* The children of a collection in order, as one-step addresses.              *)
Children(v) ==
    CASE v.kind = "seq" -> [i \in DOMAIN v.items |-> ToIndex(i - 1)]
      [] v.kind = "map" -> [i \in DOMAIN v.entries |-> ToKey(v.entries[i][1])]
      [] OTHER -> <<>>

Child(v, s) ==
    CASE s.step = "tag" -> v.inner
      [] s.step = "key" -> v.entries[StrMap!get_index_of(v.entries, s.key)][2]
      [] s.step = "index" -> v.items[s.index + 1]

At(v, addr) == FoldLeft(Child, v, addr)

(* The tree with `new` written through the reference `addr`.                  *)
RECURSIVE Write(_, _, _)
Write(v, addr, new) ==
    IF addr = <<>> THEN new
    ELSE LET s == Head(addr)
             sub == Write(Child(v, s), Tail(addr), new)
         IN  CASE s.step = "tag" -> [v EXCEPT !.inner = sub]
               [] s.step = "key" -> [v EXCEPT !.entries = StrMap!insert(@, s.key, sub)]
               [] s.step = "index" -> [v EXCEPT !.items[s.index + 1] = sub]

(* Every address of the tree, in document order.                              *)
RECURSIVE Addresses(_)
Addresses(v) ==
    LET below(s) == LET sub == Addresses(Child(v, s))
                    IN  [i \in DOMAIN sub |-> <<s>> \o sub[i]]
        steps == IF v.kind = "tag" THEN <<ThroughTag>> ELSE Children(v)
    IN  <<<<>>>> \o FlattenSeq([i \in DOMAIN steps |-> below(steps[i])])
=============================================================================
