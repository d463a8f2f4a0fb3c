------------------------------ MODULE IndexMap ------------------------------
(* The insertion-ordered map under `Mapping` and `MappingAny`                 *)
(* (value/mapping.rs): a sequence of entries <<key, value>>.  An entry is     *)
(* found by `Same`, the equality of the key type together with its hash; the  *)
(* two mapping types instantiate this module with theirs.                     *)
EXTENDS Naturals, Sequences, SequencesExt

CONSTANT Same(_, _)

Key(e) == e[1]

(* The position of `k`, 0 when the map has no such key.                       *)
get_index_of(m, k) == SelectInSeq(m, LAMBDA e : Same(e[1], k))

contains_key(m, k) == get_index_of(m, k) > 0

(* A present key keeps its place and its first spelling.                      *)
insert(m, k, v) ==
    IF contains_key(m, k) THEN [m EXCEPT ![get_index_of(m, k)] = <<@[1], v>>]
                          ELSE Append(m, <<k, v>>)

(* `entry(k).or_insert(v)`                                                    *)
or_insert(m, k, v) == IF contains_key(m, k) THEN m ELSE Append(m, <<k, v>>)

extend(m, more) == FoldLeft(LAMBDA acc, e : insert(acc, e[1], e[2]), m, more)

(* The entries behind the removed one close up.                               *)
shift_remove(m, k) ==
    IF contains_key(m, k) THEN RemoveAt(m, get_index_of(m, k)) ELSE m

(* The last entry takes the removed one's place.                              *)
swap_remove(m, k) ==
    IF ~contains_key(m, k) THEN m
    ELSE LET i == get_index_of(m, k)
         IN  IF i = Len(m) THEN Front(m) ELSE [Front(m) EXCEPT ![i] = Last(m)]

retain(m, keep) == SelectSeq(m, LAMBDA e : e[2] \in keep)
=============================================================================
