------------------------------- MODULE Budget -------------------------------
(***************************************************************************)
(* The resource budgets of parser/budget.rs: pure predicates over usize    *)
(* counters.  usize is 0..UsizeMax; the additions and multiplications of   *)
(* the code saturate.  The absolute ceilings are constants here so that    *)
(* TLC can meet them; the code has MAX_ALIAS_BYTES = 32 MiB and            *)
(* MAX_DEPTH_CEILING = 256.                                                *)
(***************************************************************************)
EXTENDS Naturals

CONSTANTS
  UsizeMax,          \* usize::MAX
  MAX_ALIAS_BYTES,   \* ceiling on the bytes the aliases of a document expand to
  MAX_DEPTH_CEILING, \* ceiling on nesting, whatever max_depth says
  NoRatio            \* alias_anchor_ratio or jump factor not configured

ASSUME UsizeAssumption == UsizeMax \in Nat
ASSUME CeilingAssumption ==
  /\ MAX_ALIAS_BYTES \in Nat /\ MAX_ALIAS_BYTES < UsizeMax
  /\ MAX_DEPTH_CEILING \in Nat /\ MAX_DEPTH_CEILING < UsizeMax
ASSUME NoRatioAssumption == NoRatio \notin Nat

Usize == 0 .. UsizeMax

\* usize::saturating_add and saturating_mul.
saturating_add(a, b) == IF a + b > UsizeMax THEN UsizeMax ELSE a + b
saturating_mul(a, b) == IF a * b > UsizeMax THEN UsizeMax ELSE a * b

effective_max_depth(max_depth) ==
  IF max_depth < MAX_DEPTH_CEILING THEN max_depth ELSE MAX_DEPTH_CEILING

depth_exceeded(depth, max_depth) == depth > effective_max_depth(max_depth)

alias_count_exceeded(alias_count, max_alias_expansions) ==
  alias_count > max_alias_expansions

\* A whole-number ratio; a document without anchors counts as having one.
alias_ratio_exceeded(alias_count, anchor_count, ratio) ==
  /\ ratio # NoRatio
  /\ alias_count > ratio * (IF anchor_count = 0 THEN 1 ELSE anchor_count)

nodes_exceeded(node_count, max_nodes) == node_count > max_nodes

\* The two predicates that also return the counter's next value.
jump_charge(charge, expanded_nodes) == saturating_add(charge, expanded_nodes)
jump_charge_exceeded(charge, expanded_nodes, event_count, factor) ==
  jump_charge(charge, expanded_nodes) > saturating_mul(event_count, factor)

\* Mutant: a total that wraps instead of saturating.
alias_bytes_wrapping(alias_bytes, expanded_bytes) ==
  (alias_bytes + expanded_bytes) % (UsizeMax + 1)

alias_bytes_total(alias_bytes, expanded_bytes) ==
  saturating_add(alias_bytes, expanded_bytes)
alias_bytes_exceeded(alias_bytes, expanded_bytes, max_document_length) ==
  LET total == alias_bytes_total(alias_bytes, expanded_bytes)
  IN  total > max_document_length \/ total > MAX_ALIAS_BYTES
=============================================================================
