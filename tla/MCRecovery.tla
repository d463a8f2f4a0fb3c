---------------------------- MODULE MCRecovery ----------------------------
(* Documents of up to three lines: clean, with a duplicate key, broken at  *)
(* the end, broken from the start, and too long to be salvaged.            *)
EXTENDS Recovery

C(len, parses) == [len |-> len, blank |-> FALSE, parses |-> parses]
Empty == [len |-> 0, blank |-> TRUE, parses |-> "ok"]
Doc(cuts, events) == [cuts |-> cuts, events |-> events]

MCDocuments ==
  {Doc(<<C(1, "ok")>>, 1),
   Doc(<<Empty, C(1, "ok"), C(2, "dup")>>, 2),
   Doc(<<C(1, "ok"), C(2, "dup"), C(3, "bad")>>, 2),
   Doc(<<C(1, "ok"), C(2, "bad"), C(3, "bad")>>, 2),
   Doc(<<Empty, C(1, "bad")>>, 1),
   Doc(<<C(1, "ok"), C(3, "bad"), C(4, "bad")>>, 3)}

MCInputs ==
  [docs : UNION {[1 .. n -> MCDocuments] : n \in 0 .. 3}, refused : {FALSE}]
    \cup {[docs |-> <<>>, refused |-> TRUE]}

MCConfigs ==
  [max_errors : 1 .. 4, recover_duplicate_keys : BOOLEAN, line_truncation : BOOLEAN,
   truncation_event_budget : {0, 6}, base_last : BOOLEAN]
=============================================================================
