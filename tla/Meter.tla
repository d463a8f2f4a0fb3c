------------------------------- MODULE Meter -------------------------------
(***************************************************************************)
(* The meter of parser/meter.rs: the counters every loader charges for one *)
(* parse, and the order they are charged in.  When the parse is one        *)
(* document of a stream (joined), the five stream-wide counters are        *)
(* compared through the shared StreamTally, which sibling parses charge    *)
(* too.                                                                    *)
(*                                                                         *)
(* The caller is a loader: it charges every event, alias and merge key it  *)
(* meets, in any order, and stops at the first refusal.                    *)
(***************************************************************************)
EXTENDS Budget

CONSTANTS
  Limit,               \* the stream-wide limits: max_events, max_nodes, ...
  MaxAliasExpansions, AliasAnchorRatio, AliasJumpFactor,
  MaxDocumentLength, MaxDepth,
  ScalarLens,          \* lengths of the scalars met
  Costs,               \* AliasCosts of the anchored nodes met
  Others,              \* the charges of sibling parses: pairs of a counter and an amount
  NODE_BYTES           \* size_of::<Value>(), the unit of the byte estimate

StreamCounter == {"events", "nodes", "scalar_bytes", "merge_keys", "documents"}
Counter == StreamCounter \cup {"anchors", "aliases", "alias_bytes", "jump_charge"}

ASSUME MeterAssumption ==
  /\ Limit \in [StreamCounter -> Usize]
  /\ MaxAliasExpansions \in Usize /\ MaxDocumentLength \in Usize /\ MaxDepth \in Usize
  /\ AliasAnchorRatio \in Nat \cup {NoRatio}
  /\ AliasJumpFactor \in Usize \cup {NoRatio}
  /\ ScalarLens \subseteq Usize /\ Others \subseteq StreamCounter \X Usize
  /\ Costs \subseteq [nodes : Usize, text : Usize, height : Usize, jump : Usize]
  /\ NODE_BYTES \in Usize

VARIABLES
  joined,   \* the configuration carries a stream_tally
  meter,    \* the meter's own counters
  tally,    \* the shared counters
  verdict,  \* "ok", or the budget that refused
  spent,    \* ghost: what was really charged here, not saturated
  foreign,  \* ghost: what the siblings charged
  deepest   \* ghost: the deepest level an admitted expansion reaches

vars == <<joined, meter, tally, verdict, spent, foreign, deepest>>

Zero(C) == [c \in C |-> 0]

Init ==
  /\ joined \in BOOLEAN
  /\ meter = Zero(Counter)
  /\ tally = Zero(StreamCounter)
  /\ verdict = "ok"
  /\ spent = Zero(Counter)
  /\ foreign = Zero(StreamCounter)
  /\ deepest = 0

-----------------------------------------------------------------------------
\* Mutant: the budget is reset for every document of a stream.
TotalPerDocument(c, by) == saturating_add(meter[c], by)

\* tally(): the total to compare with the limit once `by` is added to c.
Total(c, by) ==
  saturating_add(IF joined THEN tally[c] ELSE meter[c], by)

Over(c, by) == Total(c, by) > Limit[c]

\* The counters after the charges `by` (a function on some of them):
\* the local ones saturate, the shared ones wrap (fetch_add).
Bump(m, by) ==
  [c \in DOMAIN m |-> IF c \in DOMAIN by THEN saturating_add(m[c], by[c]) ELSE m[c]]
FetchAdd(t, by) ==
  [c \in DOMAIN t |-> IF joined /\ c \in DOMAIN by
                      THEN (t[c] + by[c]) % (UsizeMax + 1) ELSE t[c]]
Spend(s, by) ==
  [c \in DOMAIN s |-> IF c \in DOMAIN by THEN s[c] + by[c] ELSE s[c]]

\* The counters C restart at zero.
Reset(m, C) == [c \in DOMAIN m |-> IF c \in C THEN 0 ELSE m[c]]

\* Charge `by`, after restarting the counters in `clear`; refuse with v.
Charge(by, clear, v) ==
  /\ meter' = Bump(Reset(meter, clear), by)
  /\ spent' = Spend(Reset(spent, clear), by)
  /\ tally' = FetchAdd(tally, by)
  /\ verdict' = v
  /\ UNCHANGED foreign

\* A registered policy rejects a node event or an alias: nothing is charged.
run_event_policies ==
  /\ verdict' = "policy"
  /\ UNCHANGED <<meter, tally, spent, foreign>>

\* The event counter comes first: a refusal there charges nothing else.
Events == [c \in {"events"} |-> 1]

\* charge_node: the anchor is counted only once the node is admitted.
charge_node(anchored) ==
  IF nodes_exceeded(Total("nodes", 1), Limit["nodes"])
  THEN [by |-> [c \in {"events", "nodes"} |-> 1], verdict |-> "nodes"]
  ELSE [by |-> [c \in {"events", "nodes"} \cup (IF anchored THEN {"anchors"} ELSE {}) |-> 1],
        verdict |-> "ok"]

charge_scalar_bytes(by, len) ==
  [by |-> [c \in DOMAIN by \cup {"scalar_bytes"} |->
             IF c = "scalar_bytes" THEN len ELSE by[c]],
   verdict |-> IF Over("scalar_bytes", len) THEN "scalar_bytes" ELSE "ok"]

\* charge_event on a scalar.
charge_scalar(anchored, len) ==
  LET n == charge_node(anchored)
      s == IF n.verdict = "ok" THEN charge_scalar_bytes(n.by, len) ELSE n
  IN  IF Over("events", 1) THEN Charge(Events, {}, "events")
                           ELSE Charge(s.by, {}, s.verdict)

\* charge_event on a sequence or mapping start.
charge_collection(anchored) ==
  LET n == charge_node(anchored)
  IN  IF Over("events", 1) THEN Charge(Events, {}, "events")
                           ELSE Charge(n.by, {}, n.verdict)

\* charge_event on a document start: the alias counters restart, then the
\* document is counted.
start_document ==
  IF Over("events", 1) THEN Charge(Events, {}, "events")
  ELSE Charge([c \in {"events", "documents"} |-> 1], {"aliases", "alias_bytes"},
              IF Over("documents", 1) THEN "documents" ELSE "ok")

\* charge_event on any other event.
charge_other ==
  Charge(Events, {}, IF Over("events", 1) THEN "events" ELSE "ok")

charge_alias ==
  LET n == saturating_add(meter["aliases"], 1) IN
  Charge([c \in {"aliases"} |-> 1], {},
         CASE alias_count_exceeded(n, MaxAliasExpansions) -> "aliases"
           [] ~alias_count_exceeded(n, MaxAliasExpansions)
              /\ alias_ratio_exceeded(n, meter["anchors"], AliasAnchorRatio) -> "ratio"
           [] OTHER -> "ok")

\* AliasCost::bytes.
Bytes(cost) == saturating_add(saturating_mul(cost.nodes, NODE_BYTES), cost.text)

\* charge_expansion: depth, then bytes, then the jump charge.
charge_expansion(cost, site_depth) ==
  LET depth == saturating_add(site_depth, cost.height)
      total == alias_bytes_total(meter["alias_bytes"], Bytes(cost))
      over  == alias_bytes_exceeded(meter["alias_bytes"], Bytes(cost), MaxDocumentLength)
      jumps == AliasJumpFactor # NoRatio
  IN
  IF depth_exceeded(depth, MaxDepth)
  THEN verdict' = "depth" /\ UNCHANGED <<meter, tally, spent, foreign, deepest>>
  ELSE
    /\ meter' = [meter EXCEPT
         !["alias_bytes"] = total,
         !["jump_charge"] = IF ~over /\ jumps THEN jump_charge(@, cost.jump) ELSE @]
    /\ spent' = [spent EXCEPT
         !["alias_bytes"] = @ + Bytes(cost),
         !["jump_charge"] = IF ~over /\ jumps THEN @ + cost.jump ELSE @]
    /\ verdict' = CASE over -> "alias_bytes"
                    [] ~over /\ jumps
                       /\ jump_charge_exceeded(meter["jump_charge"], cost.jump,
                                               meter["events"], AliasJumpFactor) -> "jump"
                    [] OTHER -> "ok"
    /\ deepest' = IF depth > deepest THEN depth ELSE deepest
    /\ UNCHANGED <<tally, foreign>>

charge_merge_key ==
  Charge([c \in {"merge_keys"} |-> 1], {},
         IF Over("merge_keys", 1) THEN "merge_keys" ELSE "ok")

\* A sibling parse of the same stream charges the shared tally.
SiblingCharges(c, by) ==
  /\ joined
  /\ tally' = FetchAdd(tally, [x \in {c} |-> by])
  /\ foreign' = Spend(foreign, [x \in {c} |-> by])
  /\ UNCHANGED <<meter, verdict, spent, deepest>>

-----------------------------------------------------------------------------
\* Bound: no stream is charged more than usize::MAX of anything, so the
\* shared counters, which wrap, never do.
Fits == joined => \A c \in StreamCounter : spent'[c] + foreign'[c] <= UsizeMax

\* Nodes, aliases and merge keys are met inside a document.
InDocument == meter["documents"] > 0

Next ==
  /\ verdict = "ok"
  /\ \/ /\ \/ start_document
           \/ charge_other
           \/ /\ InDocument
              /\ \/ \E anchored \in BOOLEAN, len \in ScalarLens : charge_scalar(anchored, len)
                 \/ \E anchored \in BOOLEAN : charge_collection(anchored)
                 \/ charge_alias
                 \/ charge_merge_key
                 \/ run_event_policies
        /\ UNCHANGED deepest
     \/ /\ InDocument
        /\ \E cost \in Costs, site_depth \in 0 .. effective_max_depth(MaxDepth) :
             charge_expansion(cost, site_depth)
     \/ \E o \in Others : SiblingCharges(o[1], o[2])
  /\ Fits
  /\ UNCHANGED joined

Spec == Init /\ [][Next]_vars

-----------------------------------------------------------------------------
(* Properties.                                                             *)

\* x is within a limit; usize::MAX means there is none.
Within(x, limit) == x <= limit \/ limit = UsizeMax

\* As long as nothing was refused, what the parse really cost is within
\* every budget: neither saturation nor the order of the checks lets a
\* charge past its limit.
NothingSlipsPast ==
  verdict = "ok" =>
    /\ \A c \in StreamCounter : Within(spent[c], Limit[c])
    /\ Within(spent["aliases"], MaxAliasExpansions)
    /\ spent["alias_bytes"] <= MaxDocumentLength
    /\ spent["alias_bytes"] <= MAX_ALIAS_BYTES
    /\ AliasJumpFactor # NoRatio =>
         \/ spent["jump_charge"] <= spent["events"] * AliasJumpFactor
         \/ spent["events"] * AliasJumpFactor >= UsizeMax
    /\ deepest <= MaxDepth /\ deepest <= MAX_DEPTH_CEILING

\* A refusal is never early: the budget it names is really exceeded, by
\* this parse and its siblings together for the stream-wide ones.
RefusedForCause ==
  /\ verdict \in StreamCounter => spent[verdict] + foreign[verdict] > Limit[verdict]
  /\ verdict = "aliases" => spent["aliases"] > MaxAliasExpansions
  /\ verdict = "alias_bytes" =>
       spent["alias_bytes"] > MaxDocumentLength \/ spent["alias_bytes"] > MAX_ALIAS_BYTES
  /\ verdict = "jump" => spent["jump_charge"] > spent["events"] * AliasJumpFactor

\* The meter's limits are exact: what it lets through is within them, what it
\* refuses is not, in saturating counters and whatever the siblings charge.
LimitsExact == NothingSlipsPast /\ RefusedForCause

\* A charge to a stream-wide counter is admitted only when the total over
\* all documents of the stream is within the limit (meter.rs StreamTally).
AdmittedStreamWide ==
  [][\A c \in StreamCounter :
       (spent'[c] > spent[c] /\ verdict' = "ok")
         => Within(spent'[c] + foreign'[c], Limit[c])]_vars
=============================================================================
