---------------------------- MODULE Meter_proofs ----------------------------
(***************************************************************************)
(* Proofs about the meter, for every limit, every width of usize and every *)
(* sequence of charges: what it lets through is within the limits, and     *)
(* what it refuses is not.                                                 *)
(*                                                                         *)
(* The counters the code keeps saturate or wrap; the ghost counters do     *)
(* not.  The invariant ties the two: a local counter is the saturated      *)
(* charge (Saturated), a shared one is the sum of this parse's charges and *)
(* its siblings' (Shared), so that a comparison made on the former decides *)
(* the latter.                                                             *)
(***************************************************************************)
EXTENDS Meter, TLAPS

-----------------------------------------------------------------------------
(* The inductive invariant.                                                *)

Verdict == StreamCounter \cup {"ok", "policy", "aliases", "ratio", "alias_bytes", "jump", "depth"}

TypeOK ==
  /\ joined \in BOOLEAN /\ verdict \in Verdict
  /\ meter \in [Counter -> Usize] /\ tally \in [StreamCounter -> Usize]
  /\ spent \in [Counter -> Nat] /\ foreign \in [StreamCounter -> Nat]
  /\ deepest \in Nat

\* x as a usize counter shows it.
Sat(x) == IF x > UsizeMax THEN UsizeMax ELSE x

\* The meter's own counters show what was charged.
Saturated == \A c \in Counter : meter[c] = Sat(spent[c])

\* The tally is what this parse and its siblings charged.
Shared ==
  \A c \in StreamCounter :
    IF joined THEN tally[c] = spent[c] + foreign[c] ELSE foreign[c] = 0

IInv == TypeOK /\ Saturated /\ Shared /\ LimitsExact

-----------------------------------------------------------------------------
(* Arithmetic.                                                             *)

\* Adding to a saturated counter is saturating the sum.
LEMMA SatAdd ==
  ASSUME NEW a \in Nat, NEW b \in Nat
  PROVE  /\ saturating_add(Sat(a), b) = Sat(a + b)
         /\ Sat(a) \in Usize /\ Sat(a) <= a
BY UsizeAssumption DEF saturating_add, Sat, Usize

\* A saturated value within a limit, or past it.
LEMMA SatCompare ==
  ASSUME NEW x \in Nat, NEW limit \in Usize
  PROVE  /\ ~(Sat(x) > limit) => Within(x, limit)
         /\ Sat(x) > limit => x > limit
         /\ limit < UsizeMax /\ ~(Sat(x) > limit) => x <= limit
BY UsizeAssumption DEF Sat, Usize, Within

\* A wrapping counter that does not reach the end is the sum.
LEMMA NoWrap ==
  ASSUME NEW x \in Nat, x <= UsizeMax
  PROVE  x % (UsizeMax + 1) = x
BY UsizeAssumption

\* Products grow with their factors.
LEMMA ProductGrows ==
  ASSUME NEW a \in Nat, NEW b \in Nat, NEW f \in Nat, a <= b
  PROVE  a * f \in Nat /\ b * f \in Nat /\ a * f <= b * f
OBVIOUS

\* The jump limit compared in saturating arithmetic decides the real one.
LEMMA JumpCompare ==
  ASSUME NEW j \in Nat, NEW e \in Nat, NEW f \in Nat
  PROVE  /\ Sat(j) > saturating_mul(Sat(e), f) => j > e * f
         /\ ~(Sat(j) > saturating_mul(Sat(e), f)) => j <= e * f \/ e * f >= UsizeMax
<1>1. Sat(e) \in Nat /\ Sat(e) <= e /\ Sat(j) \in Nat /\ Sat(j) <= j /\ Sat(j) <= UsizeMax
  BY UsizeAssumption DEF Sat
<1>2. Sat(e) * f \in Nat /\ e * f \in Nat /\ Sat(e) * f <= e * f
  BY <1>1, ProductGrows
<1>3. Sat(e) = e \/ (e > UsizeMax /\ Sat(e) = UsizeMax)
  BY DEF Sat
<1>4. ASSUME Sat(j) > saturating_mul(Sat(e), f) PROVE j > e * f
  <2>1. Sat(e) * f < Sat(j)
    BY <1>1, <1>2, <1>4, UsizeAssumption DEF saturating_mul
  <2>2. CASE Sat(e) = e
    BY <1>1, <1>2, <2>1, <2>2
  <2>3. CASE Sat(e) = UsizeMax
    <3>1. UsizeMax * f < UsizeMax
      BY <1>1, <1>2, <2>1, <2>3, UsizeAssumption
    <3>2. CASE f = 0
      <4>1. e * f = 0
        BY <3>2
      <4>. QED
        BY <1>1, <1>2, <2>1, <4>1
    <3>3. CASE f >= 1
      <4>1. 1 * UsizeMax <= f * UsizeMax
        BY <3>3, ProductGrows, UsizeAssumption
      <4>. QED
        BY <3>1, <4>1, UsizeAssumption
    <3>. QED
      BY <3>2, <3>3
  <2>. QED
    BY <1>3, <2>2, <2>3
<1>5. ASSUME ~(Sat(j) > saturating_mul(Sat(e), f))
      PROVE  j <= e * f \/ e * f >= UsizeMax
  <2>1. Sat(j) <= Sat(e) * f \/ Sat(e) * f >= UsizeMax
    BY <1>1, <1>2, <1>5, UsizeAssumption DEF saturating_mul
  <2>. QED
    BY <1>1, <1>2, <2>1, UsizeAssumption DEF Sat
<1>. QED
  BY <1>4, <1>5

-----------------------------------------------------------------------------
(* Charging.                                                               *)

\* The total the code compares decides what this parse and its siblings
\* charge together.
LEMMA TotalDecides ==
  ASSUME TypeOK, Saturated, Shared, NEW c \in StreamCounter, NEW n \in Nat,
         joined => spent[c] + n + foreign[c] <= UsizeMax
  PROVE  /\ ~Over(c, n) => Within(spent[c] + n + foreign[c], Limit[c])
         /\ Over(c, n) => spent[c] + n + foreign[c] > Limit[c]
<1>1. /\ c \in Counter /\ spent[c] \in Nat /\ foreign[c] \in Nat /\ Limit[c] \in Usize
      /\ spent[c] + n \in Nat /\ spent[c] + foreign[c] \in Nat
  BY MeterAssumption DEF TypeOK, Counter
<1>2. CASE joined
  <2>1. tally[c] = spent[c] + foreign[c]
    BY <1>2 DEF Shared
  <2>2. Total(c, n) = spent[c] + n + foreign[c]
    BY <1>1, <1>2, <2>1, UsizeAssumption DEF Total, saturating_add
  <2>. QED
    BY <1>1, <2>2, UsizeAssumption DEF Over, Within, Usize
<1>3. CASE ~joined
  <2>1. foreign[c] = 0 /\ meter[c] = Sat(spent[c])
    BY <1>1, <1>3 DEF Shared, Saturated
  <2>2. Total(c, n) = Sat(spent[c] + n)
    BY <1>1, <1>3, <2>1, SatAdd DEF Total
  <2>3. spent[c] + n + foreign[c] = spent[c] + n
    BY <1>1, <2>1
  <2>. QED
    BY <1>1, <2>2, <2>3, SatCompare DEF Over
<1>. QED
  BY <1>2, <1>3

\* What is charged in the counters, for a charge `by` that restarts `clear`.
LEMMA Charged ==
  ASSUME TypeOK, Saturated, Shared,
         NEW D \in SUBSET Counter, NEW by \in [D -> Usize],
         NEW clear \in SUBSET (Counter \ StreamCounter), NEW v \in Verdict,
         Charge(by, clear, v), Fits, joined' = joined, deepest' \in Nat
  PROVE  /\ TypeOK' /\ Saturated' /\ Shared' /\ verdict' = v /\ foreign' = foreign
         /\ \A c \in Counter :
              spent'[c] = (IF c \in clear THEN 0 ELSE spent[c]) + (IF c \in D THEN by[c] ELSE 0)
<1> DEFINE base(c) == IF c \in clear THEN 0 ELSE spent[c]
<1>1. \A c \in Counter : base(c) \in Nat /\ (c \in D => by[c] \in Nat)
  BY DEF TypeOK, Usize
<1>2. /\ spent' = Spend(Reset(spent, clear), by) /\ meter' = Bump(Reset(meter, clear), by)
      /\ tally' = FetchAdd(tally, by) /\ verdict' = v /\ foreign' = foreign
  BY DEF Charge
<1>3. Reset(spent, clear) = [c \in Counter |-> base(c)]
  BY DEF Reset, TypeOK
<1>4. /\ spent' \in [Counter -> Nat]
      /\ \A c \in Counter : spent'[c] = base(c) + (IF c \in D THEN by[c] ELSE 0)
  BY <1>1, <1>2, <1>3 DEF Spend
<1>5. /\ meter' \in [Counter -> Usize]
      /\ \A c \in Counter : meter'[c] = Sat(spent'[c])
  <2>1. meter' = [c \in Counter |->
                    IF c \in D THEN saturating_add(IF c \in clear THEN 0 ELSE meter[c], by[c])
                    ELSE IF c \in clear THEN 0 ELSE meter[c]]
    BY <1>2 DEF Bump, Reset, TypeOK
  <2>2. \A c \in Counter : (IF c \in clear THEN 0 ELSE meter[c]) = Sat(base(c))
    BY UsizeAssumption DEF Saturated, Sat
  <2>3. \A c \in Counter : meter'[c] = Sat(spent'[c]) /\ meter'[c] \in Usize
    <3> SUFFICES ASSUME NEW c \in Counter
                 PROVE  meter'[c] = Sat(spent'[c]) /\ meter'[c] \in Usize
      OBVIOUS
    <3>1. CASE c \in D
      <4>1. meter'[c] = saturating_add(Sat(base(c)), by[c])
        BY <2>1, <2>2, <3>1
      <4>. QED
        BY <1>1, <1>4, <3>1, <4>1, SatAdd, SMTT(60)
    <3>2. CASE c \notin D
      <4>1. meter'[c] = Sat(base(c)) /\ spent'[c] = base(c)
        BY <1>1, <1>4, <2>1, <2>2, <3>2
      <4>. QED
        BY <1>1, <4>1, SatAdd
    <3>. QED
      BY <3>1, <3>2
  <2>. QED
    BY <2>1, <2>3
<1>6. /\ tally' \in [StreamCounter -> Usize]
      /\ \A c \in StreamCounter :
           IF joined THEN tally'[c] = spent'[c] + foreign[c] ELSE foreign[c] = 0
  <2>1. tally' = [c \in StreamCounter |->
                    IF joined /\ c \in D THEN (tally[c] + by[c]) % (UsizeMax + 1) ELSE tally[c]]
    BY <1>2 DEF FetchAdd, TypeOK
  <2>2. ASSUME NEW c \in StreamCounter
        PROVE  /\ tally'[c] \in Usize
               /\ IF joined THEN tally'[c] = spent'[c] + foreign[c] ELSE foreign[c] = 0
    <3>1. /\ c \in Counter /\ c \notin clear /\ base(c) = spent[c] /\ spent[c] \in Nat
          /\ foreign[c] \in Nat /\ tally[c] \in Usize
      BY DEF TypeOK, Counter
    <3>2. CASE ~joined
      BY <2>1, <3>1, <3>2 DEF Shared
    <3>3. CASE joined
      <4>1. tally[c] = spent[c] + foreign[c] /\ spent'[c] + foreign[c] <= UsizeMax
        BY <1>2, <3>3 DEF Shared, Fits
      <4>2. CASE c \in D
        <5>1. tally[c] + by[c] = spent'[c] + foreign[c] /\ tally[c] + by[c] \in Nat
          BY <1>1, <1>4, <3>1, <4>1, <4>2
        <5>2. (tally[c] + by[c]) % (UsizeMax + 1) = tally[c] + by[c]
          BY <4>1, <5>1, NoWrap
        <5>. QED
          BY <2>1, <3>3, <4>1, <4>2, <5>1, <5>2, UsizeAssumption DEF Usize
      <4>3. CASE c \notin D
        <5>1. spent'[c] = spent[c] /\ tally'[c] = tally[c]
          BY <1>4, <2>1, <3>1, <4>3
        <5>. QED
          BY <3>1, <3>3, <4>1, <5>1
      <4>. QED
        BY <4>2, <4>3
    <3>. QED
      BY <3>2, <3>3
  <2>. QED
    BY <2>1, <2>2
<1>7. TypeOK'
  BY <1>2, <1>4, <1>5, <1>6 DEF TypeOK
<1>8. Saturated' /\ Shared'
  BY <1>2, <1>5, <1>6 DEF Saturated, Shared
<1>. QED
  BY <1>2, <1>4, <1>7, <1>8

\* What one step may admit.
Admits ==
  \A c \in StreamCounter :
    spent'[c] > spent[c] /\ verdict' = "ok" => Within(spent'[c] + foreign'[c], Limit[c])

\* A charge whose verdict is decided by the totals keeps the limits exact.
LEMMA ChargeKeeps ==
  ASSUME IInv, verdict = "ok",
         NEW D \in SUBSET (StreamCounter \cup {"anchors", "aliases"}), NEW by \in [D -> Usize],
         NEW clear \in SUBSET {"aliases", "alias_bytes"}, clear \cap D = {},
         NEW v \in Verdict \ {"alias_bytes", "jump"},
         Charge(by, clear, v), Fits, joined' = joined, deepest' = deepest,
         v = "ok" => \A c \in D \cap StreamCounter : ~Over(c, by[c]),
         v \in StreamCounter => v \in D /\ Over(v, by[v]),
         "aliases" \in D =>
           /\ by["aliases"] = 1
           /\ v = "ok" => ~(saturating_add(meter["aliases"], 1) > MaxAliasExpansions),
         v = "aliases" => "aliases" \in D /\ saturating_add(meter["aliases"], 1) > MaxAliasExpansions
  PROVE  IInv' /\ Admits
<1>1. TypeOK /\ Saturated /\ Shared /\ NothingSlipsPast
  BY DEF IInv, LimitsExact
<1>2. D \in SUBSET Counter /\ clear \in SUBSET (Counter \ StreamCounter) /\ deepest' \in Nat
  BY <1>1 DEF Counter, StreamCounter, TypeOK
<1>3. /\ TypeOK' /\ Saturated' /\ Shared' /\ verdict' = v /\ foreign' = foreign
      /\ \A c \in Counter :
           spent'[c] = (IF c \in clear THEN 0 ELSE spent[c]) + (IF c \in D THEN by[c] ELSE 0)
  <2>1. v \in Verdict
    OBVIOUS
  <2>2. TypeOK' /\ Saturated' /\ Shared'
    BY <1>1, <1>2, <2>1, Charged
  <2>3. verdict' = v /\ foreign' = foreign
    BY DEF Charge
  <2>4. \A c \in Counter :
           spent'[c] = (IF c \in clear THEN 0 ELSE spent[c]) + (IF c \in D THEN by[c] ELSE 0)
    BY <1>1, <1>2, <2>1, Charged
  <2>. QED
    BY <2>2, <2>3, <2>4
<1>4. \A c \in Counter : spent[c] \in Nat /\ spent'[c] \in Nat /\ (c \in D => by[c] \in Nat)
  BY <1>1, <1>3 DEF TypeOK, Usize
<1>5. ASSUME NEW c \in StreamCounter
      PROVE  /\ c \in Counter /\ foreign[c] \in Nat /\ Limit[c] \in Usize
             /\ c \in D => spent'[c] = spent[c] + by[c]
             /\ c \notin D => spent'[c] = spent[c]
  <2>1. c \in Counter /\ c \notin clear
    BY DEF Counter, StreamCounter
  <2>2. foreign[c] \in Nat /\ Limit[c] \in Usize
    BY <1>1, MeterAssumption DEF TypeOK
  <2>. QED
    BY <1>3, <1>4, <2>1, <2>2
<1>6. ASSUME NEW c \in StreamCounter, c \in D
      PROVE  /\ v = "ok" => Within(spent'[c] + foreign[c], Limit[c])
             /\ v = c => spent'[c] + foreign[c] > Limit[c]
  <2>1. joined => spent'[c] + foreign[c] <= UsizeMax
    BY <1>3 DEF Fits
  <2>2. /\ ~Over(c, by[c]) => Within(spent'[c] + foreign[c], Limit[c])
        /\ Over(c, by[c]) => spent'[c] + foreign[c] > Limit[c]
    BY <1>1, <1>4, <1>5, <1>6, <2>1, TotalDecides
  <2>. QED
    BY <1>6, <2>2
<1>7. Admits
  BY <1>3, <1>4, <1>5, <1>6 DEF Admits
<1>8. ASSUME NEW c \in StreamCounter, v = "ok" PROVE Within(spent'[c], Limit[c])
  <2>1. CASE c \in D
    BY <1>4, <1>5, <1>6, <1>8, <2>1 DEF Within, Usize
  <2>2. CASE c \notin D
    BY <1>1, <1>5, <2>2 DEF NothingSlipsPast
  <2>. QED
    BY <2>1, <2>2
<1>9. /\ {"aliases", "alias_bytes", "jump_charge", "events"} \subseteq Counter
      /\ "events" \in StreamCounter /\ "jump_charge" \notin clear \cup D /\ "alias_bytes" \notin D
  BY DEF Counter, StreamCounter
<1>10. /\ v = "ok" => Within(spent'["aliases"], MaxAliasExpansions)
       /\ v = "aliases" => spent'["aliases"] > MaxAliasExpansions
  <2>1. MaxAliasExpansions \in Usize
    BY MeterAssumption
  <2>2. CASE "aliases" \in D
    <3>1. spent'["aliases"] = spent["aliases"] + 1
      BY <1>3, <1>9, <2>2
    <3>2. saturating_add(meter["aliases"], 1) = Sat(spent["aliases"] + 1)
      BY <1>1, <1>4, <1>9, SatAdd DEF Saturated
    <3>. QED
      BY <1>4, <1>9, <2>1, <2>2, <3>1, <3>2, SatCompare
  <2>3. CASE "aliases" \notin D
    <3>1. spent'["aliases"] = 0 \/ spent'["aliases"] = spent["aliases"]
      BY <1>3, <1>4, <1>9, <2>3
    <3>. QED
      BY <1>1, <2>1, <2>3, <3>1 DEF NothingSlipsPast, Within, Usize
  <2>. QED
    BY <2>2, <2>3
<1>11. spent'["alias_bytes"] \in {0, spent["alias_bytes"]}
  BY <1>3, <1>4, <1>9
<1>12. spent'["jump_charge"] = spent["jump_charge"] /\ spent["events"] <= spent'["events"]
  <2>1. spent'["jump_charge"] = spent["jump_charge"] + 0
    BY <1>3, <1>9
  <2>. QED
    BY <1>4, <1>5, <1>9, <2>1
<1>13. AliasJumpFactor # NoRatio =>
         \/ spent'["jump_charge"] <= spent'["events"] * AliasJumpFactor
         \/ spent'["events"] * AliasJumpFactor >= UsizeMax
  <2> SUFFICES ASSUME AliasJumpFactor # NoRatio
               PROVE  \/ spent'["jump_charge"] <= spent'["events"] * AliasJumpFactor
                      \/ spent'["events"] * AliasJumpFactor >= UsizeMax
    OBVIOUS
  <2>1. AliasJumpFactor \in Nat
    BY MeterAssumption DEF Usize
  <2>2. /\ spent["events"] * AliasJumpFactor \in Nat /\ spent'["events"] * AliasJumpFactor \in Nat
        /\ spent["events"] * AliasJumpFactor <= spent'["events"] * AliasJumpFactor
    BY <1>4, <1>9, <1>12, <2>1, ProductGrows
  <2>3. \/ spent["jump_charge"] <= spent["events"] * AliasJumpFactor
        \/ spent["events"] * AliasJumpFactor >= UsizeMax
    BY <1>1 DEF NothingSlipsPast
  <2>4. spent["jump_charge"] \in Nat
    BY <1>4, <1>9
  <2>. QED
    BY <1>12, <2>2, <2>3, <2>4, UsizeAssumption
<1>14. NothingSlipsPast'
  <2>1. /\ spent["alias_bytes"] <= MaxDocumentLength /\ spent["alias_bytes"] <= MAX_ALIAS_BYTES
        /\ deepest <= MaxDepth /\ deepest <= MAX_DEPTH_CEILING
    BY <1>1 DEF NothingSlipsPast
  <2>2. spent'["alias_bytes"] <= MaxDocumentLength /\ spent'["alias_bytes"] <= MAX_ALIAS_BYTES
    BY <1>11, <2>1, MeterAssumption, CeilingAssumption DEF Usize
  <2>. QED
    BY <1>3, <1>8, <1>10, <1>13, <2>1, <2>2 DEF NothingSlipsPast
<1>15. RefusedForCause'
  BY <1>3, <1>6, <1>10 DEF RefusedForCause
<1>. QED
  BY <1>3, <1>7, <1>14, <1>15 DEF IInv, LimitsExact

-----------------------------------------------------------------------------
(* One lemma per operation of the meter.                                   *)

\* One unit is a usize.
LEMMA OneFits == 0 \in Usize /\ 1 \in Usize
BY UsizeAssumption, CeilingAssumption DEF Usize

\* The conditions that every charging step shares.
Charging ==
  IInv /\ verdict = "ok" /\ Fits /\ joined' = joined /\ deepest' = deepest

\* The charge of the event alone, refused or not by max_events.
LEMMA EventsKeep ==
  ASSUME Charging, NEW v \in {"ok", "events"}, Charge(Events, {}, v),
         v = "ok" <=> ~Over("events", 1)
  PROVE  IInv' /\ Admits
<1> DEFINE D == {"events"}
<1>1. /\ D \in SUBSET (StreamCounter \cup {"anchors", "aliases"}) /\ "aliases" \notin D
      /\ D \cap StreamCounter = D /\ v \in Verdict \ {"alias_bytes", "jump", "aliases"}
      /\ v \in StreamCounter => v = "events"
  BY DEF StreamCounter, Verdict
<1>2. Events \in [D -> Usize] /\ Events["events"] = 1
  BY OneFits DEF Events
<1>. QED
  BY <1>1, <1>2, ChargeKeeps DEF Charging

\* The charge of a single stream-wide unit other than an event.
LEMMA MergeKeyStep == Charging /\ charge_merge_key => IInv' /\ Admits
<1> SUFFICES ASSUME Charging, charge_merge_key PROVE IInv' /\ Admits
  OBVIOUS
<1> DEFINE D == {"merge_keys"}
           by == [c \in D |-> 1]
           v == IF Over("merge_keys", 1) THEN "merge_keys" ELSE "ok"
<1>1. /\ D \in SUBSET (StreamCounter \cup {"anchors", "aliases"}) /\ "aliases" \notin D
      /\ D \cap StreamCounter = D /\ v \in Verdict \ {"alias_bytes", "jump", "aliases"}
      /\ v \in StreamCounter => v = "merge_keys" /\ Over("merge_keys", 1)
      /\ v = "ok" => ~Over("merge_keys", 1)
  BY DEF StreamCounter, Verdict
<1>2. by \in [D -> Usize] /\ by["merge_keys"] = 1
  BY OneFits
<1>3. Charge(by, {}, v)
  BY DEF charge_merge_key
<1> HIDE DEF by, v
<1>. QED
  BY <1>1, <1>2, <1>3, ChargeKeeps DEF Charging

\* Any other event.
LEMMA OtherStep == Charging /\ charge_other => IInv' /\ Admits
BY EventsKeep DEF charge_other

\* A document start: the alias counters restart.
LEMMA DocumentStep == Charging /\ start_document => IInv' /\ Admits
<1> SUFFICES ASSUME Charging, start_document PROVE IInv' /\ Admits
  OBVIOUS
<1>1. CASE Over("events", 1)
  BY <1>1, EventsKeep DEF start_document
<1>2. CASE ~Over("events", 1)
  <2> DEFINE D == {"events", "documents"}
             by == [c \in D |-> 1]
             v == IF Over("documents", 1) THEN "documents" ELSE "ok"
  <2>1. /\ D \in SUBSET (StreamCounter \cup {"anchors", "aliases"}) /\ "aliases" \notin D
        /\ v \in Verdict \ {"alias_bytes", "jump", "aliases"}
        /\ v \in StreamCounter => v = "documents" /\ v \in D /\ Over("documents", 1)
        /\ v = "ok" => ~Over("documents", 1)
        /\ {"aliases", "alias_bytes"} \cap D = {}
    BY DEF StreamCounter, Verdict
  <2>2. by \in [D -> Usize] /\ \A c \in D : by[c] = 1
    BY OneFits
  <2>3. Charge(by, {"aliases", "alias_bytes"}, v)
    BY <1>2 DEF start_document
  <2>4. v = "ok" => \A c \in D \cap StreamCounter : ~Over(c, by[c])
    BY <1>2, <2>1, <2>2
  <2>5. v \in StreamCounter => v \in D /\ Over(v, by[v])
    BY <2>1, <2>2
  <2> HIDE DEF by, v, D
  <2>. QED
    BY <2>1, <2>2, <2>3, <2>4, <2>5, ChargeKeeps DEF Charging
<1>. QED
  BY <1>1, <1>2

\* What a node charges, once its event is admitted.
LEMMA NodeCharge ==
  ASSUME NEW anchored \in BOOLEAN, ~Over("events", 1)
  PROVE  LET n == charge_node(anchored)
             D == DOMAIN n.by
         IN  /\ D \in SUBSET {"events", "nodes", "anchors"} /\ "nodes" \in D
             /\ n.by \in [D -> Usize] /\ \A c \in D : n.by[c] = 1
             /\ n.verdict \in {"ok", "nodes"}
             /\ n.verdict = "ok" => \A c \in D \cap StreamCounter : ~Over(c, 1)
             /\ n.verdict = "nodes" => Over("nodes", 1)
<1>1. CASE Total("nodes", 1) > Limit["nodes"]
  BY <1>1, OneFits DEF charge_node, nodes_exceeded, Over
<1>2. CASE ~(Total("nodes", 1) > Limit["nodes"])
  <2>1. \A c \in {"events", "nodes", "anchors"} \cap StreamCounter : ~Over(c, 1)
    BY <1>2 DEF Over, StreamCounter
  <2>. QED
    BY <1>2, <2>1, OneFits DEF charge_node, nodes_exceeded
<1>. QED
  BY <1>1, <1>2

\* A sequence or mapping start.
LEMMA CollectionStep ==
  ASSUME NEW anchored \in BOOLEAN, Charging, charge_collection(anchored)
  PROVE  IInv' /\ Admits
<1>1. CASE Over("events", 1)
  BY <1>1, EventsKeep DEF charge_collection
<1>2. CASE ~Over("events", 1)
  <2> DEFINE n == charge_node(anchored)
             D == DOMAIN n.by
             by == n.by
             v == n.verdict
  <2>1. Charge(by, {}, v)
    BY <1>2 DEF charge_collection
  <2>2. /\ D \in SUBSET {"events", "nodes", "anchors"} /\ "nodes" \in D
        /\ by \in [D -> Usize] /\ \A c \in D : by[c] = 1
        /\ v \in {"ok", "nodes"}
        /\ v = "ok" => \A c \in D \cap StreamCounter : ~Over(c, 1)
        /\ v = "nodes" => Over("nodes", 1)
    BY <1>2, NodeCharge
  <2> HIDE DEF D, by, v
  <2>3. /\ D \in SUBSET (StreamCounter \cup {"anchors", "aliases"}) /\ "aliases" \notin D
        /\ v \in Verdict \ {"alias_bytes", "jump", "aliases"}
        /\ v \in StreamCounter => v \in D /\ Over(v, by[v])
        /\ v = "ok" => \A c \in D \cap StreamCounter : ~Over(c, by[c])
    BY <2>2 DEF StreamCounter, Verdict
  <2>. QED
    BY <2>1, <2>2, <2>3, ChargeKeeps DEF Charging
<1>. QED
  BY <1>1, <1>2

\* A scalar: its node, then its bytes.
LEMMA ScalarStep ==
  ASSUME NEW anchored \in BOOLEAN, NEW len \in ScalarLens, Charging, charge_scalar(anchored, len)
  PROVE  IInv' /\ Admits
<1>1. CASE Over("events", 1)
  BY <1>1, EventsKeep DEF charge_scalar
<1>2. CASE ~Over("events", 1)
  <2> DEFINE n == charge_node(anchored)
             N == DOMAIN n.by
  <2>1. /\ N \in SUBSET {"events", "nodes", "anchors"} /\ "nodes" \in N
        /\ n.by \in [N -> Usize] /\ \A c \in N : n.by[c] = 1
        /\ n.verdict \in {"ok", "nodes"}
        /\ n.verdict = "ok" => \A c \in N \cap StreamCounter : ~Over(c, 1)
        /\ n.verdict = "nodes" => Over("nodes", 1)
    BY <1>2, NodeCharge
  <2>2. CASE n.verdict # "ok"
    <3>1. Charge(n.by, {}, n.verdict)
      BY <1>2, <2>2 DEF charge_scalar
    <3> DEFINE by == n.by
               v == n.verdict
    <3> HIDE DEF n, by, v
    <3>2. /\ N \in SUBSET (StreamCounter \cup {"anchors", "aliases"}) /\ "aliases" \notin N
          /\ v \in Verdict \ {"alias_bytes", "jump", "aliases"} /\ v # "ok"
          /\ v \in StreamCounter => v \in N /\ Over(v, by[v])
      BY <2>1, <2>2 DEF StreamCounter, Verdict, by, v
    <3>3. Charge(by, {}, v) /\ by \in [N -> Usize]
      BY <2>1, <3>1 DEF by, v
    <3>. QED
      BY <3>2, <3>3, ChargeKeeps DEF Charging
  <2>3. CASE n.verdict = "ok"
    <3> DEFINE D == N \cup {"scalar_bytes"}
               by == [c \in D |-> IF c = "scalar_bytes" THEN len ELSE n.by[c]]
               v == IF Over("scalar_bytes", len) THEN "scalar_bytes" ELSE "ok"
    <3>1. Charge(by, {}, v)
      BY <1>2, <2>3 DEF charge_scalar, charge_scalar_bytes
    <3>2. len \in Usize
      BY MeterAssumption
    <3> HIDE DEF n
    <3>3. by \in [D -> Usize] /\ by["scalar_bytes"] = len
      BY <2>1, <3>2
    <3>4. \A c \in N : by[c] = 1 /\ c # "scalar_bytes"
      BY <2>1
    <3>5. v = "ok" => \A c \in D \cap StreamCounter : ~Over(c, by[c])
      BY <2>1, <2>3, <3>3, <3>4
    <3>6. v \in StreamCounter => v \in D /\ Over(v, by[v])
      BY <3>3 DEF StreamCounter
    <3>7. /\ D \in SUBSET (StreamCounter \cup {"anchors", "aliases"}) /\ "aliases" \notin D
          /\ v \in Verdict \ {"alias_bytes", "jump", "aliases"}
      BY <2>1 DEF StreamCounter, Verdict
    <3> HIDE DEF D, by, v
    <3>. QED
      BY <3>1, <3>3, <3>5, <3>6, <3>7, ChargeKeeps DEF Charging
  <2>. QED
    BY <2>2, <2>3
<1>. QED
  BY <1>1, <1>2

\* An alias: counted, then compared with its limit and the anchors' ratio.
LEMMA AliasStep == Charging /\ charge_alias => IInv' /\ Admits
<1> SUFFICES ASSUME Charging, charge_alias PROVE IInv' /\ Admits
  OBVIOUS
<1> DEFINE D == {"aliases"}
           by == [c \in D |-> 1]
           m == saturating_add(meter["aliases"], 1)
           v == CASE alias_count_exceeded(m, MaxAliasExpansions) -> "aliases"
                  [] ~alias_count_exceeded(m, MaxAliasExpansions)
                     /\ alias_ratio_exceeded(m, meter["anchors"], AliasAnchorRatio) -> "ratio"
                  [] OTHER -> "ok"
<1>1. Charge(by, {}, v)
  BY DEF charge_alias
<1>2. /\ D \in SUBSET (StreamCounter \cup {"anchors", "aliases"}) /\ "aliases" \in D
      /\ D \cap StreamCounter = {}
      /\ by \in [D -> Usize] /\ by["aliases"] = 1
  BY OneFits DEF StreamCounter
<1>3. v \in {"ok", "ratio", "aliases"} /\ (v = "ok" => ~(m > MaxAliasExpansions))
      /\ (v = "aliases" => m > MaxAliasExpansions)
  BY DEF alias_count_exceeded
<1> HIDE DEF D, by, v, m
<1>4. v \in Verdict \ {"alias_bytes", "jump"} /\ v \notin StreamCounter
  BY <1>3 DEF Verdict, StreamCounter
<1>. QED
  BY <1>1, <1>2, <1>3, <1>4, ChargeKeeps DEF Charging, m

\* A policy rejects the node: nothing is charged.
LEMMA PolicyStep == Charging /\ run_event_policies => IInv' /\ Admits
<1> SUFFICES ASSUME Charging, run_event_policies PROVE IInv' /\ Admits
  OBVIOUS
<1>1. TypeOK /\ Saturated /\ Shared
  BY DEF Charging, IInv
<1>2. /\ verdict' = "policy" /\ meter' = meter /\ tally' = tally /\ spent' = spent
      /\ foreign' = foreign /\ joined' = joined /\ deepest' = deepest
  BY DEF Charging, run_event_policies
<1>3. TypeOK' /\ Saturated' /\ Shared'
  BY <1>1, <1>2 DEF TypeOK, Saturated, Shared, Verdict
<1>4. LimitsExact' /\ Admits
  BY <1>2 DEF LimitsExact, NothingSlipsPast, RefusedForCause, Admits, StreamCounter
<1>. QED
  BY <1>3, <1>4 DEF IInv

\* A sibling parse charges the shared tally.
LEMMA SiblingStep ==
  ASSUME IInv, verdict = "ok", Fits, joined' = joined, NEW o \in Others, SiblingCharges(o[1], o[2])
  PROVE  IInv' /\ Admits
<1> DEFINE k == o[1]
           n == o[2]
<1>1. k \in StreamCounter /\ n \in Nat
  BY MeterAssumption DEF Usize
<1>2. /\ joined /\ tally' = FetchAdd(tally, [x \in {k} |-> n])
      /\ foreign' = Spend(foreign, [x \in {k} |-> n])
      /\ meter' = meter /\ verdict' = verdict /\ spent' = spent /\ deepest' = deepest
  BY DEF SiblingCharges
<1> HIDE DEF k, n
<1>3. TypeOK /\ Saturated /\ Shared /\ NothingSlipsPast
  BY DEF IInv, LimitsExact
<1>4. /\ foreign' \in [StreamCounter -> Nat]
      /\ \A c \in StreamCounter : foreign'[c] = foreign[c] + (IF c = k THEN n ELSE 0)
  BY <1>1, <1>2, <1>3 DEF Spend, TypeOK
<1>5. tally' \in [StreamCounter -> Usize] /\ \A c \in StreamCounter : tally'[c] = spent[c] + foreign'[c]
  <2>1. tally' = [c \in StreamCounter |->
                    IF c = k THEN (tally[c] + n) % (UsizeMax + 1) ELSE tally[c]]
    BY <1>2, <1>3 DEF FetchAdd, TypeOK
  <2>2. ASSUME NEW c \in StreamCounter
        PROVE  tally'[c] \in Usize /\ tally'[c] = spent[c] + foreign'[c]
    <3>1. /\ spent[c] \in Nat /\ foreign[c] \in Nat /\ tally[c] \in Usize
          /\ tally[c] = spent[c] + foreign[c] /\ spent[c] + foreign'[c] <= UsizeMax
      BY <1>2, <1>3 DEF TypeOK, Shared, Fits, Counter
    <3>2. CASE c = k
      <4>1. tally[c] + n = spent[c] + foreign'[c] /\ tally[c] + n \in Nat
        BY <1>1, <1>4, <3>1, <3>2
      <4>2. (tally[c] + n) % (UsizeMax + 1) = tally[c] + n
        BY <3>1, <4>1, NoWrap
      <4>. QED
        BY <2>1, <3>1, <3>2, <4>1, <4>2, UsizeAssumption DEF Usize
    <3>3. CASE c # k
      BY <1>4, <2>1, <3>1, <3>3
    <3>. QED
      BY <3>2, <3>3
  <2>. QED
    BY <2>1, <2>2
<1>6. TypeOK'
  BY <1>2, <1>3, <1>4, <1>5 DEF TypeOK
<1>7. Saturated' /\ Shared'
  BY <1>2, <1>3, <1>5 DEF Saturated, Shared
<1>8. LimitsExact'
  BY <1>2, <1>3 DEF LimitsExact, NothingSlipsPast, RefusedForCause, StreamCounter
<1>9. Admits
  BY <1>2, <1>3 DEF Admits, TypeOK, Counter
<1>. QED
  BY <1>6, <1>7, <1>8, <1>9 DEF IInv

\* The bytes an expansion is estimated at.
LEMMA BytesNat == ASSUME NEW cost \in Costs PROVE Bytes(cost) \in Nat /\ cost.jump \in Nat
<1>1. /\ cost.nodes \in Nat /\ cost.text \in Nat /\ cost.jump \in Nat /\ NODE_BYTES \in Nat
  BY MeterAssumption DEF Usize
<1>2. cost.nodes * NODE_BYTES \in Nat
  BY <1>1
<1>. QED
  BY <1>1, <1>2, UsizeAssumption DEF Bytes, saturating_add, saturating_mul

\* An alias is expanded: depth, then bytes, then the jump charge.
LEMMA ExpansionStep ==
  ASSUME IInv, verdict = "ok", Fits, joined' = joined,
         NEW cost \in Costs, NEW site_depth \in 0 .. effective_max_depth(MaxDepth),
         charge_expansion(cost, site_depth)
  PROVE  IInv' /\ Admits
<1> DEFINE depth == saturating_add(site_depth, cost.height)
           bytes == Bytes(cost)
           total == alias_bytes_total(meter["alias_bytes"], bytes)
           over == alias_bytes_exceeded(meter["alias_bytes"], bytes, MaxDocumentLength)
           jumps == AliasJumpFactor # NoRatio
           jump == saturating_add(meter["jump_charge"], cost.jump)
           beyond == jump > saturating_mul(meter["events"], AliasJumpFactor)
<1>1. TypeOK /\ Saturated /\ Shared /\ NothingSlipsPast
  BY DEF IInv, LimitsExact
<1>2. /\ {"alias_bytes", "jump_charge", "events", "aliases"} \subseteq Counter
      /\ StreamCounter \subseteq Counter
      /\ "alias_bytes" \notin StreamCounter /\ "jump_charge" \notin StreamCounter
  BY DEF Counter, StreamCounter
<1>3. CASE depth_exceeded(depth, MaxDepth)
  <2>1. /\ verdict' = "depth" /\ meter' = meter /\ tally' = tally /\ spent' = spent
        /\ foreign' = foreign /\ deepest' = deepest
    BY <1>3 DEF charge_expansion
  <2>2. TypeOK' /\ Saturated' /\ Shared'
    BY <1>1, <2>1 DEF TypeOK, Saturated, Shared, Verdict
  <2>3. LimitsExact' /\ Admits
    BY <1>1, <2>1 DEF LimitsExact, NothingSlipsPast, RefusedForCause, Admits, StreamCounter, TypeOK
  <2>. QED
    BY <2>2, <2>3 DEF IInv
<1>4. CASE ~depth_exceeded(depth, MaxDepth)
  <2>1. /\ meter' = [meter EXCEPT !["alias_bytes"] = total,
                                  !["jump_charge"] = IF ~over /\ jumps THEN jump ELSE @]
        /\ spent' = [spent EXCEPT !["alias_bytes"] = @ + bytes,
                                  !["jump_charge"] = IF ~over /\ jumps THEN @ + cost.jump ELSE @]
        /\ verdict' = CASE over -> "alias_bytes"
                        [] ~over /\ jumps /\ beyond -> "jump"
                        [] OTHER -> "ok"
        /\ deepest' = IF depth > deepest THEN depth ELSE deepest
        /\ tally' = tally /\ foreign' = foreign
    BY <1>4 DEF charge_expansion, jump_charge, jump_charge_exceeded
  <2>2. /\ bytes \in Nat /\ cost.jump \in Nat
        /\ spent["alias_bytes"] \in Nat /\ spent["jump_charge"] \in Nat /\ spent["events"] \in Nat
    BY <1>1, <1>2, BytesNat DEF TypeOK
  <2> DEFINE b == spent["alias_bytes"] + bytes
             j == spent["jump_charge"] + cost.jump
             e == spent["events"]
  <2>3. /\ total = Sat(b) /\ jump = Sat(j) /\ meter["events"] = Sat(e)
        /\ b \in Nat /\ j \in Nat /\ total \in Usize /\ jump \in Usize
    <3>1. /\ meter["alias_bytes"] = Sat(spent["alias_bytes"])
          /\ meter["jump_charge"] = Sat(spent["jump_charge"]) /\ meter["events"] = Sat(e)
      BY <1>1, <1>2 DEF Saturated
    <3>2. saturating_add(Sat(spent["alias_bytes"]), bytes) = Sat(b)
      BY <2>2, SatAdd, Zenon
    <3>3. saturating_add(Sat(spent["jump_charge"]), cost.jump) = Sat(j)
      BY <2>2, SatAdd, Zenon
    <3>4. total = Sat(b)
      BY <3>1, <3>2, Zenon DEF alias_bytes_total
    <3>5. jump = Sat(j)
      BY <3>1, <3>3, Zenon
    <3>6. b \in Nat /\ j \in Nat
      BY <2>2
    <3> HIDE DEF b, j, total, jump
    <3>. QED
      BY <3>1, <3>4, <3>5, <3>6, SatAdd
  <2>4. over <=> (total > MaxDocumentLength \/ total > MAX_ALIAS_BYTES)
    BY DEF alias_bytes_exceeded
  <2>5. depth \in Nat /\ depth <= MaxDepth /\ depth <= MAX_DEPTH_CEILING
    <3>1. /\ cost.height \in Nat /\ MaxDepth \in Nat /\ MAX_DEPTH_CEILING \in Nat
          /\ site_depth \in Nat
      BY MeterAssumption, CeilingAssumption DEF Usize, effective_max_depth
    <3>2. depth \in Nat
      BY <3>1, UsizeAssumption DEF saturating_add
    <3>. QED
      BY <1>4, <3>1, <3>2 DEF depth_exceeded, effective_max_depth
  <2> HIDE DEF depth, bytes, total, over, jump, beyond, jumps
  <2>6. /\ spent'["alias_bytes"] = b
        /\ spent'["jump_charge"] = IF ~over /\ jumps THEN j ELSE spent["jump_charge"]
        /\ \A c \in Counter \ {"alias_bytes", "jump_charge"} :
             spent'[c] = spent[c] /\ meter'[c] = meter[c]
        /\ meter'["alias_bytes"] = total
        /\ meter'["jump_charge"] = IF ~over /\ jumps THEN jump ELSE meter["jump_charge"]
    BY <1>1, <1>2, <2>1 DEF TypeOK
  <2>7. /\ spent' \in [Counter -> Nat] /\ meter' \in [Counter -> Usize]
        /\ verdict' \in {"ok", "jump", "alias_bytes"} /\ deepest' \in Nat
    BY <1>1, <1>2, <2>1, <2>2, <2>3, <2>5 DEF TypeOK
  <2>8. TypeOK'
    BY <1>1, <2>1, <2>7 DEF TypeOK, Verdict
  <2>9. Saturated'
    BY <1>1, <1>2, <2>3, <2>6 DEF Saturated
  <2>10. \A c \in StreamCounter : spent'[c] = spent[c] /\ c \in Counter
    BY <1>2, <2>6
  <2>11. Shared'
    BY <1>1, <2>1, <2>10 DEF Shared
  <2>12. Admits
    BY <1>1, <2>10 DEF Admits, TypeOK
  <2>13. /\ verdict' = "alias_bytes" => over
         /\ verdict' = "jump" => ~over /\ jumps /\ beyond
         /\ verdict' = "ok" => ~over /\ (jumps => ~beyond)
    BY <2>1
  <2>14. /\ over => b > MaxDocumentLength \/ b > MAX_ALIAS_BYTES
         /\ ~over => b <= MaxDocumentLength /\ b <= MAX_ALIAS_BYTES
    <3>1. MaxDocumentLength \in Usize /\ MAX_ALIAS_BYTES \in Usize /\ MAX_ALIAS_BYTES < UsizeMax
      BY MeterAssumption, CeilingAssumption, UsizeAssumption DEF Usize
    <3>2. Sat(b) <= b /\ (~over => b <= MAX_ALIAS_BYTES)
      BY <2>3, <2>4, <3>1, SatCompare, SatAdd
    <3>3. ~over => b = total
      BY <2>3, <3>1, <3>2, UsizeAssumption DEF Sat
    <3>4. b \in Nat /\ total \in Nat /\ total <= b
      BY <2>3, <3>2 DEF Usize
    <3> HIDE DEF b
    <3>. QED
      BY <2>4, <3>1, <3>2, <3>3, <3>4 DEF Usize
  <2>15. jumps => /\ beyond => j > e * AliasJumpFactor
                  /\ ~beyond => j <= e * AliasJumpFactor \/ e * AliasJumpFactor >= UsizeMax
    <3>1. jumps => AliasJumpFactor \in Nat
      BY MeterAssumption DEF jumps, Usize
    <3>. QED
      BY <2>2, <2>3, <3>1, JumpCompare DEF beyond
  <2> HIDE DEF b, j
  <2>16. NothingSlipsPast'
    <3> SUFFICES ASSUME verdict' = "ok" PROVE NothingSlipsPast'
      BY DEF NothingSlipsPast
    <3>1. ~over /\ (jumps => ~beyond)
      BY <2>13
    <3>2. \A c \in StreamCounter : Within(spent'[c], Limit[c])
      BY <1>1, <2>10 DEF NothingSlipsPast
    <3>3. Within(spent'["aliases"], MaxAliasExpansions) /\ spent'["events"] = e
      BY <1>1, <1>2, <2>6 DEF NothingSlipsPast
    <3>4. spent'["alias_bytes"] <= MaxDocumentLength /\ spent'["alias_bytes"] <= MAX_ALIAS_BYTES
      BY <2>6, <2>14, <3>1
    <3>5. jumps => \/ spent'["jump_charge"] <= e * AliasJumpFactor
                   \/ e * AliasJumpFactor >= UsizeMax
      BY <2>6, <2>15, <3>1
    <3>6. deepest' <= MaxDepth /\ deepest' <= MAX_DEPTH_CEILING
      BY <1>1, <2>1, <2>5 DEF NothingSlipsPast
    <3>. QED
      BY <3>2, <3>3, <3>4, <3>5, <3>6 DEF NothingSlipsPast, jumps
  <2>17. RefusedForCause'
    <3>1. verdict' \notin StreamCounter /\ verdict' # "aliases"
      BY <2>7 DEF StreamCounter
    <3>2. verdict' = "alias_bytes" =>
            spent'["alias_bytes"] > MaxDocumentLength \/ spent'["alias_bytes"] > MAX_ALIAS_BYTES
      BY <2>6, <2>13, <2>14
    <3>3. verdict' = "jump" => spent'["jump_charge"] > spent'["events"] * AliasJumpFactor
      BY <1>2, <2>6, <2>13, <2>15
    <3>. QED
      BY <3>1, <3>2, <3>3 DEF RefusedForCause
  <2>. QED
    BY <2>8, <2>9, <2>11, <2>12, <2>16, <2>17 DEF IInv, LimitsExact
<1>. QED
  BY <1>3, <1>4

-----------------------------------------------------------------------------
(* The invariant holds initially and every step keeps it.                  *)

\* Nothing has been charged.
LEMMA InitInv == Init => IInv
<1> SUFFICES ASSUME Init PROVE IInv
  OBVIOUS
<1>1. \A c \in Counter : spent[c] = 0 /\ meter[c] = 0
  BY DEF Init, Zero
<1>2. \A c \in StreamCounter : c \in Counter /\ tally[c] = 0 /\ foreign[c] = 0
  BY DEF Init, Zero, Counter
<1>3. TypeOK
  BY OneFits DEF Init, TypeOK, Zero, Verdict
<1>4. Saturated /\ Shared
  BY <1>1, <1>2, UsizeAssumption DEF Saturated, Shared, Sat
<1>5. {"aliases", "alias_bytes", "jump_charge", "events"} \subseteq Counter
  BY DEF Counter, StreamCounter
<1>6. /\ \A c \in StreamCounter : Limit[c] \in Nat
      /\ MaxAliasExpansions \in Nat /\ MaxDocumentLength \in Nat /\ MaxDepth \in Nat
      /\ AliasJumpFactor # NoRatio => AliasJumpFactor \in Nat
  BY MeterAssumption DEF Usize
<1>7. AliasJumpFactor # NoRatio => 0 <= 0 * AliasJumpFactor
  BY <1>6
<1>8. NothingSlipsPast
  BY <1>1, <1>2, <1>5, <1>6, <1>7, CeilingAssumption DEF Init, NothingSlipsPast, Within
<1>9. RefusedForCause
  BY DEF Init, RefusedForCause, StreamCounter
<1>. QED
  BY <1>3, <1>4, <1>8, <1>9 DEF IInv, LimitsExact

\* Every charge keeps the invariant and admits only what is within the limit.
LEMMA StepInv == IInv /\ Next => IInv' /\ Admits
<1> SUFFICES ASSUME IInv, Next PROVE IInv' /\ Admits
  OBVIOUS
<1>1. verdict = "ok" /\ Fits /\ joined' = joined
  BY DEF Next
<1>2. ASSUME deepest' = deepest PROVE Charging
  BY <1>1, <1>2 DEF Charging
<1>3. CASE deepest' = deepest /\ start_document
  BY <1>2, <1>3, DocumentStep
<1>4. CASE deepest' = deepest /\ charge_other
  BY <1>2, <1>4, OtherStep
<1>5. CASE deepest' = deepest
           /\ \E anchored \in BOOLEAN, len \in ScalarLens : charge_scalar(anchored, len)
  BY <1>2, <1>5, ScalarStep
<1>6. CASE deepest' = deepest /\ \E anchored \in BOOLEAN : charge_collection(anchored)
  BY <1>2, <1>6, CollectionStep
<1>7. CASE deepest' = deepest /\ charge_alias
  BY <1>2, <1>7, AliasStep
<1>8. CASE deepest' = deepest /\ charge_merge_key
  BY <1>2, <1>8, MergeKeyStep
<1>9. CASE deepest' = deepest /\ run_event_policies
  BY <1>2, <1>9, PolicyStep
<1>10. CASE \E cost \in Costs, site_depth \in 0 .. effective_max_depth(MaxDepth) :
              charge_expansion(cost, site_depth)
  BY <1>1, <1>10, ExpansionStep
<1>11. CASE \E o \in Others : SiblingCharges(o[1], o[2])
  BY <1>1, <1>11, SiblingStep
<1>. QED
  BY <1>3, <1>4, <1>5, <1>6, <1>7, <1>8, <1>9, <1>10, <1>11 DEF Next

\* The invariant survives a stuttering step too.
LEMMA NextInv == IInv /\ [Next]_vars => IInv'
<1> SUFFICES ASSUME IInv, [Next]_vars PROVE IInv'
  OBVIOUS
<1>1. CASE UNCHANGED vars
  BY <1>1 DEF vars, IInv, TypeOK, Saturated, Shared, LimitsExact, NothingSlipsPast, RefusedForCause
<1>. QED
  BY <1>1, StepInv

-----------------------------------------------------------------------------
(* What is proved of the meter.                                            *)

\* The invariant holds throughout every parse.
THEOREM Invariant == Spec => []IInv
<1>. QED
  BY InitInv, NextInv, PTL DEF Spec

\* The counters keep their types: the meter's are always a usize.
THEOREM TypeCorrect == Spec => []TypeOK
<1>1. IInv => TypeOK
  BY DEF IInv
<1>. QED
  BY <1>1, Invariant, PTL

\* What the meter lets through is within every limit, what it refuses is not,
\* for every width of usize, every limit and every sequence of charges.
THEOREM MeterExact == Spec => []LimitsExact
<1>1. IInv => LimitsExact
  BY DEF IInv
<1>. QED
  BY <1>1, Invariant, PTL

\* No step admits a stream-wide charge beyond the limit, whatever sibling
\* parses charged to the shared tally.
THEOREM StreamWide == Spec => AdmittedStreamWide
<1>1. IInv /\ [Next]_vars =>
        [\A c \in StreamCounter :
           (spent'[c] > spent[c] /\ verdict' = "ok")
             => Within(spent'[c] + foreign'[c], Limit[c])]_vars
  BY StepInv DEF Admits
<1>. QED
  BY <1>1, Invariant, PTL DEF Spec, AdmittedStreamWide
=============================================================================
