-------------------------- MODULE Recovery_proofs --------------------------
(***************************************************************************)
(* Proofs about the lenient parser, for every stream, configuration and    *)
(* tally limit: one value for every document, in place; the three budgets  *)
(* hold; what is salvaged is the best that the passes allow.               *)
(*                                                                         *)
(* Every pass of recover_one ends in Conclude, or goes on to the next pass *)
(* with the errors found so far.  What the later passes know of the        *)
(* earlier ones (Failed, Mode, Tried) is the invariant's share of the      *)
(* argument.                                                               *)
(***************************************************************************)
EXTENDS Recovery, SequenceTheorems, TLAPS

-----------------------------------------------------------------------------
(* The inductive invariant.                                                *)

Busy == {"strict", "duplicates", "truncate"}
Value == [by : {"null", "strict", "last", "prefix"}, cut : Nat]
Pass == {"stream", "strict", "duplicates", "truncation"}
Error == [doc : Nat, pass : Pass]

TypeOK ==
  /\ input \in Inputs /\ config \in Configs
  /\ pc \in Busy \cup {"start", "done"}
  /\ doc \in Nat \ {0}
  /\ tally \in Nat /\ budget \in Nat
  /\ found \in Seq(Pass)
  /\ cut \in Nat /\ remaining \in Nat /\ last_err \in BOOLEAN
  /\ values \in Seq(Value) /\ errors \in Seq(Error)
  /\ fed \in Nat /\ due \in Nat

\* A value stands for each document already left; a refused stream has none.
Progress ==
  /\ Len(values) = doc - 1
  /\ pc \in Busy => doc <= Len(Docs) /\ ~input.refused
  /\ pc = "start" => doc = 1 /\ errors = <<>>
  /\ pc = "done" /\ ~input.refused => doc = Len(Docs) + 1
  /\ input.refused => values = <<>>

\* The errors recorded and the budget left make up max_errors; a pass is only
\* tried when its failure can still be recorded.
BudgetLeft ==
  /\ ~input.refused => Len(errors) + budget = config.max_errors
  /\ pc \notin {"duplicates", "truncate"} => found = <<>>
  /\ pc = "duplicates" => Len(found) = 1
  /\ pc = "truncate" => Len(found) \in 1 .. 2
  /\ pc \in {"duplicates", "truncate"} => Len(found) < budget

\* The errors are those of earlier documents, in order.
ErrorsInOrder ==
  /\ \A n \in DOMAIN errors : errors[n].doc < doc
  /\ \A m, n \in DOMAIN errors : m < n => errors[m].doc <= errors[n].doc

\* The value v was made from document n.
MadeFrom(v, n) ==
  v.by # "null" =>
    /\ v.cut \in DOMAIN Docs[n].cuts
    /\ Parses(Docs[n].cuts[v.cut], TRUE)
Salvaged == \A n \in DOMAIN values : MadeFrom(values[n], n)

\* The strict pass failed on this document.
Failed ==
  pc \in {"duplicates", "truncate"} => ~Parses(Whole, config.base_last) \/ tally > MaxEvents

\* The second pass was tried exactly when it is configured and differs from
\* the first.
Mode ==
  /\ pc = "duplicates" => config.recover_duplicate_keys /\ ~config.base_last
  /\ pc = "truncate" =>
       TruncationLast = (config.base_last \/ config.recover_duplicate_keys)

\* The candidates above `cut` were blank or failed, within the bytes allowed.
Hopeless(c) ==
  c.blank \/ ~Parses(c, config.base_last \/ config.recover_duplicate_keys)
Tried ==
  /\ fed <= config.truncation_event_budget
  /\ pc = "truncate" =>
       /\ cut <= Len(Cuts)
       /\ fed + remaining = config.truncation_event_budget
       /\ \A k \in cut + 1 .. Len(Cuts) : Hopeless(Cuts[k])

IInv ==
  /\ TypeOK /\ Progress /\ BudgetLeft /\ ErrorsInOrder /\ Salvaged
  /\ Failed /\ Mode /\ Tried
  /\ ChargedOnce /\ LongestPrefix /\ BrokenAlone

-----------------------------------------------------------------------------
(* Facts about the state.                                                  *)

\* What the types give in the middle of a document.
LEMMA AtDocument ==
  ASSUME TypeOK, Progress, pc \in Busy
  PROVE  /\ Docs \in Seq(Document) /\ Len(Docs) \in Nat
         /\ doc \in 1 .. Len(Docs) /\ Docs[doc] \in Document
         /\ Cuts \in Seq(Cut) /\ Len(Cuts) \in Nat \ {0}
         /\ Whole \in Cut /\ \A k \in 1 .. Len(Cuts) : Cuts[k] \in Cut
<1>1. Docs \in Seq(Document) /\ input.refused \in BOOLEAN
  BY RecoveryAssumption DEF TypeOK, Docs
<1>2. Len(Docs) \in Nat /\ doc \in 1 .. Len(Docs)
  BY <1>1 DEF TypeOK, Progress
<1>3. Docs[doc] \in Document
  BY <1>1, <1>2
<1>4. Cuts \in Seq(Cut) /\ Cuts # <<>>
  BY <1>3 DEF Document, Cuts
<1>5. Len(Cuts) \in Nat \ {0}
  BY <1>4
<1>6. \A k \in 1 .. Len(Cuts) : Cuts[k] \in Cut
  BY <1>4
<1>7. Whole \in Cut
  BY <1>5, <1>6 DEF Whole
<1>. QED
  BY <1>1, <1>2, <1>3, <1>4, <1>5, <1>6, <1>7

\* The configuration's fields.
LEMMA ConfigTyped ==
  ASSUME TypeOK
  PROVE  /\ config.max_errors \in Nat /\ config.truncation_event_budget \in Nat
         /\ config.base_last \in BOOLEAN /\ config.recover_duplicate_keys \in BOOLEAN
         /\ config.line_truncation \in BOOLEAN /\ MaxEvents \in Nat
         /\ input.refused \in BOOLEAN /\ Docs \in Seq(Document)
BY RecoveryAssumption DEF TypeOK, Config, Docs

\* The errors Conclude appends.
LEMMA Recorded ==
  ASSUME NEW es \in Seq(Pass), NEW d \in Nat
  PROVE  LET new == [n \in DOMAIN es |-> [doc |-> d, pass |-> es[n]]]
         IN  /\ new \in Seq(Error) /\ Len(new) = Len(es)
             /\ \A n \in 1 .. Len(es) : new[n].doc = d
<1> DEFINE new == [n \in DOMAIN es |-> [doc |-> d, pass |-> es[n]]]
<1>1. DOMAIN es = 1 .. Len(es) /\ Len(es) \in Nat
  OBVIOUS
<1>2. \A n \in 1 .. Len(es) : es[n] \in Pass
  BY <1>1
<1>3. new \in [1 .. Len(es) -> Error]
  BY <1>1, <1>2 DEF Error
<1>4. new \in Seq(Error) /\ Len(new) = Len(es)
  BY <1>1, <1>3, SeqDef
<1>. QED
  BY <1>1, <1>4

-----------------------------------------------------------------------------
(* A document is left.                                                     *)

\* The value v is one that the document at hand may be given, when es are
\* recorded for it and t events have been charged.
Earned(v, es, t) ==
  /\ MadeFrom(v, doc)
  /\ v.by = "prefix" => \A k \in v.cut + 1 .. Len(Cuts) : Hopeless(Cuts[k])
  /\ /\ Parses(Whole, config.base_last) /\ t <= MaxEvents
     /\ Len(errors) + Len(es) < config.max_errors
     => v = [by |-> "strict", cut |-> Len(Cuts)]

\* Conclude keeps the invariant: it appends an earned value and errors that
\* fit the budget.
LEMMA ConcludeKeeps ==
  ASSUME IInv, pc \in Busy,
         NEW v \in Value, NEW es \in Seq(Pass), Len(es) <= budget,
         Conclude(v, es), input' = input, config' = config,
         tally' \in Nat, tally <= tally', due' \in Nat, tally' <= due',
         cut' \in Nat, remaining' \in Nat, last_err' \in BOOLEAN,
         fed' \in Nat, fed' <= config.truncation_event_budget,
         Earned(v, es, tally')
  PROVE  IInv'
<1> DEFINE new == [n \in DOMAIN es |-> [doc |-> doc, pass |-> es[n]]]
<1> HIDE DEF new
<1>0. /\ TypeOK /\ Progress /\ BudgetLeft /\ ErrorsInOrder /\ Salvaged
      /\ Failed /\ Mode /\ Tried
      /\ ChargedOnce /\ LongestPrefix /\ BrokenAlone
  BY DEF IInv
<1>1. /\ Docs \in Seq(Document) /\ Len(Docs) \in Nat
      /\ doc \in 1 .. Len(Docs) /\ Docs' = Docs
  BY <1>0, AtDocument DEF Docs
<1>2. /\ config.max_errors \in Nat /\ input.refused \in BOOLEAN /\ MaxEvents \in Nat
      /\ config.truncation_event_budget \in Nat
  BY <1>0, ConfigTyped
<1>3. new \in Seq(Error) /\ Len(new) = Len(es) /\ \A n \in 1 .. Len(es) : new[n].doc = doc
  BY <1>1, Recorded DEF new
<1>4. /\ values' = Append(values, v) /\ errors' = errors \o new
      /\ budget' = budget - Len(es) /\ found' = <<>> /\ doc' = doc + 1
      /\ pc' = IF doc < Len(Docs) THEN "strict" ELSE "done"
  BY <1>0 DEF Conclude, new, TypeOK
<1>5. values \in Seq(Value) /\ errors \in Seq(Error) /\ Len(es) \in Nat
  BY <1>0 DEF TypeOK
<1>6. /\ values' \in Seq(Value) /\ Len(values') = doc
      /\ DOMAIN values' = 1 .. doc
      /\ \A n \in 1 .. doc - 1 : values'[n] = values[n]
      /\ values'[doc] = v
  BY <1>0, <1>1, <1>4, <1>5, SMTT(30) DEF Progress
<1>7. /\ errors' \in Seq(Error) /\ Len(errors) \in Nat
      /\ Len(errors') = Len(errors) + Len(es)
      /\ \A n \in 1 .. Len(errors) + Len(es) :
           errors'[n] = IF n <= Len(errors) THEN errors[n] ELSE new[n - Len(errors)]
  <2>1. /\ errors \o new \in Seq(Error) /\ Len(errors \o new) = Len(errors) + Len(new)
        /\ \A n \in 1 .. Len(errors) + Len(new) :
             (errors \o new)[n] = IF n <= Len(errors) THEN errors[n] ELSE new[n - Len(errors)]
    BY <1>3, <1>5, ConcatProperties, Zenon
  <2>2. Len(errors) \in Nat
    BY <1>5
  <2>. QED
    BY <1>3, <1>4, <2>1, <2>2, Zenon
<1>8. DOMAIN values = 1 .. doc - 1 /\ ~input.refused
  BY <1>0, <1>1, <1>5, SMTT(60) DEF Progress
<1>9. TypeOK'
  <2>1. /\ doc' \in Nat \ {0} /\ budget' \in Nat
        /\ pc' \in Busy \cup {"start", "done"} /\ found' \in Seq(Pass)
    BY <1>0, <1>1, <1>4, <1>5 DEF TypeOK, Busy
  <2>. QED
    BY <1>0, <1>6, <1>7, <2>1, Zenon DEF TypeOK
<1>10. Progress'
  BY <1>1, <1>4, <1>6, <1>8, SMTT(30) DEF Progress, Busy
<1>11. BudgetLeft'
  BY <1>0, <1>2, <1>4, <1>5, <1>7 DEF BudgetLeft, TypeOK
<1>12. ErrorsInOrder'
  <2>1. \A n \in 1 .. Len(errors') :
          IF n <= Len(errors) THEN errors'[n] = errors[n] ELSE errors'[n].doc = doc
    <3> SUFFICES ASSUME NEW n \in 1 .. Len(errors) + Len(es), ~(n <= Len(errors))
                 PROVE  errors'[n].doc = doc
      BY <1>7
    <3>1. n - Len(errors) \in 1 .. Len(es)
      BY <1>5, <1>7
    <3>. QED
      BY <1>3, <1>7, <3>1
  <2>2. DOMAIN errors' = 1 .. Len(errors') /\ DOMAIN errors = 1 .. Len(errors)
    BY <1>5, <1>7
  <2>3. \A n \in 1 .. Len(errors) : errors[n].doc \in Nat
    <3>1. \A n \in 1 .. Len(errors) : errors[n] \in Error
      BY <1>5
    <3>. QED
      BY <3>1 DEF Error
  <2>4. \A n \in 1 .. Len(errors') : errors'[n].doc <= doc /\ errors'[n].doc \in Nat
    <3> SUFFICES ASSUME NEW n \in 1 .. Len(errors')
                 PROVE  errors'[n].doc <= doc /\ errors'[n].doc \in Nat
      OBVIOUS
    <3>1. CASE n <= Len(errors)
      <4>1. n \in 1 .. Len(errors) /\ errors'[n] = errors[n]
        BY <1>7, <2>1, <3>1
      <4>2. errors[n].doc < doc /\ errors[n].doc \in Nat
        BY <1>0, <2>2, <2>3, <4>1 DEF ErrorsInOrder
      <4>. QED
        BY <1>1, <4>1, <4>2, SMTT(60)
    <3>2. CASE ~(n <= Len(errors))
      BY <1>1, <2>1, <3>2, SMTT(60)
    <3>. QED
      BY <3>1, <3>2
  <2>5. \A m, n \in 1 .. Len(errors') : m < n => errors'[m].doc <= errors'[n].doc
    <3> SUFFICES ASSUME NEW m \in 1 .. Len(errors'), NEW n \in 1 .. Len(errors'), m < n
                 PROVE  errors'[m].doc <= errors'[n].doc
      OBVIOUS
    <3>1. CASE n <= Len(errors)
      <4>1. m \in DOMAIN errors /\ n \in DOMAIN errors
        BY <1>7, <2>2, <3>1
      <4>2. errors'[m] = errors[m] /\ errors'[n] = errors[n]
        BY <2>1, <2>2, <4>1
      <4>. QED
        BY <1>0, <4>1, <4>2 DEF ErrorsInOrder
    <3>2. CASE ~(n <= Len(errors))
      BY <1>1, <2>1, <2>4, <3>2
    <3>. QED
      BY <3>1, <3>2
  <2>. QED
    <3>0. doc' = doc + 1
      BY <1>4
    <3>1. \A n \in 1 .. Len(errors') : errors'[n].doc < doc'
      BY <1>1, <2>4, <3>0, SMTT(60)
    <3>. QED
      BY <2>2, <2>5, <3>1, Zenon DEF ErrorsInOrder
<1>13. Salvaged'
  <2> SUFFICES ASSUME NEW n \in 1 .. doc PROVE MadeFrom(values'[n], n)
    BY <1>1, <1>6 DEF Salvaged, MadeFrom
  <2>1. CASE n \in 1 .. doc - 1
    BY <1>0, <1>6, <1>8, <2>1 DEF Salvaged
  <2>2. CASE n = doc
    BY <1>6, <2>2 DEF Earned
  <2>. QED
    BY <1>1, <2>1, <2>2
<1>14. Failed' /\ Mode' /\ Tried'
  BY <1>2, <1>4 DEF Failed, Mode, Tried
<1>15. ChargedOnce'
  BY DEF ChargedOnce
<1>16. LongestPrefix'
  <2> SUFFICES ASSUME NEW n \in 1 .. doc, values'[n].by = "prefix",
                      NEW k \in values'[n].cut + 1 .. Len(Docs[n].cuts)
               PROVE  Hopeless(Docs[n].cuts[k])
    BY <1>1, <1>6 DEF LongestPrefix, Hopeless
  <2>1. CASE n \in 1 .. doc - 1
    BY <1>0, <1>6, <1>8, <2>1 DEF LongestPrefix, Hopeless
  <2>2. CASE n = doc
    BY <1>6, <2>2 DEF Earned, Cuts
  <2>. QED
    BY <1>1, <2>1, <2>2
<1>17. BrokenAlone'
  <2> SUFFICES ASSUME NEW n \in 1 .. doc,
                      Parses(Docs[n].cuts[Len(Docs[n].cuts)], config.base_last),
                      tally' <= MaxEvents, Len(errors') < config.max_errors
               PROVE  values'[n] = [by |-> "strict", cut |-> Len(Docs[n].cuts)]
    BY <1>1, <1>6 DEF BrokenAlone
  <2>1. tally <= MaxEvents /\ Len(errors) < config.max_errors
    BY <1>0, <1>2, <1>5, <1>7, SMTT(30) DEF TypeOK
  <2>2. CASE n \in 1 .. doc - 1
    <3>1. n \in DOMAIN values /\ values'[n] = values[n]
      BY <1>6, <1>8, <2>2
    <3>. QED
      BY <1>0, <2>1, <3>1 DEF BrokenAlone
  <2>3. CASE n = doc
    BY <1>1, <1>6, <1>7, <2>3 DEF Earned, Whole, Cuts
  <2>. QED
    BY <1>1, <2>2, <2>3
<1>. QED
  BY <1>9, <1>10, <1>11, <1>12, <1>13, <1>14, <1>15, <1>16, <1>17 DEF IInv

-----------------------------------------------------------------------------
(* The invariant holds initially and every action keeps it.                *)

\* Nothing has been parsed yet.
LEMMA InitInv == Init => IInv
<1> SUFFICES ASSUME Init PROVE IInv
  OBVIOUS
<1>1. TypeOK
  <2>1. config \in Config
    BY RecoveryAssumption DEF Init
  <2>2. config.max_errors \in Nat
    BY <2>1 DEF Config
  <2>3. <<>> \in Seq(Pass) /\ <<>> \in Seq(Value) /\ <<>> \in Seq(Error)
    OBVIOUS
  <2>4. 0 \in Nat /\ 1 \in Nat \ {0} /\ "start" \in Busy \cup {"start", "done"}
    OBVIOUS
  <2>. QED
    BY <2>2, <2>3, <2>4, Zenon DEF Init, TypeOK
<1>2. config.max_errors \in Nat /\ config.truncation_event_budget \in Nat
  BY <1>1, ConfigTyped
<1>3. Progress /\ BudgetLeft /\ Failed /\ Mode /\ Tried /\ ChargedOnce
  BY <1>2 DEF Init, Progress, BudgetLeft, Failed, Mode, Tried, ChargedOnce, Busy
<1>4. ErrorsInOrder /\ Salvaged /\ LongestPrefix /\ BrokenAlone
  BY DEF Init, ErrorsInOrder, Salvaged, LongestPrefix, BrokenAlone
<1>. QED
  BY <1>1, <1>3, <1>4 DEF IInv

\* The early returns of parse_lenient_with.
LEMMA StartStep == IInv /\ Start => IInv'
<1> SUFFICES ASSUME IInv, Start PROVE IInv'
  OBVIOUS
<1>0. /\ TypeOK /\ Progress /\ BudgetLeft /\ ErrorsInOrder /\ Salvaged
      /\ Failed /\ Mode /\ Tried
      /\ ChargedOnce /\ LongestPrefix /\ BrokenAlone
  BY DEF IInv
<1>1. /\ pc = "start" /\ doc = 1 /\ values = <<>> /\ errors = <<>> /\ found = <<>>
      /\ input.refused \in BOOLEAN /\ Docs \in Seq(Document) /\ Docs' = Docs
      /\ config.max_errors \in Nat
  BY <1>0, ConfigTyped DEF Start, Progress, TypeOK, BudgetLeft, Docs
<1>2. /\ input' = input /\ config' = config /\ doc' = doc /\ tally' = tally
      /\ budget' = budget /\ found' = found /\ cut' = cut /\ remaining' = remaining
      /\ last_err' = last_err /\ values' = values /\ fed' = fed /\ due' = due
      /\ pc' = IF input.refused \/ Docs = <<>> THEN "done" ELSE "strict"
      /\ errors' = IF input.refused THEN <<[doc |-> 0, pass |-> "stream"]>> ELSE <<>>
  BY DEF Start
<1>3. TypeOK'
  <2>1. [doc |-> 0, pass |-> "stream"] \in Error
    BY DEF Error, Pass
  <2>2. errors' \in Seq(Error)
    BY <1>1, <1>2, <2>1
  <2>. QED
    BY <1>0, <1>2, <2>2 DEF TypeOK, Busy
<1>4. Progress'
  BY <1>0, <1>1, <1>2 DEF Progress, Busy
<1>5. BudgetLeft'
  BY <1>0, <1>1, <1>2 DEF BudgetLeft
<1>6. ErrorsInOrder'
  BY <1>1, <1>2 DEF ErrorsInOrder
<1>7. Salvaged' /\ LongestPrefix' /\ BrokenAlone'
  BY <1>1, <1>2 DEF Salvaged, LongestPrefix, BrokenAlone
<1>8. Failed' /\ Mode' /\ Tried' /\ ChargedOnce'
  BY <1>0, <1>1, <1>2 DEF Failed, Mode, Tried, ChargedOnce
<1>. QED
  BY <1>3, <1>4, <1>5, <1>6, <1>7, <1>8 DEF IInv

\* A document beyond the error cap.
LEMMA SkipStep == IInv /\ Skip => IInv'
<1> SUFFICES ASSUME IInv, Skip PROVE IInv'
  OBVIOUS
<1>1. TypeOK /\ Progress /\ BudgetLeft /\ Tried /\ ChargedOnce
  BY DEF IInv
<1>2. pc \in Busy /\ budget = 0 /\ Conclude(Null, <<>>)
  BY DEF Skip, Busy
<1>3. Null \in Value /\ Null.by = "null" /\ <<>> \in Seq(Pass) /\ Len(<<>>) = 0
  BY DEF Null, Value
<1>4. Earned(Null, <<>>, tally')
  BY <1>1, <1>2, <1>3, ConfigTyped DEF Earned, MadeFrom, Progress, BudgetLeft, TypeOK
<1>5. /\ input' = input /\ config' = config /\ tally' = tally /\ cut' = cut
      /\ remaining' = remaining /\ last_err' = last_err /\ fed' = fed /\ due' = due
  BY DEF Skip
<1>6. /\ tally' \in Nat /\ tally <= tally' /\ due' \in Nat /\ tally' <= due'
      /\ cut' \in Nat /\ remaining' \in Nat /\ last_err' \in BOOLEAN
      /\ fed' \in Nat /\ fed' <= config.truncation_event_budget
  BY <1>1, <1>5 DEF TypeOK, Tried, ChargedOnce
<1>7. Len(<<>>) <= budget
  BY <1>2, <1>3
<1>. QED
  BY <1>2, <1>3, <1>4, <1>5, <1>6, <1>7, ConcludeKeeps

\* Going on to the truncation pass, or giving up, after the errors es.
LEMMA StartTruncationKeeps ==
  ASSUME IInv, pc \in {"strict", "duplicates"},
         NEW es \in Seq(Pass), Len(es) \in 1 .. 2, Len(es) <= budget,
         Len(es) < budget =>
           (config.base_last \/ Len(es) = 2) = (config.base_last \/ config.recover_duplicate_keys),
         StartTruncation(es), input' = input, config' = config,
         tally' \in Nat, tally <= tally', due' \in Nat, tally' <= due',
         ~Parses(Whole, config.base_last) \/ tally' > MaxEvents
  PROVE  IInv'
<1>0. /\ TypeOK /\ Progress /\ BudgetLeft /\ ErrorsInOrder /\ Salvaged
      /\ Failed /\ Mode /\ Tried
      /\ ChargedOnce /\ LongestPrefix /\ BrokenAlone
  BY DEF IInv
<1>1. /\ Len(Cuts) \in Nat \ {0} /\ config.max_errors \in Nat /\ MaxEvents \in Nat
      /\ config.truncation_event_budget \in Nat /\ input.refused \in BOOLEAN
      /\ pc \in Busy
  BY <1>0, AtDocument, ConfigTyped DEF Busy
<1>2. CASE config.line_truncation /\ Len(es) < budget
  <2>1. /\ pc' = "truncate" /\ found' = es
        /\ cut' = Len(Cuts) /\ remaining' = config.truncation_event_budget
        /\ last_err' = FALSE /\ fed' = 0
        /\ doc' = doc /\ budget' = budget /\ values' = values /\ errors' = errors
    BY <1>2 DEF StartTruncation
  <2>2. Docs' = Docs /\ Cuts' = Cuts /\ Whole' = Whole
    BY <2>1 DEF Docs, Cuts, Whole
  <2>3. TypeOK'
    BY <1>0, <1>1, <2>1 DEF TypeOK, Busy
  <2>4. Progress' /\ BudgetLeft'
    BY <1>0, <1>1, <1>2, <2>1, <2>2 DEF Progress, BudgetLeft, Busy
  <2>5. ErrorsInOrder'
    BY <1>0, <2>1 DEF ErrorsInOrder
  <2>6. Salvaged' /\ LongestPrefix'
    BY <1>0, <2>1, <2>2 DEF Salvaged, MadeFrom, LongestPrefix
  <2>7. Failed' /\ Mode' /\ Tried' /\ ChargedOnce'
    BY <1>1, <1>2, <2>1, <2>2 DEF Failed, Mode, Tried, ChargedOnce, TruncationLast
  <2>8. BrokenAlone'
    BY <1>0, <1>1, <2>1, <2>2, SMTT(30) DEF BrokenAlone, TypeOK
  <2>. QED
    BY <2>3, <2>4, <2>5, <2>6, <2>7, <2>8 DEF IInv
<1>3. CASE ~(config.line_truncation /\ Len(es) < budget)
  <2>1. /\ Conclude(Null, es) /\ cut' = cut /\ remaining' = remaining
        /\ last_err' = last_err /\ fed' = fed
    BY <1>3 DEF StartTruncation
  <2>2. Null \in Value /\ Null.by = "null"
    BY DEF Null, Value
  <2>3. Earned(Null, es, tally')
    BY <1>1, <2>2 DEF Earned, MadeFrom
  <2>4. /\ cut' \in Nat /\ remaining' \in Nat /\ last_err' \in BOOLEAN
        /\ fed' \in Nat /\ fed' <= config.truncation_event_budget
    BY <1>0, <2>1 DEF TypeOK, Tried
  <2>. QED
    BY <1>1, <2>1, <2>2, <2>3, <2>4, ConcludeKeeps
<1>. QED
  BY <1>2, <1>3

\* The first pass: the document is returned whole, tried again or given up.
LEMMA StrictStep == IInv /\ StrictPass => IInv'
<1> SUFFICES ASSUME IInv, StrictPass PROVE IInv'
  OBVIOUS
<1>0. /\ TypeOK /\ Progress /\ BudgetLeft /\ ErrorsInOrder /\ Salvaged
      /\ Failed /\ Mode /\ Tried
      /\ ChargedOnce /\ LongestPrefix /\ BrokenAlone
  BY DEF IInv
<1>1. /\ pc = "strict" /\ pc \in Busy /\ budget > 0 /\ found = <<>>
      /\ input' = input /\ config' = config /\ due' = due + Docs[doc].events
  BY <1>0 DEF StrictPass, BudgetLeft, Busy
<1>2. /\ Docs[doc].events \in Nat /\ Len(Cuts) \in Nat \ {0}
      /\ Docs \in Seq(Document) /\ Whole \in Cut
  BY <1>0, <1>1, AtDocument DEF Document
<1>3. /\ config.max_errors \in Nat /\ MaxEvents \in Nat
      /\ config.base_last \in BOOLEAN /\ config.recover_duplicate_keys \in BOOLEAN
  BY <1>0, ConfigTyped
<1>4. PICK n \in 0 .. Docs[doc].events, ok \in BOOLEAN :
        /\ Charges(n, ok) /\ tally' = tally + n
        /\ IF ok
           THEN /\ Conclude([by |-> "strict", cut |-> Len(Cuts)], <<>>)
                /\ UNCHANGED <<cut, remaining, last_err, fed>>
           ELSE IF Retries(<<"strict">>)
           THEN /\ found' = <<"strict">> /\ pc' = "duplicates"
                /\ UNCHANGED <<doc, budget, cut, remaining, last_err, values, errors, fed>>
           ELSE StartTruncation(<<"strict">>)
  BY DEF StrictPass
<1>5. tally' \in Nat /\ tally <= tally' /\ due' \in Nat /\ tally' <= due'
  BY <1>0, <1>1, <1>2, <1>4, SMTT(30) DEF TypeOK, ChargedOnce
<1>6. ok => Parses(Whole, config.base_last)
  BY <1>4 DEF Charges
<1>7. ~ok => ~Parses(Whole, config.base_last) \/ tally' > MaxEvents
  BY <1>4 DEF Charges
<1>8. <<"strict">> \in Seq(Pass) /\ Len(<<"strict">>) = 1
  BY DEF Pass
<1>9. CASE ok
  <2> DEFINE v == [by |-> "strict", cut |-> Len(Cuts)]
  <2>1. v \in Value /\ v.by = "strict" /\ v.cut = Len(Cuts)
    BY <1>2 DEF Value
  <2>2. Earned(v, <<>>, tally')
    <3>1. v.cut \in DOMAIN Docs[doc].cuts
      BY <1>0, <1>1, <1>2, <2>1, AtDocument DEF Cuts
    <3>2. Parses(Docs[doc].cuts[v.cut], TRUE)
      BY <1>6, <1>9, <2>1 DEF Parses, Whole, Cuts
    <3>. QED
      BY <2>1, <3>1, <3>2 DEF Earned, MadeFrom
  <2>3. /\ cut' \in Nat /\ remaining' \in Nat /\ last_err' \in BOOLEAN
        /\ fed' \in Nat /\ fed' <= config.truncation_event_budget
    BY <1>0, <1>4, <1>9 DEF TypeOK, Tried
  <2>4. Conclude(v, <<>>)
    BY <1>4, <1>9
  <2>5. <<>> \in Seq(Pass) /\ Len(<<>>) <= budget
    BY <1>0 DEF TypeOK
  <2> HIDE DEF v
  <2>. QED
    BY <1>1, <1>5, <2>1, <2>2, <2>3, <2>4, <2>5, ConcludeKeeps
<1>10. CASE ~ok /\ Retries(<<"strict">>)
  <2>1. /\ found' = <<"strict">> /\ pc' = "duplicates" /\ doc' = doc /\ budget' = budget
        /\ cut' = cut /\ remaining' = remaining /\ last_err' = last_err
        /\ values' = values /\ errors' = errors /\ fed' = fed
    BY <1>4, <1>10
  <2>2. /\ config.recover_duplicate_keys /\ ~config.base_last /\ 1 < budget
    BY <1>8, <1>10 DEF Retries
  <2>3. Docs' = Docs /\ Cuts' = Cuts /\ Whole' = Whole
    BY <1>1, <2>1 DEF Docs, Cuts, Whole
  <2>4. TypeOK'
    BY <1>0, <1>1, <1>5, <1>8, <2>1 DEF TypeOK, Busy
  <2>5. Progress' /\ BudgetLeft'
    BY <1>0, <1>1, <1>8, <2>1, <2>2, <2>3 DEF Progress, BudgetLeft, Busy
  <2>6. ErrorsInOrder'
    BY <1>0, <2>1 DEF ErrorsInOrder
  <2>7. Salvaged' /\ LongestPrefix'
    BY <1>0, <1>1, <2>1, <2>3 DEF Salvaged, MadeFrom, LongestPrefix
  <2>8. Failed' /\ Mode' /\ Tried' /\ ChargedOnce'
    BY <1>0, <1>1, <1>5, <1>7, <1>10, <2>1, <2>2, <2>3 DEF Failed, Mode, Tried, ChargedOnce
  <2>9. BrokenAlone'
    BY <1>0, <1>1, <1>3, <1>5, <2>1, <2>3 DEF BrokenAlone, TypeOK
  <2>. QED
    BY <2>4, <2>5, <2>6, <2>7, <2>8, <2>9 DEF IInv
<1>11. CASE ~ok /\ ~Retries(<<"strict">>)
  <2>1. StartTruncation(<<"strict">>)
    BY <1>4, <1>11
  <2>2. Len(<<"strict">>) \in 1 .. 2 /\ Len(<<"strict">>) <= budget
    BY <1>0, <1>1, <1>8 DEF TypeOK
  <2>3. Len(<<"strict">>) < budget =>
          (config.base_last \/ Len(<<"strict">>) = 2)
            = (config.base_last \/ config.recover_duplicate_keys)
    BY <1>3, <1>8, <1>11 DEF Retries
  <2>4. ~Parses(Whole, config.base_last) \/ tally' > MaxEvents
    BY <1>7, <1>11
  <2>. QED
    BY <1>1, <1>5, <1>8, <2>1, <2>2, <2>3, <2>4, StartTruncationKeeps
<1>. QED
  BY <1>9, <1>10, <1>11

\* The second pass.
LEMMA DuplicatesStep == IInv /\ DuplicatesPass => IInv'
<1> SUFFICES ASSUME IInv, DuplicatesPass PROVE IInv'
  OBVIOUS
<1>0. TypeOK /\ Progress /\ BudgetLeft /\ Failed /\ Mode /\ Tried /\ ChargedOnce
  BY DEF IInv
<1>1. /\ pc = "duplicates" /\ pc \in Busy /\ Len(found) = 1 /\ Len(found) < budget
      /\ config.recover_duplicate_keys /\ ~config.base_last
      /\ ~Parses(Whole, config.base_last) \/ tally > MaxEvents
      /\ input' = input /\ config' = config /\ tally' = tally /\ due' = due
  BY <1>0 DEF DuplicatesPass, BudgetLeft, Failed, Mode, Busy
<1>2. Len(Cuts) \in Nat \ {0} /\ Len(Cuts) \in DOMAIN Cuts
  BY <1>0, <1>1, AtDocument
<1>3. /\ tally' \in Nat /\ tally <= tally' /\ due' \in Nat /\ tally' <= due'
      /\ found \in Seq(Pass) /\ budget \in Nat /\ MaxEvents \in Nat
  BY <1>0, <1>1, ConfigTyped DEF TypeOK, ChargedOnce
<1>4. CASE Parses(Whole, TRUE)
  <2> DEFINE v == [by |-> "last", cut |-> Len(Cuts)]
  <2>1. v \in Value /\ v.by = "last" /\ v.cut = Len(Cuts)
    BY <1>2 DEF Value
  <2>2. Earned(v, found, tally')
    <3>1. MadeFrom(v, doc)
      BY <1>2, <1>4, <2>1 DEF MadeFrom, Whole, Cuts
    <3>. QED
      BY <1>1, <1>3, <2>1, <3>1 DEF Earned
  <2>3. /\ Conclude(v, found) /\ cut' = cut /\ remaining' = remaining
        /\ last_err' = last_err /\ fed' = fed
    BY <1>4 DEF DuplicatesPass
  <2>4. /\ cut' \in Nat /\ remaining' \in Nat /\ last_err' \in BOOLEAN
        /\ fed' \in Nat /\ fed' <= config.truncation_event_budget
    BY <1>0, <2>3 DEF TypeOK, Tried
  <2>5. Len(found) <= budget
    BY <1>1, <1>3
  <2> HIDE DEF v
  <2>. QED
    BY <1>1, <1>3, <2>1, <2>2, <2>3, <2>4, <2>5, ConcludeKeeps
<1>5. CASE ~Parses(Whole, TRUE)
  <2> DEFINE es == Append(found, "duplicates")
  <2>1. es \in Seq(Pass) /\ Len(es) = 2
    <3>1. "duplicates" \in Pass
      BY DEF Pass
    <3>2. es \in Seq(Pass) /\ Len(es) = Len(found) + 1
      BY <1>3, <3>1, AppendProperties, Zenon
    <3>. QED
      BY <1>1, <3>2
  <2>2. StartTruncation(es)
    BY <1>5 DEF DuplicatesPass
  <2> HIDE DEF es
  <2>3. Len(es) \in 1 .. 2 /\ Len(es) <= budget
    BY <1>1, <1>3, <2>1
  <2>4. Len(es) < budget =>
          (config.base_last \/ Len(es) = 2) = (config.base_last \/ config.recover_duplicate_keys)
    BY <1>1, <2>1
  <2>. QED
    BY <1>1, <1>3, <2>1, <2>2, <2>3, <2>4, StartTruncationKeeps
<1>. QED
  BY <1>4, <1>5

\* One candidate of the truncation pass.
LEMMA TruncateStep == IInv /\ TruncatePass => IInv'
<1> SUFFICES ASSUME IInv, TruncatePass PROVE IInv'
  OBVIOUS
<1>0. /\ TypeOK /\ Progress /\ BudgetLeft /\ ErrorsInOrder /\ Salvaged
      /\ Failed /\ Mode /\ Tried
      /\ ChargedOnce /\ LongestPrefix /\ BrokenAlone
  BY DEF IInv
<1> DEFINE last == config.base_last \/ config.recover_duplicate_keys
<1>1. /\ pc = "truncate" /\ pc \in Busy /\ Len(found) < budget
      /\ TruncationLast = last
      /\ ~Parses(Whole, config.base_last) \/ tally > MaxEvents
      /\ cut <= Len(Cuts) /\ fed + remaining = config.truncation_event_budget
      /\ \A k \in cut + 1 .. Len(Cuts) : Hopeless(Cuts[k])
      /\ input' = input /\ config' = config /\ tally' = tally /\ due' = due
  BY <1>0 DEF TruncatePass, BudgetLeft, Failed, Mode, Tried, Busy
<1>2. /\ Len(Cuts) \in Nat \ {0} /\ DOMAIN Cuts = 1 .. Len(Cuts)
      /\ \A k \in 1 .. Len(Cuts) : Cuts[k] \in Cut
  BY <1>0, <1>1, AtDocument
<1>3. /\ tally' \in Nat /\ tally <= tally' /\ due' \in Nat /\ tally' <= due'
      /\ found \in Seq(Pass) /\ budget \in Nat /\ MaxEvents \in Nat
      /\ cut \in Nat /\ remaining \in Nat /\ fed \in Nat /\ last_err \in BOOLEAN
      /\ config.truncation_event_budget \in Nat
  BY <1>0, <1>1, ConfigTyped DEF TypeOK, ChargedOnce
<1>4. CASE cut = 0 \/ (~Cuts[cut].blank /\ Cuts[cut].len > remaining)
  <2> DEFINE es == IF last_err /\ Len(found) < budget THEN Append(found, "truncation") ELSE found
  <2>1. es \in Seq(Pass) /\ Len(es) <= budget
    BY <1>1, <1>3 DEF Pass
  <2>2. /\ Conclude(Null, es) /\ cut' = cut /\ remaining' = remaining
        /\ last_err' = last_err /\ fed' = fed
    BY <1>4 DEF TruncatePass, Exhausted
  <2> HIDE DEF es
  <2>3. Null \in Value /\ Null.by = "null"
    BY DEF Null, Value
  <2>4. Earned(Null, es, tally')
    BY <1>1, <1>3, <2>3 DEF Earned, MadeFrom
  <2>5. fed <= config.truncation_event_budget
    BY <1>1, <1>3
  <2>. QED
    BY <1>1, <1>3, <2>1, <2>2, <2>3, <2>4, <2>5, ConcludeKeeps
<1>5. CASE ~(cut = 0 \/ (~Cuts[cut].blank /\ Cuts[cut].len > remaining))
  <2>1. cut \in 1 .. Len(Cuts) /\ Cuts[cut].len \in Nat
    BY <1>1, <1>2, <1>3, <1>5 DEF Cut
  <2>2. CASE ~Cuts[cut].blank /\ Parses(Cuts[cut], TruncationLast)
    <3> DEFINE v == [by |-> "prefix", cut |-> cut]
    <3>1. v \in Value /\ v.by = "prefix" /\ v.cut = cut
      BY <1>3 DEF Value
    <3>2. /\ Conclude(v, found) /\ cut' = cut /\ last_err' = last_err
          /\ remaining' = remaining - Cuts[cut].len /\ fed' = fed + Cuts[cut].len
      BY <1>5, <2>2 DEF TruncatePass
    <3>3. Earned(v, found, tally')
      <4>1. MadeFrom(v, doc)
        BY <1>2, <2>1, <2>2, <3>1 DEF MadeFrom, Parses, Cuts
      <4>. QED
        BY <1>1, <1>3, <3>1, <4>1 DEF Earned
    <3>4. /\ cut' \in Nat /\ remaining' \in Nat /\ last_err' \in BOOLEAN
          /\ fed' \in Nat /\ fed' <= config.truncation_event_budget
      <4>1. Cuts[cut].len <= remaining
        BY <1>3, <1>5, <2>1, <2>2
      <4>2. cut' = cut /\ last_err' = last_err
        BY <3>2
      <4>3. remaining' = remaining - Cuts[cut].len /\ fed' = fed + Cuts[cut].len
        BY <3>2
      <4>4. remaining' \in Nat /\ fed' \in Nat /\ fed' <= config.truncation_event_budget
        BY <1>1, <1>3, <2>1, <4>1, <4>3, SMTT(30)
      <4>. QED
        BY <1>3, <4>2, <4>4
    <3>5. Len(found) <= budget
      BY <1>1, <1>3
    <3> HIDE DEF v
    <3>. QED
      BY <1>1, <1>3, <3>1, <3>2, <3>3, <3>4, <3>5, ConcludeKeeps
  <2>3. CASE Cuts[cut].blank \/ ~Parses(Cuts[cut], TruncationLast)
    <3>1. /\ cut' = cut - 1 /\ pc' = pc /\ doc' = doc /\ budget' = budget /\ found' = found
          /\ values' = values /\ errors' = errors
      BY <1>5, <2>3 DEF TruncatePass
    <3>2. /\ last_err' \in BOOLEAN /\ remaining' \in Nat /\ fed' \in Nat
          /\ fed' + remaining' = config.truncation_event_budget
      <4>1. CASE Cuts[cut].blank
        BY <1>1, <1>3, <1>5, <4>1 DEF TruncatePass
      <4>2. CASE ~Cuts[cut].blank
        <5>1. /\ remaining' = remaining - Cuts[cut].len /\ fed' = fed + Cuts[cut].len
              /\ last_err' = TRUE
          BY <1>5, <2>3, <4>2 DEF TruncatePass
        <5>. QED
          BY <1>1, <1>3, <1>5, <2>1, <4>2, <5>1, SMTT(30)
      <4>. QED
        BY <4>1, <4>2
    <3>3. Docs' = Docs /\ Cuts' = Cuts /\ Whole' = Whole
      BY <1>1, <3>1 DEF Docs, Cuts, Whole
    <3>4. TypeOK'
      BY <1>0, <1>1, <1>3, <2>1, <3>1, <3>2 DEF TypeOK
    <3>5. Progress' /\ BudgetLeft'
      BY <1>0, <1>1, <3>1, <3>3 DEF Progress, BudgetLeft
    <3>6. ErrorsInOrder'
      BY <1>0, <3>1 DEF ErrorsInOrder
    <3>7. Salvaged' /\ LongestPrefix'
      BY <1>0, <1>1, <3>1, <3>3 DEF Salvaged, MadeFrom, LongestPrefix
    <3>8. Failed' /\ Mode' /\ ChargedOnce'
      BY <1>0, <1>1, <3>1, <3>3 DEF Failed, Mode, ChargedOnce, TruncationLast
    <3>9. Tried'
      <4>1. Hopeless(Cuts[cut])
        BY <1>1, <2>3 DEF Hopeless
      <4>2. \A k \in cut .. Len(Cuts) : Hopeless(Cuts[k])
        BY <1>1, <1>2, <1>3, <4>1
      <4>3. cut' + 1 = cut
        BY <1>3, <2>1, <3>1
      <4>4. (\A k \in cut + 1 .. Len(Cuts) : Hopeless(Cuts[k]))'
        BY <1>1, <3>3, <4>2, <4>3 DEF Hopeless
      <4>. QED
        BY <1>1, <1>2, <1>3, <2>1, <3>1, <3>2, <3>3, <4>4, SMTT(30) DEF Tried
    <3>10. BrokenAlone'
      BY <1>0, <1>1, <3>1, <3>3 DEF BrokenAlone
    <3>. QED
      BY <3>4, <3>5, <3>6, <3>7, <3>8, <3>9, <3>10 DEF IInv
  <2>. QED
    BY <2>2, <2>3
<1>. QED
  BY <1>4, <1>5

\* Every step of the lenient parser keeps the invariant.
LEMMA NextInv == IInv /\ [Next]_vars => IInv'
<1> SUFFICES ASSUME IInv, [Next]_vars PROVE IInv'
  OBVIOUS
<1>1. CASE UNCHANGED vars
  BY <1>1 DEF vars, IInv, TypeOK, Progress, BudgetLeft, ErrorsInOrder, Salvaged, MadeFrom,
              Failed, Mode, TruncationLast, Tried, Hopeless, ChargedOnce, LongestPrefix,
              BrokenAlone, Docs, Cuts, Whole
<1>2. CASE Start
  BY <1>2, StartStep
<1>3. CASE Skip
  BY <1>3, SkipStep
<1>4. CASE StrictPass
  BY <1>4, StrictStep
<1>5. CASE DuplicatesPass
  BY <1>5, DuplicatesStep
<1>6. CASE TruncatePass
  BY <1>6, TruncateStep
<1>. QED
  BY <1>1, <1>2, <1>3, <1>4, <1>5, <1>6 DEF Next

-----------------------------------------------------------------------------
(* What is proved of the lenient parser.                                   *)

\* The invariant holds throughout every run of parse_lenient_with.
THEOREM Invariant == Spec => []IInv
<1>. QED
  BY InitInv, NextInv, PTL DEF Spec

\* The state keeps its types.
THEOREM TypeCorrect == Spec => []TypeOK
<1>1. IInv => TypeOK
  BY DEF IInv
<1>. QED
  BY <1>1, Invariant, PTL

\* One value for every document, made from that document, and the errors in
\* source order, for any number of documents and any configuration.
THEOREM DocumentsAligned == Spec => []Aligned
<1>1. IInv => Aligned
  <2> SUFFICES ASSUME IInv PROVE Aligned
    OBVIOUS
  <2>1. TypeOK /\ Progress /\ ErrorsInOrder /\ Salvaged
    BY DEF IInv
  <2>2. Len(Docs) \in Nat
    BY <2>1, ConfigTyped
  <2>3. pc = "done" /\ ~input.refused => Len(values) = Len(Docs)
    BY <2>1, <2>2 DEF Progress, TypeOK
  <2>. QED
    BY <2>1, <2>3 DEF Aligned, ErrorsInOrder, Salvaged, MadeFrom
<1>. QED
  BY <1>1, Invariant, PTL

\* The errors stay within max_errors, the bytes re-fed within the truncation
\* budget, and the tally is charged once for each document.
THEOREM BudgetsKept == Spec => []WithinBudgets
<1>1. IInv => WithinBudgets
  <2> SUFFICES ASSUME IInv PROVE WithinBudgets
    OBVIOUS
  <2>1. TypeOK /\ BudgetLeft /\ Tried /\ ChargedOnce
    BY DEF IInv
  <2>2. found = <<>> \/ Len(found) < budget
    BY <2>1 DEF BudgetLeft
  <2>3. ErrorCap
    BY <2>1, <2>2, ConfigTyped DEF ErrorCap, BudgetLeft, TypeOK
  <2>. QED
    BY <2>1, <2>3 DEF WithinBudgets, WorkBounded, Tried
<1>. QED
  BY <1>1, Invariant, PTL

\* A document that parses is returned whole whatever the others do, and a
\* broken one loses no more lines than it must.
THEOREM SalvageIsBest == Spec => []BestSalvage
<1>1. IInv => BestSalvage
  BY DEF IInv, BestSalvage
<1>. QED
  BY <1>1, Invariant, PTL
=============================================================================
