------------------------------ MODULE Recovery ------------------------------
(***************************************************************************)
(* The lenient parser of recovery.rs: parse_lenient_with walks the         *)
(* documents of a stream, and recover_one tries each in three passes:      *)
(* strict, under the stream-wide tally; with duplicate keys allowed; then  *)
(* with trailing lines dropped, under a byte budget.                       *)
(*                                                                         *)
(* A text is reduced to how it parses: "ok", "dup" (only when duplicate    *)
(* keys are allowed) or "bad".  A document is the sequence of its cuts,    *)
(* the prefixes that end at a line break, shortest first; the last one is  *)
(* the document itself.  DocumentStream, already refused or not by         *)
(* validate_document_budget, is the sequence of the documents.             *)
(***************************************************************************)
EXTENDS Naturals, Sequences

CONSTANTS
  Inputs,      \* the inputs considered
  Configs,     \* the LenientConfigs considered
  MaxEvents    \* base_config.max_events, charged to the tally

\* base_last: base_config.duplicate_key_policy is Last.
Config == [max_errors : Nat, recover_duplicate_keys : BOOLEAN, line_truncation : BOOLEAN,
           truncation_event_budget : Nat, base_last : BOOLEAN]

Cut == [len : Nat, blank : BOOLEAN, parses : {"ok", "dup", "bad"}]
Document == [cuts : Seq(Cut) \ {<<>>}, events : Nat]

ASSUME RecoveryAssumption ==
  /\ \A i \in Inputs : i.docs \in Seq(Document) /\ i.refused \in BOOLEAN
  /\ Configs \subseteq Config /\ MaxEvents \in Nat

VARIABLES
  input, config,
  pc,         \* the pass that comes next
  doc,        \* the number of the document at hand
  tally,      \* events charged to the stream-wide tally
  budget,     \* errors that may still be recorded
  found,      \* recover_one's errors: the passes that failed
  cut,        \* the next candidate of the truncation pass
  remaining,  \* budget_remaining
  last_err,   \* a candidate was tried and failed
  values, errors,
  fed,        \* ghost: bytes re-parsed for this document by pass 3
  due         \* ghost: events of the documents tried strictly

vars == <<input, config, pc, doc, tally, budget, found, cut, remaining, last_err, values, errors,
          fed, due>>

Null == [by |-> "null", cut |-> 0]

Docs == input.docs
Cuts == Docs[doc].cuts
Whole == Cuts[Len(Cuts)]

Parses(c, last) == c.parses = "ok" \/ (c.parses = "dup" /\ last)

Init ==
  /\ input \in Inputs /\ config \in Configs
  /\ pc = "start" /\ doc = 1
  /\ tally = 0 /\ budget = config.max_errors
  /\ found = <<>>
  /\ cut = 0 /\ remaining = 0 /\ last_err = FALSE
  /\ values = <<>> /\ errors = <<>>
  /\ fed = 0 /\ due = 0

\* The early returns: the stream is too long or has too many documents
\* (one error), or none.
Start ==
  /\ pc = "start"
  /\ errors' = IF input.refused THEN <<[doc |-> 0, pass |-> "stream"]>> ELSE <<>>
  /\ pc' = IF input.refused \/ Docs = <<>> THEN "done" ELSE "strict"
  /\ UNCHANGED <<input, config, doc, tally, budget, found, cut, remaining, last_err, values, fed, due>>

-----------------------------------------------------------------------------

\* recover_one returns v and the errors es; on to the next document.
Conclude(v, es) ==
  /\ values' = Append(values, v)
  /\ errors' = errors \o [n \in DOMAIN es |-> [doc |-> doc, pass |-> es[n]]]
  /\ budget' = IF Len(es) > budget THEN 0 ELSE budget - Len(es)
  /\ found' = <<>>
  /\ doc' = doc + 1
  /\ pc' = IF doc < Len(Docs) THEN "strict" ELSE "done"

\* Mutant: documents after the error cap are left out.
SkipShort ==
  /\ pc = "strict" /\ budget = 0
  /\ pc' = "done"
  /\ UNCHANGED <<input, config, doc, tally, budget, found, cut, remaining, last_err, values, errors,
                 fed, due>>

\* The budget is used up: a Null keeps the documents aligned.
Skip ==
  /\ pc = "strict" /\ budget = 0
  /\ Conclude(Null, <<>>)
  /\ UNCHANGED <<input, config, tally, cut, remaining, last_err, fed, due>>

\* Pass 3 starts at the last candidate, the whole document.
StartTruncation(es) ==
  IF config.line_truncation /\ Len(es) < budget
  THEN /\ pc' = "truncate" /\ found' = es
       /\ cut' = Len(Cuts) /\ remaining' = config.truncation_event_budget
       /\ last_err' = FALSE /\ fed' = 0
       /\ UNCHANGED <<doc, budget, values, errors>>
  ELSE Conclude(Null, es) /\ UNCHANGED <<cut, remaining, last_err, fed>>

\* Pass 2 is worth trying.
Retries(es) == config.recover_duplicate_keys /\ ~config.base_last /\ Len(es) < budget

\* Pass 1 charges the tally: all events of a document that parses, some of
\* one that does not; the charge that passes the limit is the last.
Charges(n, ok) ==
  \/ /\ ok /\ Parses(Whole, config.base_last)
     /\ n = Docs[doc].events /\ tally + n <= MaxEvents
  \/ /\ ~ok /\ ~Parses(Whole, config.base_last)
     /\ tally + n <= MaxEvents
  \/ /\ ~ok /\ n > 0 /\ tally + n > MaxEvents
     /\ n = 1 \/ tally + n = MaxEvents + 1

StrictPass ==
  /\ pc = "strict" /\ budget > 0
  /\ \E n \in 0 .. Docs[doc].events, ok \in BOOLEAN :
       /\ Charges(n, ok)
       /\ tally' = tally + n
       /\ IF ok
          THEN /\ Conclude([by |-> "strict", cut |-> Len(Cuts)], <<>>)
               /\ UNCHANGED <<cut, remaining, last_err, fed>>
          ELSE IF Retries(<<"strict">>)
          THEN /\ found' = <<"strict">> /\ pc' = "duplicates"
               /\ UNCHANGED <<doc, budget, cut, remaining, last_err, values, errors, fed>>
          ELSE StartTruncation(<<"strict">>)
  /\ due' = due + Docs[doc].events
  /\ UNCHANGED <<input, config>>

\* Mutant: pass 2 runs under the tally too.
DuplicatesPassCharged ==
  /\ pc = "duplicates" /\ Parses(Whole, TRUE)
  /\ Conclude([by |-> "last", cut |-> Len(Cuts)], found)
  /\ tally' = tally + Docs[doc].events
  /\ UNCHANGED <<input, config, cut, remaining, last_err, fed, due>>

\* Pass 2, with a configuration of its own.
DuplicatesPass ==
  /\ pc = "duplicates"
  /\ IF Parses(Whole, TRUE)
     THEN Conclude([by |-> "last", cut |-> Len(Cuts)], found)
          /\ UNCHANGED <<cut, remaining, last_err, fed>>
     ELSE StartTruncation(Append(found, "duplicates"))
  /\ UNCHANGED <<input, config, tally, due>>

\* Mutant: the configuration of pass 2 is not carried over.
TruncationBase == config.base_last

\* Pass 3 uses pass 2's configuration when pass 2 was tried.
TruncationLast == config.base_last \/ Len(found) = 2

\* The candidates, or the bytes for one, have run out.
Exhausted ==
  Conclude(Null, IF last_err /\ Len(found) < budget THEN Append(found, "truncation") ELSE found)

\* One candidate of try_line_truncation.
TruncatePass ==
  /\ pc = "truncate"
  /\ IF cut = 0 \/ (~Cuts[cut].blank /\ Cuts[cut].len > remaining)
     THEN Exhausted /\ UNCHANGED <<cut, remaining, last_err, fed>>
     ELSE IF Cuts[cut].blank
     THEN cut' = cut - 1 /\ UNCHANGED <<pc, doc, budget, found, remaining, last_err, values, errors, fed>>
     ELSE /\ remaining' = remaining - Cuts[cut].len
          /\ fed' = fed + Cuts[cut].len
          /\ IF Parses(Cuts[cut], TruncationLast)
             THEN Conclude([by |-> "prefix", cut |-> cut], found) /\ UNCHANGED <<cut, last_err>>
             ELSE cut' = cut - 1 /\ last_err' = TRUE
                  /\ UNCHANGED <<pc, doc, budget, found, values, errors>>
  /\ UNCHANGED <<input, config, tally, due>>

Next == Start \/ Skip \/ StrictPass \/ DuplicatesPass \/ TruncatePass

Spec == Init /\ [][Next]_vars

-----------------------------------------------------------------------------
(* Properties.                                                             *)

\* There is one value for every document, each made from its own document,
\* and the errors are in source order, however many documents failed or
\* were skipped.
Aligned ==
  /\ pc = "done" /\ ~input.refused => Len(values) = Len(Docs)
  /\ \A n \in DOMAIN values :
       values[n].by # "null" =>
         /\ values[n].cut \in DOMAIN Docs[n].cuts
         /\ Parses(Docs[n].cuts[values[n].cut], TRUE)
  /\ \A m, n \in DOMAIN errors : m < n => errors[m].doc <= errors[n].doc

\* No more than max_errors errors are recorded for the documents, whichever
\* passes fail and however the documents share the budget.
ErrorCap ==
  ~input.refused => Len(errors) + Len(found) <= config.max_errors

\* The truncation pass re-feeds no more than its budget for a document
\* ("how many bytes the recovery loop may re-feed into the parser in
\* total").
WorkBounded == fed <= config.truncation_event_budget

\* Salvaging charges nothing to the tally: the stream pays for each
\* document at most once.
ChargedOnce == tally <= due

\* Recovery stays within its three budgets: the errors it may record, the bytes
\* it may re-feed for a document and the events the stream may cost.
WithinBudgets == ErrorCap /\ WorkBounded /\ ChargedOnce

\* What truncation salvages is the longest prefix that parses.
LongestPrefix ==
  \A n \in DOMAIN values :
    values[n].by = "prefix" =>
      \A k \in values[n].cut + 1 .. Len(Docs[n].cuts) :
        Docs[n].cuts[k].blank \/ ~Parses(Docs[n].cuts[k], config.base_last \/ config.recover_duplicate_keys)

\* "one broken document never prevents the others from being recovered": a
\* document that parses is returned whole, unless the error cap was reached
\* or there are not enough events left in the stream's budget.
BrokenAlone ==
  \A n \in DOMAIN values :
    /\ Parses(Docs[n].cuts[Len(Docs[n].cuts)], config.base_last)
    /\ tally <= MaxEvents
    /\ Len(errors) < config.max_errors
    => values[n] = [by |-> "strict", cut |-> Len(Docs[n].cuts)]

\* Each document is given the best value its passes allow: whole when it
\* parses, whatever the others do, and else its longest prefix that parses.
BestSalvage == BrokenAlone /\ LongestPrefix
=============================================================================
