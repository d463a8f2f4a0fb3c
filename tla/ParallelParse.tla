--------------------------- MODULE ParallelParse ---------------------------
(***************************************************************************)
(* parallel.rs parse_with_config: a multi-document stream is split, the    *)
(* documents are parsed by Rayon workers, and the budgets of the stream    *)
(* are enforced through one StreamTally that all the parses charge         *)
(* (parser/meter.rs).                                                      *)
(*                                                                         *)
(* A document is reduced to what its parse charges.  from_str_with_config  *)
(* (de.rs) may parse it twice: first with the streaming deserializer, then *)
(* with the tree loader when streaming gives up or fails without a         *)
(* location; every attempt charges the tally from its start.  A charge is  *)
(* one fetch_add, the unit in which the workers interleave.                *)
(***************************************************************************)
EXTENDS Naturals, Sequences, FiniteSets

CONSTANTS
  Worker,            \* the threads of the pool
  Caller,            \* the thread that called parse_with_config
  Counter, Limit,    \* the stream-wide counters and their limits
  MaxDocuments,      \* max_documents
  Streams            \* the inputs considered

SEQUENTIAL_DOCUMENTS == 4

\* A charge adds `by` to the counter c.
Charge == [c : Counter, by : Nat]

\* What parsing one document does: the streaming attempt's charges and how
\* it ends when no budget stops it ("skip": T or the configuration is not
\* eligible for streaming), then the same for the tree loader.
Document ==
  [streaming : Seq(Charge), streams : {"skip", "ok", "located", "unlocated", "fallback"},
   tree : Seq(Charge), loads : {"ok", "error"}]

\* An input: its documents, and whether it is too long for the stream limit.
Input == [docs : Seq(Document), too_long : BOOLEAN]

ASSUME ParallelAssumption ==
  /\ Caller \notin Worker
  /\ Limit \in [Counter -> Nat]
  /\ MaxDocuments \in Nat
  /\ Streams \subseteq Input

\* Streaming reads a prefix of what the tree loader reads, so a counter it
\* charges is charged again by the tree loader.
ASSUME TreeChargesAll ==
  \A s \in Streams : \A i \in DOMAIN s.docs :
    \A k \in DOMAIN s.docs[i].streaming : \E l \in DOMAIN s.docs[i].tree :
      s.docs[i].tree[l].c = s.docs[i].streaming[k].c

VARIABLES
  input,    \* the stream being parsed
  mode,     \* start, sequential, parallel or done
  taken,    \* documents handed out by the chunk iterator
  job,      \* what each thread is parsing, Idle when nothing
  tally,    \* the shared StreamTally
  parsed,   \* the (index, result) pairs collected, in completion order
  result    \* what parse_with_config returned

vars == <<input, mode, taken, job, tally, parsed, result>>

Thread == Worker \cup {Caller}
Idle == [doc |-> 0, path |-> "none", pos |-> 0]
None == [kind |-> "none", docs |-> <<>>]
Returned(kind, docs) == [kind |-> kind, docs |-> docs]

Init ==
  /\ input \in Streams
  /\ mode = "start"
  /\ taken = 0
  /\ job = [w \in Thread |-> Idle]
  /\ tally = [c \in Counter |-> 0]
  /\ parsed = <<>>
  /\ result = None

-----------------------------------------------------------------------------
\* The checks made before anything is parsed, then the choice of path.
\* A stream of fewer than four documents is parsed by the caller alone.
Begin ==
  /\ mode = "start"
  /\ LET n == Len(input.docs) IN
     IF input.too_long \/ n > MaxDocuments
     THEN mode' = "done" /\ result' = Returned("refused", <<>>)
     ELSE /\ mode' = IF n < SEQUENTIAL_DOCUMENTS THEN "sequential" ELSE "parallel"
          /\ UNCHANGED result
  /\ UNCHANGED <<input, taken, job, tally, parsed>>

\* The attempt a document starts with.
FirstPath(d) == IF d.streams = "skip" THEN "tree" ELSE "streaming"

\* The first error in source order stops a sequential parse; Rayon's
\* workers do not stop each other.
Stopped ==
  mode = "sequential" /\ \E i \in DOMAIN parsed : parsed[i].res # "ok"

\* A thread takes the next document from the iterator (par_bridge).
Take(w) ==
  /\ \/ mode = "parallel" /\ w \in Worker
     \/ mode = "sequential" /\ w = Caller /\ ~Stopped
  /\ job[w] = Idle
  /\ taken < Len(input.docs)
  /\ taken' = taken + 1
  /\ job' = [job EXCEPT ![w] = [doc |-> taken + 1,
                                path |-> FirstPath(input.docs[taken + 1]), pos |-> 0]]
  /\ UNCHANGED <<input, mode, tally, parsed, result>>

Doc(w) == input.docs[job[w].doc]
Plan(w) == IF job[w].path = "streaming" THEN Doc(w).streaming ELSE Doc(w).tree

\* The parse of the document ends with `res`.
Deliver(w, res) ==
  /\ parsed' = Append(parsed, [doc |-> job[w].doc, res |-> res])
  /\ job' = [job EXCEPT ![w] = Idle]

\* The streaming attempt is abandoned for the tree loader.
Reparse(w) ==
  /\ job' = [job EXCEPT ![w] = [@ EXCEPT !.path = "tree", !.pos = 0]]
  /\ UNCHANGED parsed

\* An attempt is refused by a budget: an error without a location, so a
\* streaming attempt is made again by the tree loader.
Refuse(w) == IF job[w].path = "streaming" THEN Reparse(w) ELSE Deliver(w, "budget")

\* Mutant: the total compared is read before the charge is added.
ChargeStale(w) ==
  /\ job[w] # Idle
  /\ job[w].pos < Len(Plan(w))
  /\ LET ch == Plan(w)[job[w].pos + 1] IN
     /\ tally' = [tally EXCEPT ![ch.c] = @ + ch.by]
     /\ IF tally[ch.c] > Limit[ch.c]
        THEN Refuse(w)
        ELSE job' = [job EXCEPT ![w].pos = @ + 1] /\ UNCHANGED parsed
  /\ UNCHANGED <<input, mode, taken, result>>

\* tally(): one fetch_add, compared with the limit.
ChargeNext(w) ==
  /\ job[w] # Idle
  /\ job[w].pos < Len(Plan(w))
  /\ LET ch == Plan(w)[job[w].pos + 1] IN
     /\ tally' = [tally EXCEPT ![ch.c] = @ + ch.by]
     /\ IF tally[ch.c] + ch.by > Limit[ch.c]
        THEN Refuse(w)
        ELSE job' = [job EXCEPT ![w].pos = @ + 1] /\ UNCHANGED parsed
  /\ UNCHANGED <<input, mode, taken, result>>

\* An attempt has made all its charges: it succeeds, fails, or hands over.
EndAttempt(w) ==
  /\ job[w] # Idle
  /\ job[w].pos = Len(Plan(w))
  /\ IF job[w].path = "streaming"
     THEN CASE Doc(w).streams = "ok" -> Deliver(w, "ok")
            [] Doc(w).streams = "located" -> Deliver(w, "error")
            [] OTHER -> Reparse(w)
     ELSE Deliver(w, Doc(w).loads)
  /\ UNCHANGED <<input, mode, taken, tally, result>>

\* Mutant: the results stay in completion order.
InCompletionOrder(p) == p

\* sort_unstable_by_key on the index, which no two pairs share: the i-th
\* pair is the one with i - 1 smaller ones.
InOrder(p) ==
  LET Smaller(j) == {k \in DOMAIN p : p[k].doc < p[j].doc}
  IN  [i \in DOMAIN p |-> p[CHOOSE j \in DOMAIN p : Cardinality(Smaller(j)) = i - 1]]

\* What collecting returns: the first error in source order, or the
\* documents.
Collected(p) ==
  LET bad == {i \in DOMAIN p : p[i].res # "ok"}
  IN  IF bad = {} THEN Returned("ok", [i \in DOMAIN p |-> p[i].doc])
      ELSE Returned("error", <<p[CHOOSE i \in bad : \A j \in bad : i <= j].doc>>)

\* All the documents are in, or the sequential parse stopped.
Collect ==
  /\ mode \in {"sequential", "parallel"}
  /\ \A w \in Thread : job[w] = Idle
  /\ taken = Len(input.docs) \/ Stopped
  /\ result' = Collected(InOrder(parsed))
  /\ mode' = "done"
  /\ UNCHANGED <<input, taken, job, tally, parsed>>

Step(w) == Take(w) \/ ChargeNext(w) \/ EndAttempt(w)

Next == Begin \/ Collect \/ \E w \in Thread : Step(w)

Spec == Init /\ [][Next]_vars

-----------------------------------------------------------------------------
(* Properties.                                                             *)

\* However the charges of the workers interleave, a stream is accepted
\* only if the total of each counter is within its limit.
BudgetHolds == result.kind = "ok" => \A c \in Counter : tally[c] <= Limit[c]

\* Documents finish in any order, but the caller gets them in source order,
\* and of several failures the first in source order.
SourceOrder ==
  /\ result.kind = "ok" => result.docs = [i \in 1 .. Len(input.docs) |-> i]
  /\ result.kind = "error" =>
       \E i \in DOMAIN parsed :
         /\ parsed[i].res # "ok" /\ result.docs = <<parsed[i].doc>>
         /\ \A j \in DOMAIN parsed : parsed[j].res # "ok" => parsed[i].doc <= parsed[j].doc

\* The sum of a sequence of numbers.
Total(s) ==
  LET sum[k \in 0 .. Len(s)] == IF k = 0 THEN 0 ELSE sum[k - 1] + s[k] IN sum[Len(s)]

\* What a list of charges adds to the counter c.
OnCounter(charges, c) ==
  [k \in DOMAIN charges |-> IF charges[k].c = c THEN charges[k].by ELSE 0]
Sum(charges, c) == Total(OnCounter(charges, c))

\* All that the attempts at a document add to c when no budget stops them.
Demand(d, c) ==
  (IF d.streams = "skip" THEN 0 ELSE Sum(d.streaming, c))
    + (IF d.streams \in {"ok", "located"} THEN 0 ELSE Sum(d.tree, c))

Demands(docs, c) == [i \in DOMAIN docs |-> Demand(docs[i], c)]

\* A document that parses when no budget stops it.
Good(d) == d.streams = "ok" \/ (d.streams # "located" /\ d.loads = "ok")

\* The verdict depends on the stream alone, not on the schedule: accepted
\* exactly when every document parses and all the charges fit, and the caller
\* gets the documents, or the failure, in source order.
ScheduleIndependent ==
  mode = "done" =>
    /\ SourceOrder
    /\ result.kind = "ok" <=>
       /\ ~input.too_long /\ Len(input.docs) <= MaxDocuments
       /\ \A i \in DOMAIN input.docs : Good(input.docs[i])
       /\ \A c \in Counter : Total(Demands(input.docs, c)) <= Limit[c]
=============================================================================
