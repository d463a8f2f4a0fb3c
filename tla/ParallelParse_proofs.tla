------------------------ MODULE ParallelParse_proofs ------------------------
(***************************************************************************)
(* Proofs about parallel parsing, for any number of workers, documents and *)
(* counters: a stream whose charges pass a limit is never accepted, the    *)
(* documents, or the first failure, come back in source order, and whether *)
(* the stream is accepted does not depend on the schedule.                 *)
(*                                                                         *)
(* The budget is hard because a streaming attempt refused by the tally is  *)
(* not an error: the document is parsed again.  What makes it hold is that *)
(* the tree loader charges the same counter again (TreeChargesAll), so     *)
(* that an excess already in the tally is met by a thread that has still   *)
(* to charge it (Pending).                                                 *)
(*                                                                         *)
(* The verdict is a matter of accounts: until a counter passes its limit,  *)
(* the tally is the sum of what each document has added so far and no      *)
(* document was judged by anything but itself (Exact); when one passes it, *)
(* the charges of the whole stream pass it too, since no document has      *)
(* added more than it demands (Overrun).                                   *)
(***************************************************************************)
EXTENDS ParallelParse, SequenceTheorems, FunctionTheorems, FiniteSetTheorems, TLAPS

-----------------------------------------------------------------------------
(* The inductive invariant.                                                *)

Job == [doc : Nat \ {0}, path : {"streaming", "tree"}, pos : Nat]
Pair == [doc : Nat \ {0}, res : {"ok", "error", "budget"}]

TypeOK ==
  /\ input \in Streams
  /\ mode \in {"start", "sequential", "parallel", "done"}
  /\ taken \in 0 .. Len(input.docs)
  /\ job \in [Thread -> Job \cup {Idle}]
  /\ tally \in [Counter -> Nat]
  /\ parsed \in Seq(Pair)

Busy(w) == job[w] # Idle

\* Each document handed out is with one thread or in the results, once.
Owned ==
  /\ \A w \in Thread : Busy(w) => job[w].doc \in 1 .. taken
  /\ \A i \in DOMAIN parsed : parsed[i].doc \in 1 .. taken
  /\ \A i, j \in DOMAIN parsed : parsed[i].doc = parsed[j].doc => i = j
  /\ \A w, x \in Thread : Busy(w) /\ Busy(x) /\ job[w].doc = job[x].doc => w = x
  /\ \A w \in Thread, i \in DOMAIN parsed : Busy(w) => job[w].doc # parsed[i].doc
  /\ \A d \in 1 .. taken :
       \/ \E i \in DOMAIN parsed : parsed[i].doc = d
       \/ \E w \in Thread : Busy(w) /\ job[w].doc = d

\* Nothing is under way before the start or after the end.
Phases ==
  /\ mode \in {"start", "done"} => \A w \in Thread : job[w] = Idle
  /\ mode # "done" => result = None

\* Thread w has still to charge c, in the attempt that fails for good.
Will(w, c) ==
  /\ Busy(w) /\ job[w].path = "tree"
  /\ \E l \in DOMAIN Doc(w).tree : l > job[w].pos /\ Doc(w).tree[l].c = c

Failure == \E i \in DOMAIN parsed : parsed[i].res # "ok"

\* A counter past its limit has cost a document, or will.
Pending ==
  \A c \in Counter : tally[c] > Limit[c] => Failure \/ \E w \in Thread : Will(w, c)

IInv == TypeOK /\ Owned /\ Phases /\ Pending /\ BudgetHolds /\ SourceOrder

-----------------------------------------------------------------------------
(* Facts about the state.                                                  *)

\* What the types give.
LEMMA InputTyped ==
  ASSUME TypeOK
  PROVE  /\ input.docs \in Seq(Document) /\ Len(input.docs) \in Nat /\ taken \in Nat
         /\ \A d \in 1 .. Len(input.docs) : input.docs[d] \in Document
         /\ \A c \in Counter : Limit[c] \in Nat
<1>1. input \in Input
  BY ParallelAssumption DEF TypeOK
<1>2. input.docs \in Seq(Document)
  BY <1>1 DEF Input
<1>. QED
  BY <1>2, ParallelAssumption DEF TypeOK

\* A busy thread parses a document of the stream.
LEMMA BusyFacts ==
  ASSUME TypeOK, Owned, NEW w \in Thread, Busy(w)
  PROVE  /\ job[w] \in Job /\ job[w].doc \in 1 .. taken /\ job[w].doc \in 1 .. Len(input.docs)
         /\ Doc(w) \in Document /\ Plan(w) \in Seq(Charge) /\ Len(Plan(w)) \in Nat
         /\ job[w].doc \in Nat \ {0} /\ job[w].pos \in Nat
         /\ job[w].path \in {"streaming", "tree"}
<1>1. job[w] \in Job
  BY DEF TypeOK, Busy
<1>2. job[w].doc \in 1 .. taken
  BY DEF Owned
<1>3. job[w].doc \in 1 .. Len(input.docs)
  BY <1>2, InputTyped DEF TypeOK
<1>4. Doc(w) \in Document
  BY <1>3, InputTyped DEF Doc
<1>5. Doc(w).streaming \in Seq(Charge) /\ Doc(w).tree \in Seq(Charge)
  BY <1>4 DEF Document
<1>6. Plan(w) \in Seq(Charge)
  BY <1>5 DEF Plan
<1>. QED
  BY <1>1, <1>2, <1>3, <1>4, <1>6 DEF Job

\* The charges of an attempt.
LEMMA ChargeTyped ==
  ASSUME TypeOK, Owned, NEW w \in Thread, Busy(w), job[w].pos < Len(Plan(w))
  PROVE  /\ Plan(w)[job[w].pos + 1].c \in Counter /\ Plan(w)[job[w].pos + 1].by \in Nat
         /\ job[w].pos + 1 \in DOMAIN Plan(w)
<1>1. Plan(w) \in Seq(Charge) /\ job[w].pos \in Nat /\ Len(Plan(w)) \in Nat
  BY BusyFacts
<1>2. job[w].pos + 1 \in 1 .. Len(Plan(w))
  BY <1>1
<1>3. Plan(w)[job[w].pos + 1] \in Charge
  BY <1>1, <1>2
<1>. QED
  BY <1>1, <1>2, <1>3 DEF Charge

-----------------------------------------------------------------------------
(* Documents change hands.                                                 *)

\* A document is delivered: it moves from its thread to the results.
LEMMA DeliverKeeps ==
  ASSUME TypeOK, Owned, NEW w \in Thread, Busy(w),
         NEW res \in {"ok", "error", "budget"}, Deliver(w, res), taken' = taken
  PROVE  /\ job' \in [Thread -> Job \cup {Idle}] /\ parsed' \in Seq(Pair) /\ Owned'
         /\ job'[w] = Idle /\ \A x \in Thread \ {w} : job'[x] = job[x]
         /\ Failure \/ res # "ok" => Failure'
<1> DEFINE n == Len(parsed)
           pair == [doc |-> job[w].doc, res |-> res]
<1>1. /\ job[w].doc \in Nat \ {0} /\ job[w].doc \in 1 .. taken
  BY BusyFacts
<1>2. pair \in Pair
  BY <1>1 DEF Pair
<1>3. parsed \in Seq(Pair) /\ n \in Nat /\ DOMAIN parsed = 1 .. n
  BY DEF TypeOK
<1>4. parsed' = Append(parsed, pair) /\ job' = [job EXCEPT ![w] = Idle]
  BY DEF Deliver
<1> HIDE DEF pair
<1>5. /\ parsed' \in Seq(Pair) /\ DOMAIN parsed' = 1 .. n + 1
      /\ \A i \in 1 .. n : parsed'[i] = parsed[i]
      /\ parsed'[n + 1] = pair
  BY <1>2, <1>3, <1>4, AppendProperties
<1>6. pair.doc = job[w].doc /\ pair.res = res
  BY DEF pair
<1>7. /\ job' \in [Thread -> Job \cup {Idle}] /\ job'[w] = Idle
      /\ \A x \in Thread \ {w} : job'[x] = job[x]
  BY <1>4 DEF TypeOK
<1> HIDE DEF n
<1>8. \A i \in DOMAIN parsed' :
        \/ i \in DOMAIN parsed /\ parsed'[i] = parsed[i]
        \/ i = n + 1 /\ parsed'[i].doc = job[w].doc
  BY <1>3, <1>5, <1>6
<1>9. \A x \in Thread : Busy(x)' => x # w /\ Busy(x) /\ job'[x] = job[x]
  BY <1>7 DEF Busy
<1>10. Owned'
  <2>1. /\ \A x \in Thread : Busy(x)' => job'[x].doc \in 1 .. taken'
        /\ \A i \in DOMAIN parsed' : parsed'[i].doc \in 1 .. taken'
    BY <1>1, <1>8, <1>9 DEF Owned
  <2>2. \A i, j \in DOMAIN parsed' : parsed'[i].doc = parsed'[j].doc => i = j
    BY <1>8 DEF Owned
  <2>3. \A x, y \in Thread : Busy(x)' /\ Busy(y)' /\ job'[x].doc = job'[y].doc => x = y
    BY <1>9 DEF Owned
  <2>4. \A x \in Thread, i \in DOMAIN parsed' : Busy(x)' => job'[x].doc # parsed'[i].doc
    BY <1>8, <1>9 DEF Owned
  <2>5. ASSUME NEW d \in 1 .. taken
        PROVE  \/ \E i \in DOMAIN parsed' : parsed'[i].doc = d
               \/ \E x \in Thread : Busy(x)' /\ job'[x].doc = d
    <3>1. CASE \E i \in DOMAIN parsed : parsed[i].doc = d
      BY <1>3, <1>5, <3>1
    <3>2. CASE d = job[w].doc
      BY <1>3, <1>5, <1>6, <3>2
    <3>3. CASE \E x \in Thread \ {w} : Busy(x) /\ job[x].doc = d
      BY <1>7, <3>3 DEF Busy
    <3>. QED
      BY <3>1, <3>2, <3>3 DEF Owned
  <2>. QED
    BY <2>1, <2>2, <2>3, <2>4, <2>5 DEF Owned
<1>11. Failure \/ res # "ok" => Failure'
  BY <1>3, <1>5, <1>6 DEF Failure
<1>. QED
  BY <1>5, <1>7, <1>10, <1>11

\* A thread goes on with the same document: nothing else changes hands.
LEMMA SameDocument ==
  ASSUME TypeOK, Owned, NEW w \in Thread, Busy(w), NEW new \in Job, new.doc = job[w].doc,
         job' = [job EXCEPT ![w] = new], parsed' = parsed, taken' = taken
  PROVE  /\ job' \in [Thread -> Job \cup {Idle}] /\ Owned'
         /\ job'[w] = new /\ Busy(w)' /\ \A x \in Thread \ {w} : job'[x] = job[x]
<1>1. /\ job' \in [Thread -> Job \cup {Idle}] /\ job'[w] = new
      /\ \A x \in Thread \ {w} : job'[x] = job[x]
  BY DEF TypeOK
<1>2. new # Idle
  BY DEF Job, Idle
<1>3. \A x \in Thread : (Busy(x)' <=> Busy(x)) /\ (Busy(x) => job'[x].doc = job[x].doc)
  BY <1>1, <1>2 DEF Busy
<1>4. Owned'
  BY <1>3 DEF Owned
<1>. QED
  BY <1>1, <1>3, <1>4

-----------------------------------------------------------------------------
(* Collecting the results.                                                 *)

\* The size of 1 .. n.
LEMMA IntervalSize ==
  ASSUME NEW n \in Nat
  PROVE  IsFiniteSet(1 .. n) /\ Cardinality(1 .. n) = n
<1>1. 1 \in Int /\ n \in Int
  OBVIOUS
<1>2. /\ IsFiniteSet(1 .. n)
      /\ Cardinality(1 .. n) = IF 1 > n THEN 0 ELSE n - 1 + 1
  BY <1>1, FS_Interval
<1>. QED
  BY <1>2

\* When every thread is idle, the results are the documents handed out.
LEMMA AllIn ==
  ASSUME TypeOK, Owned, \A w \in Thread : job[w] = Idle
  PROVE  /\ Len(parsed) = taken /\ DOMAIN parsed = 1 .. taken /\ taken \in Nat
         /\ \A d \in 1 .. taken : \E i \in 1 .. taken : parsed[i].doc = d
<1> DEFINE f == [i \in DOMAIN parsed |-> parsed[i].doc]
<1>1. /\ DOMAIN parsed = 1 .. Len(parsed) /\ Len(parsed) \in Nat /\ taken \in Nat
  BY InputTyped DEF TypeOK
<1>2. \A d \in 1 .. taken : \E i \in DOMAIN parsed : parsed[i].doc = d
  BY DEF Owned, Busy
<1>3. f \in [DOMAIN parsed -> 1 .. taken]
  BY DEF Owned
<1>4. \A i, j \in DOMAIN parsed : f[i] = f[j] => i = j
  BY DEF Owned
<1>5. \A d \in 1 .. taken : \E i \in DOMAIN parsed : f[i] = d
  BY <1>2
<1>6. f \in Bijection(DOMAIN parsed, 1 .. taken)
  <2> HIDE DEF f
  <2>. QED
    BY <1>3, <1>4, <1>5, Fun_IsBij
<1>7. ExistsBijection(DOMAIN parsed, 1 .. taken)
  BY <1>6 DEF ExistsBijection
<1>8. /\ IsFiniteSet(1 .. Len(parsed)) /\ Cardinality(1 .. Len(parsed)) = Len(parsed)
      /\ Cardinality(1 .. taken) = taken
  BY <1>1, IntervalSize
<1>9. Cardinality(1 .. taken) = Cardinality(DOMAIN parsed)
  BY <1>1, <1>7, <1>8, FS_Bijection
<1>10. Len(parsed) = taken
  BY <1>1, <1>8, <1>9
<1>. QED
  BY <1>1, <1>2, <1>10

\* Sorting puts document i in place i.
LEMMA Sorted ==
  ASSUME TypeOK, Owned, \A w \in Thread : job[w] = Idle
  PROVE  LET p == InOrder(parsed)
         IN  /\ DOMAIN p = 1 .. taken
             /\ \A i \in 1 .. taken :
                  p[i].doc = i /\ \E j \in DOMAIN parsed : p[i] = parsed[j]
<1> DEFINE Smaller(j) == {k \in DOMAIN parsed : parsed[k].doc < parsed[j].doc}
           Place(i) == CHOOSE j \in DOMAIN parsed : Cardinality(Smaller(j)) = i - 1
<1>0. taken \in Nat
  BY AllIn
<1>1. /\ DOMAIN parsed = 1 .. taken
      /\ \A d \in 1 .. taken : \E i \in 1 .. taken : parsed[i].doc = d
  BY AllIn
<1>2. \A i \in 1 .. taken : parsed[i].doc \in 1 .. taken
  BY <1>1 DEF Owned
<1>3. IsFiniteSet(1 .. taken)
  BY <1>0, IntervalSize
<1>4. ASSUME NEW j \in 1 .. taken PROVE Cardinality(Smaller(j)) = parsed[j].doc - 1
  <2> DEFINE d == parsed[j].doc
             S == Smaller(j)
             g == [k \in S |-> parsed[k].doc]
  <2>1. d \in 1 .. taken /\ d \in Nat \ {0}
    BY <1>0, <1>2
  <2>2. IsFiniteSet(S)
    BY <1>1, <1>3, FS_Subset
  <2>3. g \in [S -> 1 .. d - 1]
    <3>1. ASSUME NEW k \in S PROVE parsed[k].doc \in 1 .. d - 1
      <4>1. parsed[k].doc \in 1 .. taken /\ parsed[k].doc < d
        BY <1>1, <1>2
      <4> HIDE DEF d
      <4>. QED
        BY <1>0, <2>1, <4>1
    <3>. QED
      BY <3>1
  <2>4. \A a, b \in S : g[a] = g[b] => a = b
    BY DEF Owned
  <2>5. ASSUME NEW e \in 1 .. d - 1 PROVE \E k \in S : g[k] = e
    <3>1. e \in 1 .. taken /\ e < d
      <4> HIDE DEF d
      <4>. QED
        BY <1>0, <2>1
    <3>2. PICK k \in 1 .. taken : parsed[k].doc = e
      BY <1>1, <3>1
    <3>3. k \in S
      BY <1>1, <3>1, <3>2
    <3>. QED
      BY <3>2, <3>3
  <2>6. g \in Bijection(S, 1 .. d - 1)
    <3> HIDE DEF g, S, d
    <3>. QED
      BY <2>3, <2>4, <2>5, Fun_IsBij
  <2>7. Cardinality(1 .. d - 1) = Cardinality(S)
    <3>1. ExistsBijection(S, 1 .. d - 1)
      BY <2>6 DEF ExistsBijection
    <3> HIDE DEF S, d
    <3>. QED
      BY <2>2, <3>1, FS_Bijection
  <2>8. Cardinality(1 .. d - 1) = d - 1
    <3> HIDE DEF d
    <3>1. d - 1 \in Nat
      BY <2>1
    <3>. QED
      BY <3>1, IntervalSize
  <2>. QED
    BY <2>7, <2>8
<1>5. ASSUME NEW i \in 1 .. taken
      PROVE  Place(i) \in 1 .. taken /\ parsed[Place(i)].doc = i
  <2>1. PICK j \in 1 .. taken : parsed[j].doc = i
    BY <1>1
  <2>2. Cardinality(Smaller(j)) = i - 1
    BY <1>4, <2>1
  <2>3. Place(i) \in DOMAIN parsed /\ Cardinality(Smaller(Place(i))) = i - 1
    <3> HIDE DEF Smaller
    <3>. QED
      BY <1>1, <2>2
  <2>4. parsed[Place(i)].doc - 1 = i - 1
    <3> HIDE DEF Place, Smaller
    <3>. QED
      BY <1>1, <1>4, <2>3
  <2>. QED
    <3> HIDE DEF Place
    <3>1. Place(i) \in 1 .. taken
      BY <1>1, <2>3
    <3>2. parsed[Place(i)].doc \in 1 .. taken
      BY <1>2, <3>1
    <3>. QED
      BY <1>0, <2>4, <3>1, <3>2
<1>6. InOrder(parsed) = [i \in DOMAIN parsed |-> parsed[Place(i)]]
  BY DEF InOrder
<1> HIDE DEF Place
<1>. QED
  BY <1>1, <1>5, <1>6

\* Any set of naturals has a least member.
LEMMA Least ==
  ASSUME NEW S \in SUBSET Nat, S # {}
  PROVE  \E m \in S : \A k \in S : m <= k
<1>1. PICK m \in S : \A k \in S : ~ (<<k, m>> \in OpToRel(<, Nat))
  BY NatLessThanWellFounded, WFMin, Zenon
<1>2. \A k \in S : ~(k < m)
  BY <1>1, Zenon DEF OpToRel
<1>. QED
  BY <1>2

\* Collecting gives the documents in order when none failed, and the first
\* failure when one did.
LEMMA CollectedFacts ==
  ASSUME TypeOK, Owned, \A w \in Thread : job[w] = Idle
  PROVE  LET r == Collected(InOrder(parsed))
         IN  /\ r.kind \in {"ok", "error"}
             /\ r.kind = "ok" => ~Failure /\ r.docs = [i \in 1 .. taken |-> i]
             /\ r.kind = "error" =>
                  \E i \in DOMAIN parsed :
                    /\ parsed[i].res # "ok" /\ r.docs = <<parsed[i].doc>>
                    /\ \A j \in DOMAIN parsed : parsed[j].res # "ok" => parsed[i].doc <= parsed[j].doc
<1> DEFINE p == InOrder(parsed)
           bad == {i \in DOMAIN p : p[i].res # "ok"}
           first == CHOOSE i \in bad : \A j \in bad : i <= j
           r == Collected(p)
<1>1. /\ DOMAIN p = 1 .. taken
      /\ \A i \in 1 .. taken : p[i].doc = i /\ \E j \in DOMAIN parsed : p[i] = parsed[j]
  BY Sorted
<1>2. taken \in Nat
  BY AllIn
<1>3. ASSUME NEW j \in DOMAIN parsed
      PROVE  parsed[j].doc \in 1 .. taken /\ p[parsed[j].doc] = parsed[j]
  <2>1. parsed[j].doc \in 1 .. taken
    BY DEF Owned
  <2>2. PICK k \in DOMAIN parsed : p[parsed[j].doc] = parsed[k]
    BY <1>1, <2>1
  <2>3. parsed[k].doc = parsed[j].doc
    BY <1>1, <2>1, <2>2
  <2>4. k = j
    BY <2>3 DEF Owned
  <2>. QED
    BY <2>1, <2>2, <2>4
<1>4. r = IF bad = {} THEN [kind |-> "ok", docs |-> [i \in DOMAIN p |-> p[i].doc]]
          ELSE [kind |-> "error", docs |-> <<p[first].doc>>]
  BY DEF Collected, Returned
<1> HIDE DEF p, r
<1>5. CASE bad = {}
  <2>1. r.kind = "ok" /\ r.docs = [i \in DOMAIN p |-> p[i].doc]
    BY <1>4, <1>5
  <2>2. ~Failure
    BY <1>1, <1>3, <1>5 DEF Failure
  <2>3. [i \in DOMAIN p |-> p[i].doc] = [i \in 1 .. taken |-> i]
    BY <1>1
  <2>. QED
    BY <2>1, <2>2, <2>3 DEF p, r
<1>6. CASE bad # {}
  <2>1. r.kind = "error" /\ r.docs = <<p[first].doc>>
    BY <1>4, <1>6
  <2>2. bad \in SUBSET Nat
    BY <1>1, <1>2
  <2>3. first \in bad /\ \A j \in bad : first <= j
    <3>1. \E i \in bad : \A j \in bad : i <= j
      <4> HIDE DEF bad
      <4>. QED
        BY <1>6, <2>2, Least
    <3> HIDE DEF bad
    <3>. QED
      BY <3>1
  <2> HIDE DEF first
  <2>4. first \in 1 .. taken /\ p[first].doc = first /\ p[first].res # "ok"
    BY <1>1, <2>3
  <2>5. PICK i \in DOMAIN parsed : p[first] = parsed[i]
    BY <1>1, <2>4
  <2>6. \A j \in DOMAIN parsed : parsed[j].res # "ok" => parsed[i].doc <= parsed[j].doc
    <3> SUFFICES ASSUME NEW j \in DOMAIN parsed, parsed[j].res # "ok"
                 PROVE  parsed[i].doc <= parsed[j].doc
      OBVIOUS
    <3>1. parsed[j].doc \in bad
      BY <1>1, <1>3
    <3>. QED
      BY <2>3, <2>4, <2>5, <3>1
  <2>. QED
    BY <2>1, <2>4, <2>5, <2>6 DEF p, r
<1>. QED
  BY <1>5, <1>6

-----------------------------------------------------------------------------
(* The invariant holds initially and every action keeps it.                *)

\* Nothing has been taken.
LEMMA InitInv == Init => IInv
<1> SUFFICES ASSUME Init PROVE IInv
  OBVIOUS
<1>1. input \in Input
  BY ParallelAssumption DEF Init
<1>2. Len(input.docs) \in Nat
  BY <1>1 DEF Input
<1>3. <<>> \in Seq(Pair)
  OBVIOUS
<1>4. TypeOK
  BY <1>2, <1>3 DEF Init, TypeOK
<1>5. DOMAIN parsed = {} /\ 1 .. taken = {} /\ \A w \in Thread : ~Busy(w)
  BY DEF Init, Busy
<1>6. Owned
  BY <1>5 DEF Owned
<1>7. Phases /\ BudgetHolds /\ SourceOrder
  BY DEF Init, Phases, BudgetHolds, SourceOrder, None
<1>8. Pending
  BY ParallelAssumption DEF Init, Pending
<1>. QED
  BY <1>4, <1>6, <1>7, <1>8 DEF IInv

\* The checks made before anything is parsed.
LEMMA BeginStep == IInv /\ Begin => IInv'
<1> SUFFICES ASSUME IInv, Begin PROVE IInv'
  OBVIOUS
<1>1. TypeOK /\ Owned /\ Phases /\ Pending
  BY DEF IInv
<1>2. /\ mode = "start" /\ mode' \in {"sequential", "parallel", "done"}
      /\ input' = input /\ taken' = taken /\ job' = job /\ tally' = tally /\ parsed' = parsed
      /\ mode' = "done" => result' = [kind |-> "refused", docs |-> <<>>]
      /\ mode' # "done" => result' = result
  BY DEF Begin, Returned
<1>3. TypeOK' /\ Phases'
  BY <1>1, <1>2 DEF TypeOK, Phases
<1>4. Owned' /\ Pending'
  BY <1>1, <1>2, SMTT(60) DEF Owned, Busy, Pending, Failure, Will, Doc
<1>5. BudgetHolds' /\ SourceOrder'
  BY <1>1, <1>2 DEF Phases, BudgetHolds, SourceOrder, None
<1>. QED
  BY <1>3, <1>4, <1>5 DEF IInv

\* The results are collected.
LEMMA CollectStep == IInv /\ Collect => IInv'
<1> SUFFICES ASSUME IInv, Collect PROVE IInv'
  OBVIOUS
<1>1. TypeOK /\ Owned /\ Phases /\ Pending
  BY DEF IInv
<1> DEFINE r == Collected(InOrder(parsed))
<1>2. /\ \A w \in Thread : job[w] = Idle
      /\ taken = Len(input.docs) \/ Stopped
      /\ result' = r /\ mode' = "done"
      /\ input' = input /\ taken' = taken /\ job' = job /\ tally' = tally /\ parsed' = parsed
  BY DEF Collect
<1>3. TypeOK' /\ Phases'
  BY <1>1, <1>2 DEF TypeOK, Phases
<1>4. Owned' /\ Pending'
  BY <1>1, <1>2 DEF Owned, Busy, Pending, Failure, Will, Doc
<1>5. /\ r.kind = "ok" => ~Failure /\ r.docs = [i \in 1 .. taken |-> i]
      /\ r.kind = "error" =>
           \E i \in DOMAIN parsed :
             /\ parsed[i].res # "ok" /\ r.docs = <<parsed[i].doc>>
             /\ \A j \in DOMAIN parsed : parsed[j].res # "ok" => parsed[i].doc <= parsed[j].doc
  BY <1>1, <1>2, CollectedFacts
<1> HIDE DEF r
<1>6. BudgetHolds'
  <2> SUFFICES ASSUME r.kind = "ok", NEW c \in Counter PROVE tally[c] <= Limit[c]
    BY <1>2 DEF BudgetHolds
  <2>1. ~Failure /\ \A w \in Thread : ~Will(w, c)
    BY <1>2, <1>5 DEF Will, Busy
  <2>2. ~(tally[c] > Limit[c])
    BY <1>1, <2>1 DEF Pending
  <2>. QED
    BY <1>1, <2>2, ParallelAssumption DEF TypeOK
<1>7. SourceOrder'
  <2>1. r.kind = "ok" => taken = Len(input.docs)
    BY <1>2, <1>5 DEF Stopped, Failure
  <2>2. result'.kind = "ok" => result'.docs = [i \in 1 .. Len(input'.docs) |-> i]
    BY <1>2, <1>5, <2>1
  <2>. QED
    BY <1>2, <1>5, <2>2 DEF SourceOrder
<1>. QED
  BY <1>3, <1>4, <1>6, <1>7 DEF IInv

\* A step of a thread ends nothing, so the result is still to come.
LEMMA Running ==
  ASSUME Phases, NEW w \in Thread, Busy(w) \/ mode \in {"parallel", "sequential"},
         mode \in {"start", "sequential", "parallel", "done"},
         mode' = mode, result' = result
  PROVE  Phases' /\ BudgetHolds' /\ SourceOrder'
<1>1. mode \notin {"start", "done"}
  BY DEF Phases, Busy
<1>2. result' = None
  BY <1>1 DEF Phases
<1>. QED
  BY <1>1, <1>2 DEF Phases, BudgetHolds, SourceOrder, None

\* An excess is still accounted for after a step of w, if it was not w that
\* accounted for it, or w has failed or has still to charge it.
LEMMA PendingKept ==
  ASSUME Pending, NEW w \in Thread, \A x \in Thread \ {w} : job'[x] = job[x],
         input' = input, Failure => Failure',
         \A c \in Counter : tally'[c] > Limit[c] =>
           Failure' \/ Will(w, c)' \/ (tally'[c] = tally[c] /\ ~Will(w, c))
  PROVE  Pending'
<1> SUFFICES ASSUME NEW c \in Counter, tally'[c] > Limit[c], ~Failure', ~Will(w, c)'
             PROVE  \E x \in Thread : Will(x, c)'
  BY DEF Pending
<1>1. tally[c] > Limit[c] /\ ~Will(w, c) /\ ~Failure
  OBVIOUS
<1>2. PICK x \in Thread : Will(x, c)
  BY <1>1 DEF Pending
<1>3. x \in Thread \ {w} /\ job'[x] = job[x]
  BY <1>1, <1>2
<1>4. Will(x, c)'
  BY <1>2, <1>3 DEF Will, Busy, Doc
<1>. QED
  BY <1>4

\* A thread takes the next document.
LEMMA TakeStep ==
  ASSUME IInv, NEW w \in Thread, Take(w)
  PROVE  IInv'
<1>1. TypeOK /\ Owned /\ Phases /\ Pending
  BY DEF IInv
<1> DEFINE new == [doc |-> taken + 1, path |-> FirstPath(input.docs[taken + 1]), pos |-> 0]
<1>2. /\ mode \in {"parallel", "sequential"} /\ job[w] = Idle /\ taken < Len(input.docs)
      /\ taken' = taken + 1 /\ job' = [job EXCEPT ![w] = new]
      /\ input' = input /\ mode' = mode /\ tally' = tally /\ parsed' = parsed /\ result' = result
  BY DEF Take
<1>3. taken \in Nat /\ Len(input.docs) \in Nat
  BY <1>1, InputTyped
<1>4. new \in Job /\ new.doc = taken + 1 /\ new # Idle
  BY <1>3 DEF Job, FirstPath, Idle
<1> HIDE DEF new
<1>5. /\ job' \in [Thread -> Job \cup {Idle}] /\ job'[w] = new
      /\ \A x \in Thread \ {w} : job'[x] = job[x]
  BY <1>1, <1>2, <1>4 DEF TypeOK
<1>6. TypeOK'
  BY <1>1, <1>2, <1>3, <1>5 DEF TypeOK
<1>7. Owned'
  <2>1. \A x \in Thread : Busy(x)' =>
          \/ x # w /\ Busy(x) /\ job'[x].doc = job[x].doc /\ job'[x].doc \in 1 .. taken
          \/ x = w /\ job'[x].doc = taken + 1
    BY <1>1, <1>4, <1>5 DEF Busy, Owned
  <2>2. taken + 1 \notin 1 .. taken /\ 1 .. taken \subseteq 1 .. taken'
        /\ taken + 1 \in 1 .. taken' /\ 1 .. taken' = (1 .. taken) \cup {taken + 1}
    BY <1>2, <1>3
  <2>3. /\ \A x \in Thread : Busy(x)' => job'[x].doc \in 1 .. taken'
        /\ \A i \in DOMAIN parsed : parsed[i].doc \in 1 .. taken'
    BY <1>1, <2>1, <2>2 DEF Owned
  <2>4. \A x, y \in Thread : Busy(x)' /\ Busy(y)' /\ job'[x].doc = job'[y].doc => x = y
    BY <1>1, <2>1, <2>2 DEF Owned
  <2>5. \A x \in Thread, i \in DOMAIN parsed : Busy(x)' => job'[x].doc # parsed[i].doc
    BY <1>1, <2>1, <2>2 DEF Owned
  <2>6. ASSUME NEW d \in 1 .. taken'
        PROVE  \/ \E i \in DOMAIN parsed : parsed[i].doc = d
               \/ \E x \in Thread : Busy(x)' /\ job'[x].doc = d
    <3>1. CASE d = taken + 1
      BY <1>4, <1>5, <3>1 DEF Busy
    <3>2. CASE d \in 1 .. taken
      BY <1>1, <1>2, <1>5, <3>2 DEF Owned, Busy
    <3>. QED
      BY <2>2, <3>1, <3>2
  <2>7. \A i, j \in DOMAIN parsed : parsed[i].doc = parsed[j].doc => i = j
    BY <1>1 DEF Owned
  <2>. QED
    BY <1>2, <2>3, <2>4, <2>5, <2>6, <2>7 DEF Owned
<1>8. Pending'
  <2>1. Failure => Failure'
    BY <1>2 DEF Failure
  <2>2. \A c \in Counter : ~Will(w, c)
    BY <1>2 DEF Will, Busy
  <2>. QED
    BY <1>1, <1>2, <1>5, <2>1, <2>2, PendingKept
<1>9. Phases' /\ BudgetHolds' /\ SourceOrder'
  BY <1>1, <1>2, Running DEF TypeOK
<1>. QED
  BY <1>6, <1>7, <1>8, <1>9 DEF IInv

\* The streaming attempt is given up: the tree loader starts over.
LEMMA ReparseKeeps ==
  ASSUME TypeOK, Owned, NEW w \in Thread, Busy(w), Reparse(w), taken' = taken
  PROVE  /\ job' \in [Thread -> Job \cup {Idle}] /\ parsed' = parsed /\ Owned'
         /\ Busy(w)' /\ job'[w].path = "tree" /\ job'[w].pos = 0 /\ job'[w].doc = job[w].doc
         /\ \A x \in Thread \ {w} : job'[x] = job[x]
         /\ Failure => Failure'
<1> DEFINE new == [job[w] EXCEPT !.path = "tree", !.pos = 0]
<1>1. job[w] \in Job
  BY BusyFacts
<1>2. new \in Job /\ new.doc = job[w].doc /\ new.path = "tree" /\ new.pos = 0
  BY <1>1 DEF Job
<1>3. job' = [job EXCEPT ![w] = new] /\ parsed' = parsed
  BY DEF Reparse, TypeOK
<1> HIDE DEF new
<1>4. /\ job' \in [Thread -> Job \cup {Idle}] /\ Owned'
      /\ job'[w] = new /\ Busy(w)' /\ \A x \in Thread \ {w} : job'[x] = job[x]
  BY <1>2, <1>3, SameDocument
<1>. QED
  BY <1>2, <1>3, <1>4 DEF Failure

\* One charge: admitted, or the attempt is refused.
LEMMA ChargeStep ==
  ASSUME IInv, NEW w \in Thread, ChargeNext(w)
  PROVE  IInv'
<1>1. TypeOK /\ Owned /\ Phases /\ Pending
  BY DEF IInv
<1> DEFINE ch == Plan(w)[job[w].pos + 1]
<1>2. /\ Busy(w) /\ job[w].pos < Len(Plan(w))
      /\ tally' = [tally EXCEPT ![ch.c] = @ + ch.by]
      /\ IF tally[ch.c] + ch.by > Limit[ch.c]
         THEN Refuse(w)
         ELSE job' = [job EXCEPT ![w].pos = @ + 1] /\ UNCHANGED parsed
      /\ input' = input /\ mode' = mode /\ taken' = taken /\ result' = result
  BY DEF ChargeNext, Busy
<1>3. ch.c \in Counter /\ ch.by \in Nat /\ job[w].pos + 1 \in DOMAIN Plan(w)
  BY <1>1, <1>2, ChargeTyped
<1> HIDE DEF ch
<1>4. /\ tally' \in [Counter -> Nat] /\ tally'[ch.c] = tally[ch.c] + ch.by
      /\ \A c \in Counter \ {ch.c} : tally'[c] = tally[c]
      /\ \A c \in Counter : tally[c] \in Nat /\ Limit[c] \in Nat
  <2>1. tally' = [tally EXCEPT ![ch.c] = tally[ch.c] + ch.by] /\ tally \in [Counter -> Nat]
    BY <1>1, <1>2 DEF TypeOK
  <2>2. ch.c \in Counter /\ ch.by \in Nat /\ tally[ch.c] + ch.by \in Nat
    BY <1>3, <2>1
  <2>3. /\ tally' \in [Counter -> Nat] /\ tally'[ch.c] = tally[ch.c] + ch.by
        /\ \A c \in Counter \ {ch.c} : tally'[c] = tally[c]
    BY <2>1, <2>2
  <2>. QED
    BY <2>1, <2>3, ParallelAssumption
<1>5. Phases' /\ BudgetHolds' /\ SourceOrder'
  BY <1>1, <1>2, Running DEF TypeOK
<1>6. /\ job[w] \in Job /\ job[w].path \in {"streaming", "tree"} /\ job[w].pos \in Nat
      /\ job[w].doc \in 1 .. Len(input.docs) /\ Doc(w) = input.docs[job[w].doc]
  BY <1>1, <1>2, BusyFacts DEF Doc
<1>7. CASE tally[ch.c] + ch.by > Limit[ch.c] /\ job[w].path = "streaming"
  <2>1. Reparse(w)
    BY <1>2, <1>7 DEF Refuse
  <2>2. /\ job' \in [Thread -> Job \cup {Idle}] /\ parsed' = parsed /\ Owned'
        /\ Busy(w)' /\ job'[w].path = "tree" /\ job'[w].pos = 0 /\ job'[w].doc = job[w].doc
        /\ \A x \in Thread \ {w} : job'[x] = job[x]
        /\ Failure => Failure'
    BY <1>1, <1>2, <2>1, ReparseKeeps
  <2>3. TypeOK'
    BY <1>1, <1>2, <1>4, <2>2 DEF TypeOK
  <2>4. ASSUME NEW k \in Counter, k = ch.c PROVE Will(w, k)'
    <3>1. PICK l \in DOMAIN Doc(w).tree : Doc(w).tree[l].c = k
      <4>1. input \in Streams /\ job[w].doc \in DOMAIN input.docs
        BY <1>1, <1>6, InputTyped DEF TypeOK
      <4>2. /\ job[w].pos + 1 \in DOMAIN input.docs[job[w].doc].streaming
            /\ ch = input.docs[job[w].doc].streaming[job[w].pos + 1]
        BY <1>3, <1>6, <1>7 DEF Plan, ch
      <4>3. /\ ch.c = k /\ Doc(w) = input.docs[job[w].doc]
        BY <1>6, <2>4
      <4>4. \E l \in DOMAIN input.docs[job[w].doc].tree :
              input.docs[job[w].doc].tree[l].c
                = input.docs[job[w].doc].streaming[job[w].pos + 1].c
        BY ONLY <4>1, <4>2, TreeChargesAll, Zenon
      <4>. QED
        BY ONLY <4>2, <4>3, <4>4
    <3>2. Doc(w)' = Doc(w) /\ l > 0
      <4>1. Doc(w).tree \in Seq(Charge)
        BY <1>1, <1>2, BusyFacts DEF Document
      <4>. QED
        BY <1>2, <2>2, <4>1 DEF Doc
    <3>. QED
      BY <2>2, <3>1, <3>2 DEF Will
  <2>5. \A c \in Counter : ~Will(w, c)
    BY <1>7 DEF Will
  <2>6. \A c \in Counter : Will(w, c)' \/ (tally'[c] = tally[c] /\ ~Will(w, c))
    BY <1>4, <2>4, <2>5
  <2>7. Pending'
    BY <1>1, <1>2, <2>2, <2>6, PendingKept
  <2>. QED
    BY <1>5, <2>2, <2>3, <2>7 DEF IInv
<1>8. CASE tally[ch.c] + ch.by > Limit[ch.c] /\ job[w].path = "tree"
  <2>1. Deliver(w, "budget")
    BY <1>2, <1>8 DEF Refuse
  <2>2. /\ job' \in [Thread -> Job \cup {Idle}] /\ parsed' \in Seq(Pair) /\ Owned' /\ Failure'
    BY <1>1, <1>2, <2>1, DeliverKeeps
  <2>3. TypeOK'
    BY <1>1, <1>2, <1>4, <2>2 DEF TypeOK
  <2>4. Pending'
    BY <2>2 DEF Pending
  <2>. QED
    BY <1>5, <2>2, <2>3, <2>4 DEF IInv
<1>9. CASE ~(tally[ch.c] + ch.by > Limit[ch.c])
  <2> DEFINE new == [job[w] EXCEPT !.pos = @ + 1]
  <2>1. job' = [job EXCEPT ![w] = new] /\ parsed' = parsed
    BY <1>1, <1>2, <1>9 DEF TypeOK
  <2>2. /\ new \in Job /\ new.doc = job[w].doc /\ new.path = job[w].path
        /\ new.pos = job[w].pos + 1
    BY <1>6 DEF Job
  <2> HIDE DEF new
  <2>3. /\ job' \in [Thread -> Job \cup {Idle}] /\ Owned'
        /\ job'[w] = new /\ Busy(w)' /\ \A x \in Thread \ {w} : job'[x] = job[x]
    BY <1>1, <1>2, <2>1, <2>2, SameDocument
  <2>4. TypeOK'
    BY <1>1, <1>2, <1>4, <2>1, <2>3 DEF TypeOK
  <2>5. ASSUME NEW c \in Counter, tally'[c] > Limit[c], Will(w, c) PROVE Will(w, c)'
    <3>1. c # ch.c
      BY <1>4, <1>9, <2>5
    <3>2. PICK l \in DOMAIN Doc(w).tree : l > job[w].pos /\ Doc(w).tree[l].c = c
      BY <2>5 DEF Will
    <3>3. job[w].path = "tree" /\ ch = Doc(w).tree[job[w].pos + 1]
      BY <2>5 DEF Will, ch, Plan
    <3>4. l \in Nat
      <4>1. Doc(w).tree \in Seq(Charge)
        BY <1>1, <1>2, BusyFacts DEF Document
      <4>. QED
        BY <4>1
    <3>5. l # job[w].pos + 1
      BY <3>1, <3>2, <3>3
    <3>6. l > job[w].pos + 1
      BY <1>6, <3>2, <3>4, <3>5
    <3>7. Doc(w)' = Doc(w)
      BY <1>2, <2>2, <2>3 DEF Doc
    <3>. QED
      BY <2>2, <2>3, <3>2, <3>3, <3>6, <3>7 DEF Will
  <2>6. \A c \in Counter : tally'[c] > Limit[c] => tally'[c] = tally[c]
    BY <1>4, <1>9
  <2>7. Failure => Failure'
    BY <2>1 DEF Failure
  <2>8. Pending'
    BY <1>1, <1>2, <2>3, <2>5, <2>6, <2>7, PendingKept
  <2>. QED
    BY <1>5, <2>3, <2>4, <2>8 DEF IInv
<1>. QED
  BY <1>6, <1>7, <1>8, <1>9

\* An attempt has made all its charges.
LEMMA EndStep ==
  ASSUME IInv, NEW w \in Thread, EndAttempt(w)
  PROVE  IInv'
<1>1. TypeOK /\ Owned /\ Phases /\ Pending
  BY DEF IInv
<1>2. /\ Busy(w) /\ job[w].pos = Len(Plan(w))
      /\ input' = input /\ mode' = mode /\ taken' = taken /\ tally' = tally /\ result' = result
  BY DEF EndAttempt, Busy
<1>3. Phases' /\ BudgetHolds' /\ SourceOrder'
  BY <1>1, <1>2, Running DEF TypeOK
<1>4. job[w].path \in {"streaming", "tree"} /\ Doc(w) \in Document
  BY <1>1, <1>2, BusyFacts
<1>5. \A c \in Counter : ~Will(w, c)
  <2>1. CASE job[w].path = "streaming"
    BY <2>1 DEF Will
  <2>2. CASE job[w].path = "tree"
    <3>1. Plan(w) = Doc(w).tree /\ Doc(w).tree \in Seq(Charge)
      BY <1>4, <2>2 DEF Plan, Document
    <3>2. \A l \in DOMAIN Doc(w).tree : ~(l > job[w].pos)
      BY <1>2, <3>1
    <3>. QED
      BY <3>2 DEF Will
  <2>. QED
    BY <1>4, <2>1, <2>2
<1>6. \/ \E res \in {"ok", "error", "budget"} : Deliver(w, res)
      \/ Reparse(w)
  <2>1. CASE job[w].path = "streaming"
    BY <2>1 DEF EndAttempt
  <2>2. CASE job[w].path = "tree"
    BY <1>4, <2>2 DEF EndAttempt, Document
  <2>. QED
    BY <1>4, <2>1, <2>2
<1>7. CASE \E res \in {"ok", "error", "budget"} : Deliver(w, res)
  <2>1. PICK res \in {"ok", "error", "budget"} : Deliver(w, res)
    BY <1>7
  <2>2. /\ job' \in [Thread -> Job \cup {Idle}] /\ parsed' \in Seq(Pair) /\ Owned'
        /\ \A x \in Thread \ {w} : job'[x] = job[x]
        /\ Failure => Failure'
    BY <1>1, <1>2, <2>1, DeliverKeeps
  <2>3. TypeOK'
    BY <1>1, <1>2, <2>2 DEF TypeOK
  <2>4. Pending'
    BY <1>1, <1>2, <1>5, <2>2, PendingKept
  <2>. QED
    BY <1>3, <2>2, <2>3, <2>4 DEF IInv
<1>8. CASE Reparse(w)
  <2>1. /\ job' \in [Thread -> Job \cup {Idle}] /\ parsed' = parsed /\ Owned'
        /\ \A x \in Thread \ {w} : job'[x] = job[x]
        /\ Failure => Failure'
    BY <1>1, <1>2, <1>8, ReparseKeeps
  <2>2. TypeOK'
    BY <1>1, <1>2, <2>1 DEF TypeOK
  <2>3. Pending'
    BY <1>1, <1>2, <1>5, <2>1, PendingKept
  <2>. QED
    BY <1>3, <2>1, <2>2, <2>3 DEF IInv
<1>. QED
  BY <1>6, <1>7, <1>8

\* Every step keeps the invariant.
LEMMA NextInv == IInv /\ [Next]_vars => IInv'
<1> SUFFICES ASSUME IInv, [Next]_vars PROVE IInv'
  OBVIOUS
<1>1. CASE UNCHANGED vars
  <2>1. /\ input' = input /\ mode' = mode /\ taken' = taken /\ job' = job
        /\ tally' = tally /\ parsed' = parsed /\ result' = result
    BY <1>1 DEF vars
  <2>2. TypeOK' /\ Phases'
    BY <2>1 DEF IInv, TypeOK, Phases
  <2>3. Owned'
    BY <2>1 DEF IInv, Owned, Busy
  <2>4. Pending'
    BY <2>1 DEF IInv, Pending, Failure, Will, Busy, Doc
  <2>5. BudgetHolds' /\ SourceOrder'
    BY <2>1 DEF IInv, BudgetHolds, SourceOrder
  <2>. QED
    BY <2>2, <2>3, <2>4, <2>5 DEF IInv
<1>2. CASE Begin
  BY <1>2, BeginStep
<1>3. CASE Collect
  BY <1>3, CollectStep
<1>4. CASE \E w \in Thread : Step(w)
  BY <1>4, TakeStep, ChargeStep, EndStep DEF Step
<1>. QED
  BY <1>1, <1>2, <1>3, <1>4 DEF Next

\* Induction up to a bound.
LEMMA Upto ==
  ASSUME NEW b \in Nat, NEW S, 0 \in S, \A k \in 1 .. b : k - 1 \in S => k \in S
  PROVE  \A k \in 0 .. b : k \in S
<1> DEFINE B == {k \in 0 .. b : k \notin S}
<1>. SUFFICES ASSUME B # {} PROVE FALSE
  OBVIOUS
<1>1. PICK m \in B : \A k \in B : m <= k
  <2>1. B \in SUBSET Nat
    OBVIOUS
  <2> HIDE DEF B
  <2>. QED BY <2>1, Least
<1>2. m \in 1 .. b /\ m - 1 \in 0 .. b /\ m - 1 \notin B
  BY <1>1
<1>. QED
  BY <1>1, <1>2

-----------------------------------------------------------------------------
(* Sums.  f may be any function defined on 1 .. b.                         *)

Summed(f, b, g) == g = [k \in 0 .. b |-> IF k = 0 THEN 0 ELSE g[k - 1] + f[k]]
SumTo(f, b) == (CHOOSE g : Summed(f, b, g))[b]

LEMMA SumExists ==
  ASSUME NEW f, NEW b \in Nat
  PROVE  \E g : Summed(f, b, g)
<1> DEFINE S == {i \in 0 .. b : \E g : Summed(f, i, g)}
<1>1. 0 \in S
  <2> DEFINE g == [k \in 0 .. 0 |-> 0]
  <2>1. Summed(f, 0, g)
    BY DEF Summed
  <2>. QED BY <2>1
<1>2. ASSUME NEW i \in 1 .. b, i - 1 \in S PROVE i \in S
  <2>1. PICK g : Summed(f, i - 1, g)
    BY <1>2
  <2> DEFINE h == [k \in 0 .. i |-> IF k = i THEN g[i - 1] + f[i] ELSE g[k]]
  <2>2. ASSUME NEW k \in 0 .. i
        PROVE  h[k] = IF k = 0 THEN 0 ELSE h[k - 1] + f[k]
    <3>1. i - 1 \in 0 .. i /\ i - 1 # i
      BY <1>2
    <3>2. CASE k = i
      BY <3>1, <3>2
    <3>3. CASE k # i
      <4>1. k \in 0 .. i - 1 /\ (k # 0 => k - 1 \in 0 .. i /\ k - 1 # i)
        BY <3>3
      <4>2. g[k] = IF k = 0 THEN 0 ELSE g[k - 1] + f[k]
        BY <2>1, <4>1 DEF Summed
      <4>. QED BY <3>3, <4>1, <4>2
    <3>. QED BY <3>2, <3>3
  <2>3. h = [k \in 0 .. i |-> IF k = 0 THEN 0 ELSE h[k - 1] + f[k]]
    <3>1. h = [k \in 0 .. i |-> h[k]]
      OBVIOUS
    <3>. HIDE DEF h
    <3>. QED BY <2>2, <3>1
  <2>4. Summed(f, i, h)
    <3>. HIDE DEF h
    <3>. QED BY <2>3 DEF Summed
  <2>. QED BY <2>4
<1>3. \A i \in 0 .. b : i \in S
  <2>. HIDE DEF S
  <2>. QED BY <1>1, <1>2, Upto
<1>. QED
  BY <1>3

\* A sum is that of all terms but the last, and the last.
LEMMA SumFacts ==
  ASSUME NEW f
  PROVE  SumTo(f, 0) = 0 /\ \A b \in Nat : b # 0 => SumTo(f, b) = SumTo(f, b - 1) + f[b]
<1> DEFINE G(b) == CHOOSE g : Summed(f, b, g)
<1>1. ASSUME NEW b \in Nat PROVE Summed(f, b, G(b)) /\ SumTo(f, b) = G(b)[b]
  BY SumExists DEF SumTo
<1>. HIDE DEF G
<1>2. SumTo(f, 0) = 0
  BY <1>1 DEF Summed
<1>3. ASSUME NEW b \in Nat, b # 0 PROVE SumTo(f, b) = SumTo(f, b - 1) + f[b]
  <2> DEFINE g == G(b)
             h == G(b - 1)
             S == {k \in 0 .. b - 1 : g[k] = h[k]}
  <2>1. Summed(f, b, g) /\ Summed(f, b - 1, h) /\ SumTo(f, b) = g[b] /\ SumTo(f, b - 1) = h[b - 1]
    BY <1>1, <1>3
  <2>. HIDE DEF g, h
  <2>2. 0 \in S
    BY <1>3, <2>1 DEF Summed
  <2>3. ASSUME NEW k \in 1 .. b - 1, k - 1 \in S PROVE k \in S
    <3>1. k \in 0 .. b /\ k \in 0 .. b - 1 /\ k # 0
      BY <2>3
    <3>2. g[k] = g[k - 1] + f[k] /\ h[k] = h[k - 1] + f[k]
      BY <2>1, <3>1 DEF Summed
    <3>. QED BY <2>3, <3>1, <3>2
  <2>4. b - 1 \in S
    <3>1. b - 1 \in Nat /\ b - 1 \in 0 .. b - 1
      BY <1>3
    <3>. HIDE DEF S
    <3>. QED BY <2>2, <2>3, <3>1, Upto
  <2>5. g[b] = g[b - 1] + f[b]
    BY <1>3, <2>1 DEF Summed
  <2>. QED BY <2>1, <2>4, <2>5
<1>. QED
  BY <1>2, <1>3

LEMMA TotalIs == ASSUME NEW s PROVE Total(s) = SumTo(s, Len(s))
BY DEF Total, SumTo, Summed

LEMMA SumNat ==
  ASSUME NEW f, NEW b \in Nat, \A k \in 1 .. b : f[k] \in Nat
  PROVE  SumTo(f, b) \in Nat
<1> DEFINE S == {k \in 0 .. b : SumTo(f, k) \in Nat}
<1>1. 0 \in S
  BY SumFacts
<1>2. ASSUME NEW k \in 1 .. b, k - 1 \in S PROVE k \in S
  <2>1. k \in Nat /\ k # 0 /\ f[k] \in Nat /\ k \in 0 .. b
    BY <1>2
  <2>2. SumTo(f, k) = SumTo(f, k - 1) + f[k]
    BY <2>1, SumFacts
  <2>. QED BY <1>2, <2>1, <2>2
<1>3. b \in S
  <2>. HIDE DEF S
  <2>. QED BY <1>1, <1>2, Upto
<1>. QED
  BY <1>3

\* Equal terms.
LEMMA SumSame ==
  ASSUME NEW f, NEW g, NEW b \in Nat, \A k \in 1 .. b : g[k] = f[k]
  PROVE  SumTo(g, b) = SumTo(f, b)
<1> DEFINE S == {k \in 0 .. b : SumTo(g, k) = SumTo(f, k)}
<1>1. 0 \in S
  BY SumFacts
<1>2. ASSUME NEW k \in 1 .. b, k - 1 \in S PROVE k \in S
  <2>1. k \in Nat /\ k # 0 /\ k \in 0 .. b
    BY <1>2
  <2>2. SumTo(f, k) = SumTo(f, k - 1) + f[k] /\ SumTo(g, k) = SumTo(g, k - 1) + g[k]
    BY <2>1, SumFacts
  <2>. QED BY <1>2, <2>1, <2>2
<1>3. b \in S
  <2>. HIDE DEF S
  <2>. QED BY <1>1, <1>2, Upto
<1>. QED
  BY <1>3

\* One term changed.
LEMMA SumChanged ==
  ASSUME NEW f, NEW g, NEW b \in Nat, \A k \in 1 .. b : f[k] \in Nat /\ g[k] \in Nat,
         NEW i \in 1 .. b, \A k \in 1 .. b : k # i => g[k] = f[k]
  PROVE  SumTo(g, b) + f[i] = SumTo(f, b) + g[i]
<1> DEFINE S == {k \in 0 .. b : k >= i => SumTo(g, k) + f[i] = SumTo(f, k) + g[i]}
<1>1. 0 \in S
  OBVIOUS
<1>2. ASSUME NEW k \in 1 .. b, k - 1 \in S PROVE k \in S
  <2>1. k \in Nat /\ k # 0 /\ k \in 0 .. b /\ k - 1 \in Nat
    BY <1>2
  <2>2. SumTo(f, k) = SumTo(f, k - 1) + f[k] /\ SumTo(g, k) = SumTo(g, k - 1) + g[k]
    BY <2>1, SumFacts
  <2>3. \A j \in 1 .. k - 1 : f[j] \in Nat /\ g[j] \in Nat
    OBVIOUS
  <2>4. SumTo(f, k - 1) \in Nat /\ SumTo(g, k - 1) \in Nat
    BY <2>1, <2>3, SumNat
  <2>5. CASE k < i
    BY <2>1, <2>5
  <2>6. CASE k = i
    <3>1. \A j \in 1 .. k - 1 : g[j] = f[j]
      BY <2>6
    <3>2. SumTo(g, k - 1) = SumTo(f, k - 1)
      BY <2>1, <3>1, SumSame
    <3>. QED BY <2>1, <2>2, <2>4, <2>6, <3>2
  <2>7. CASE k > i
    <3>1. SumTo(g, k - 1) + f[i] = SumTo(f, k - 1) + g[i] /\ g[k] = f[k]
      BY <1>2, <2>7
    <3>. QED BY <2>1, <2>2, <2>4, <2>7, <3>1
  <2>. QED BY <2>5, <2>6, <2>7
<1>3. b \in S
  <2>. HIDE DEF S
  <2>. QED BY <1>1, <1>2, Upto
<1>. QED
  BY <1>3

\* Smaller terms.
LEMMA SumMonotone ==
  ASSUME NEW f, NEW g, NEW b \in Nat,
         \A k \in 1 .. b : f[k] \in Nat /\ g[k] \in Nat /\ f[k] <= g[k]
  PROVE  SumTo(f, b) <= SumTo(g, b)
<1> DEFINE S == {k \in 0 .. b : SumTo(f, k) \in Nat /\ SumTo(g, k) \in Nat /\ SumTo(f, k) <= SumTo(g, k)}
<1>1. 0 \in S
  BY SumFacts
<1>2. ASSUME NEW k \in 1 .. b, k - 1 \in S PROVE k \in S
  <2>1. k \in Nat /\ k # 0 /\ k \in 0 .. b /\ f[k] \in Nat /\ g[k] \in Nat /\ f[k] <= g[k]
    BY <1>2
  <2>2. SumTo(f, k) = SumTo(f, k - 1) + f[k] /\ SumTo(g, k) = SumTo(g, k - 1) + g[k]
    BY <2>1, SumFacts
  <2>. QED BY <1>2, <2>1, <2>2
<1>3. b \in S
  <2>. HIDE DEF S
  <2>. QED BY <1>1, <1>2, Upto
<1>. QED
  BY <1>3

\* Fewer terms.
LEMMA SumPrefix ==
  ASSUME NEW f, NEW b \in Nat, NEW a \in 0 .. b, \A k \in 1 .. b : f[k] \in Nat
  PROVE  SumTo(f, a) \in Nat /\ SumTo(f, a) <= SumTo(f, b)
<1> DEFINE m == SumTo(f, a)
           S == {k \in 0 .. b : SumTo(f, k) \in Nat /\ (k >= a => m <= SumTo(f, k))}
<1>0. m \in Nat
  BY SumNat
<1>1. 0 \in S
  BY SumFacts
<1>2. ASSUME NEW k \in 1 .. b, k - 1 \in S PROVE k \in S
  <2>1. k \in Nat /\ k # 0 /\ k \in 0 .. b /\ f[k] \in Nat
    BY <1>2
  <2>2. SumTo(f, k) = SumTo(f, k - 1) + f[k] /\ SumTo(f, k) \in Nat /\ SumTo(f, k - 1) \in Nat
    BY <1>2, <2>1, SumFacts
  <2>3. k - 1 >= a => m <= SumTo(f, k - 1)
    BY <1>2
  <2>4. k = a => m = SumTo(f, k)
    OBVIOUS
  <2>5. k >= a => m <= SumTo(f, k)
    <3>. HIDE DEF m
    <3>. QED BY <1>0, <2>1, <2>2, <2>3, <2>4
  <2>. QED BY <2>1, <2>2, <2>5
<1>3. b \in S
  <2>. HIDE DEF S
  <2>. QED BY <1>1, <1>2, Upto
<1>. QED
  BY <1>0, <1>3

\* What a list of charges adds to a counter, as a sum.
LEMMA OnCounterFacts ==
  ASSUME NEW charges \in Seq(Charge), NEW c
  PROVE  /\ Sum(charges, c) = SumTo(OnCounter(charges, c), Len(charges))
         /\ \A k \in 1 .. Len(charges) :
              /\ OnCounter(charges, c)[k] = IF charges[k].c = c THEN charges[k].by ELSE 0
              /\ OnCounter(charges, c)[k] \in Nat
         /\ Len(charges) \in Nat /\ DOMAIN charges = 1 .. Len(charges)
<1> DEFINE f == OnCounter(charges, c)
<1>1. DOMAIN charges = 1 .. Len(charges) /\ Len(charges) \in Nat
  OBVIOUS
<1>2. ASSUME NEW k \in 1 .. Len(charges) PROVE charges[k].by \in Nat
  <2>1. charges[k] \in Charge
    BY <1>1
  <2>. QED BY <2>1 DEF Charge
<1>3. f \in [1 .. Len(charges) -> Nat]
  BY <1>1, <1>2 DEF OnCounter
<1>4. Len(f) = Len(charges)
  <2>. HIDE DEF f
  <2>. QED BY <1>1, <1>3
<1>5. \A k \in 1 .. Len(charges) : f[k] = IF charges[k].c = c THEN charges[k].by ELSE 0
  BY <1>1 DEF OnCounter
<1>6. Sum(charges, c) = SumTo(f, Len(f))
  BY TotalIs DEF Sum
<1>. HIDE DEF f
<1>7. \A k \in 1 .. Len(charges) : f[k] \in Nat
  BY <1>3
<1>. QED
  BY <1>1, <1>4, <1>5, <1>6, <1>7 DEF f

-----------------------------------------------------------------------------
(* The books: as long as no counter is past its limit, the tally is what   *)
(* the documents taken so far have added, each up to where its parse       *)
(* stands, and each verdict is the document's own.                         *)

\* The charges of one of the attempts at a document, and whether the
\* document comes to that attempt when no budget stops it.
Attempt(d, path) == IF path = "streaming" THEN d.streaming ELSE d.tree
ComesTo(d, path) ==
  IF path = "streaming" THEN d.streams # "skip" ELSE d.streams \notin {"ok", "located"}

\* What a document has added to c when it stands at pos of an attempt.
Spent(d, path, pos, c) ==
  (IF path = "streaming" \/ d.streams = "skip" THEN 0 ELSE Sum(d.streaming, c))
    + SumTo(OnCounter(Attempt(d, path), c), pos)

LEMMA AttemptTyped ==
  ASSUME NEW d \in Document, NEW path
  PROVE  /\ Attempt(d, path) \in Seq(Charge) /\ d.streaming \in Seq(Charge) /\ d.tree \in Seq(Charge)
         /\ d.streams \in {"skip", "ok", "located", "unlocated", "fallback"} /\ d.loads \in {"ok", "error"}
BY DEF Attempt, Document

LEMMA SumTyped ==
  ASSUME NEW charges \in Seq(Charge), NEW c
  PROVE  Sum(charges, c) \in Nat
<1> DEFINE f == OnCounter(charges, c)
<1>1. /\ Sum(charges, c) = SumTo(f, Len(charges)) /\ Len(charges) \in Nat
      /\ \A k \in 1 .. Len(charges) : f[k] \in Nat
  BY OnCounterFacts
<1>. HIDE DEF f
<1>. QED
  BY <1>1, SumNat

LEMMA DemandTyped ==
  ASSUME NEW d \in Document, NEW c
  PROVE  Demand(d, c) \in Nat
<1>1. Sum(d.streaming, c) \in Nat /\ Sum(d.tree, c) \in Nat
  BY AttemptTyped, SumTyped
<1>. QED
  BY <1>1 DEF Demand

\* A document starts with nothing spent, one charge adds to its own counter,
\* and nothing is spent that it does not demand.
LEMMA SpentFacts ==
  ASSUME NEW d \in Document, NEW path \in {"streaming", "tree"}, ComesTo(d, path),
         NEW pos \in 0 .. Len(Attempt(d, path)), NEW c
  PROVE  /\ Spent(d, path, pos, c) \in Nat /\ Spent(d, path, pos, c) <= Demand(d, c)
         /\ pos < Len(Attempt(d, path)) =>
              LET ch == Attempt(d, path)[pos + 1]
              IN  Spent(d, path, pos + 1, c) =
                    Spent(d, path, pos, c) + (IF ch.c = c THEN ch.by ELSE 0)
<1> DEFINE a == Attempt(d, path)
           n == Len(a)
           f == OnCounter(a, c)
           base == IF path = "streaming" \/ d.streams = "skip" THEN 0 ELSE Sum(d.streaming, c)
<1>1. a \in Seq(Charge)
  BY AttemptTyped
<1>2. /\ Sum(a, c) = SumTo(f, n) /\ n \in Nat
      /\ \A k \in 1 .. n : f[k] = (IF a[k].c = c THEN a[k].by ELSE 0) /\ f[k] \in Nat
  <2>. HIDE DEF a
  <2>. QED BY <1>1, OnCounterFacts
<1>3. base \in Nat /\ Sum(a, c) \in Nat /\ Sum(d.streaming, c) \in Nat /\ Sum(d.tree, c) \in Nat
  <2>1. Sum(d.streaming, c) \in Nat /\ Sum(d.tree, c) \in Nat
    BY AttemptTyped, SumTyped
  <2>. QED BY <2>1 DEF Attempt
<1>4. Demand(d, c) >= base + Sum(a, c)
  <2>1. CASE path = "streaming"
    <3>1. base = 0 /\ a = d.streaming /\ d.streams # "skip"
      BY <2>1 DEF Attempt, ComesTo
    <3>. QED BY <1>3, <3>1 DEF Demand
  <2>2. CASE path = "tree"
    <3>1. /\ a = d.tree /\ d.streams \notin {"ok", "located"}
          /\ base = IF d.streams = "skip" THEN 0 ELSE Sum(d.streaming, c)
      BY <2>2 DEF Attempt, ComesTo
    <3>. QED BY <1>3, <3>1 DEF Demand
  <2>. QED BY <2>1, <2>2
<1>5. \A p : Spent(d, path, p, c) = base + SumTo(f, p)
  BY DEF Spent
<1>6. Demand(d, c) \in Nat
  BY DemandTyped
<1>7. pos \in 0 .. n
  OBVIOUS
<1>. HIDE DEF base, f, a, n
<1>8. SumTo(f, pos) \in Nat /\ SumTo(f, pos) <= SumTo(f, n) /\ SumTo(f, n) \in Nat
  BY <1>2, <1>3, <1>7, SumPrefix
<1>9. Spent(d, path, pos, c) \in Nat /\ Spent(d, path, pos, c) <= Demand(d, c)
  BY <1>2, <1>3, <1>4, <1>5, <1>6, <1>8
<1>10. ASSUME pos < n
       PROVE  Spent(d, path, pos + 1, c) =
                Spent(d, path, pos, c) + (IF a[pos + 1].c = c THEN a[pos + 1].by ELSE 0)
  <2>1. pos + 1 \in 1 .. n /\ pos + 1 \in Nat /\ pos + 1 # 0 /\ (pos + 1) - 1 = pos
    BY <1>2, <1>7, <1>10
  <2>2. SumTo(f, pos + 1) = SumTo(f, pos) + f[pos + 1]
    BY <2>1, SumFacts
  <2>3. f[pos + 1] = (IF a[pos + 1].c = c THEN a[pos + 1].by ELSE 0) /\ f[pos + 1] \in Nat
    BY <1>2, <2>1
  <2>. QED BY <1>3, <1>5, <1>8, <2>2, <2>3
<1>. QED
  BY <1>9, <1>10 DEF a, n

\* s gives what each document has added to the counter c.
Account(c, s) ==
  /\ s \in [1 .. Len(input.docs) -> Nat]
  /\ tally[c] = SumTo(s, Len(input.docs))
  /\ \A i \in 1 .. Len(input.docs) : i > taken => s[i] = 0
  /\ \A k \in DOMAIN parsed : s[parsed[k].doc] = Demand(input.docs[parsed[k].doc], c)
  /\ \A w \in Thread : Busy(w) => s[job[w].doc] = Spent(Doc(w), job[w].path, job[w].pos, c)

\* Each document is judged on its own, and comes to an attempt on its own.
OnItsOwn ==
  /\ \A k \in DOMAIN parsed : parsed[k].res = "ok" <=> Good(input.docs[parsed[k].doc])
  /\ \A w \in Thread : Busy(w) =>
       ComesTo(Doc(w), job[w].path) /\ job[w].pos <= Len(Attempt(Doc(w), job[w].path))

Exact == OnItsOwn /\ \A c \in Counter : \E s : Account(c, s)

\* A counter is past its limit, as it must be in the end.
Overrun ==
  \E c \in Counter : tally[c] > Limit[c] /\ Total(Demands(input.docs, c)) > Limit[c]

\* How a call ends.
Endings ==
  /\ mode \in {"sequential", "parallel"} => ~input.too_long /\ Len(input.docs) <= MaxDocuments
  /\ mode = "done" =>
       \/ result.kind = "refused" /\ (input.too_long \/ ~(Len(input.docs) <= MaxDocuments))
       \/ /\ ~input.too_long /\ Len(input.docs) <= MaxDocuments
          /\ \/ result.kind = "ok" /\ ~Failure /\ taken = Len(input.docs)
             \/ result.kind = "error" /\ Failure

JInv == Endings /\ (Overrun \/ Exact)

\* What the documents demand of a counter, as a sum.
LEMMA DemandsFacts ==
  ASSUME TypeOK, NEW c
  PROVE  /\ Total(Demands(input.docs, c)) = SumTo(Demands(input.docs, c), Len(input.docs))
         /\ \A i \in 1 .. Len(input.docs) :
              /\ Demands(input.docs, c)[i] = Demand(input.docs[i], c)
              /\ Demand(input.docs[i], c) \in Nat
         /\ Total(Demands(input.docs, c)) \in Nat
<1> DEFINE f == Demands(input.docs, c)
           n == Len(input.docs)
<1>1. n \in Nat /\ DOMAIN input.docs = 1 .. n /\ \A i \in 1 .. n : input.docs[i] \in Document
  BY InputTyped
<1>2. \A i \in 1 .. n : Demand(input.docs[i], c) \in Nat
  BY <1>1, DemandTyped
<1>3. f \in [1 .. n -> Nat] /\ \A i \in 1 .. n : f[i] = Demand(input.docs[i], c)
  BY <1>1, <1>2 DEF Demands
<1>. HIDE DEF f, n
<1>4. Len(f) = n
  BY <1>1, <1>3
<1>5. Total(f) = SumTo(f, n)
  BY <1>4, TotalIs
<1>6. \A k \in 1 .. n : f[k] \in Nat
  BY <1>3
<1>7. SumTo(f, n) \in Nat
  BY <1>1, <1>6, SumNat
<1>. QED
  BY <1>2, <1>3, <1>5, <1>7 DEF f, n

\* What the books say of a thread's document.
LEMMA BusyExact ==
  ASSUME TypeOK, Owned, OnItsOwn, NEW w \in Thread, Busy(w)
  PROVE  /\ Doc(w) \in Document /\ job[w].path \in {"streaming", "tree"}
         /\ ComesTo(Doc(w), job[w].path) /\ Plan(w) = Attempt(Doc(w), job[w].path)
         /\ job[w].pos \in 0 .. Len(Plan(w)) /\ Len(Plan(w)) \in Nat
         /\ job[w].doc \in 1 .. Len(input.docs) /\ job[w].doc <= taken /\ Doc(w) = input.docs[job[w].doc]
<1>1. /\ Doc(w) \in Document /\ job[w].path \in {"streaming", "tree"} /\ job[w].pos \in Nat
      /\ job[w].doc \in 1 .. Len(input.docs) /\ job[w].doc \in 1 .. taken /\ Len(Plan(w)) \in Nat
  BY BusyFacts
<1>2. Plan(w) = Attempt(Doc(w), job[w].path)
  BY DEF Plan, Attempt
<1>3. ComesTo(Doc(w), job[w].path) /\ job[w].pos <= Len(Plan(w))
  BY <1>2 DEF OnItsOwn
<1>. QED
  BY <1>1, <1>2, <1>3 DEF Doc

\* No document has added more than it demands.
LEMMA WithinDemand ==
  ASSUME TypeOK, Owned, OnItsOwn, NEW c \in Counter, NEW s, Account(c, s),
         NEW i \in 1 .. Len(input.docs)
  PROVE  s[i] <= Demand(input.docs[i], c)
<1>1. taken \in Nat /\ Demand(input.docs[i], c) \in Nat /\ s[i] \in Nat
  BY InputTyped, DemandsFacts DEF Account
<1>2. CASE i > taken
  <2>1. s[i] = 0
    BY <1>2 DEF Account
  <2>. QED BY <1>1, <2>1
<1>3. CASE ~(i > taken)
  <2>1. i \in 1 .. taken
    BY <1>1, <1>3
  <2>2. CASE \E k \in DOMAIN parsed : parsed[k].doc = i
    <3>1. s[i] = Demand(input.docs[i], c)
      BY <2>2 DEF Account
    <3>. QED BY <1>1, <3>1
  <2>3. CASE \E w \in Thread : Busy(w) /\ job[w].doc = i
    <3>1. PICK w \in Thread : Busy(w) /\ job[w].doc = i
      BY <2>3
    <3>2. /\ Doc(w) \in Document /\ job[w].path \in {"streaming", "tree"}
          /\ ComesTo(Doc(w), job[w].path) /\ Doc(w) = input.docs[i]
          /\ job[w].pos \in 0 .. Len(Attempt(Doc(w), job[w].path))
      BY <3>1, BusyExact
    <3>3. Spent(Doc(w), job[w].path, job[w].pos, c) <= Demand(Doc(w), c)
      BY <3>2, SpentFacts
    <3>4. s[i] = Spent(Doc(w), job[w].path, job[w].pos, c)
      BY <3>1 DEF Account
    <3>. QED BY <3>2, <3>3, <3>4
  <2>. QED BY <2>1, <2>2, <2>3 DEF Owned
<1>. QED
  BY <1>2, <1>3

\* Terms that are all 0.
LEMMA SumZero ==
  ASSUME NEW f, NEW b \in Nat, \A k \in 1 .. b : f[k] = 0
  PROVE  SumTo(f, b) = 0
<1> DEFINE S == {k \in 0 .. b : SumTo(f, k) = 0}
<1>1. 0 \in S
  BY SumFacts
<1>2. ASSUME NEW k \in 1 .. b, k - 1 \in S PROVE k \in S
  <2>1. k \in Nat /\ k # 0 /\ k \in 0 .. b /\ f[k] = 0
    BY <1>2
  <2>2. SumTo(f, k) = SumTo(f, k - 1) + f[k]
    BY <2>1, SumFacts
  <2>. QED BY <1>2, <2>1, <2>2
<1>3. b \in S
  <2>. HIDE DEF S
  <2>. QED BY <1>1, <1>2, Upto
<1>. QED
  BY <1>3

\* A document taken has spent nothing.
LEMMA SpentFirst ==
  ASSUME NEW d \in Document, NEW c
  PROVE  /\ ComesTo(d, FirstPath(d)) /\ FirstPath(d) \in {"streaming", "tree"}
         /\ 0 <= Len(Attempt(d, FirstPath(d)))
         /\ Spent(d, FirstPath(d), 0, c) = 0
<1>1. ComesTo(d, FirstPath(d)) /\ FirstPath(d) \in {"streaming", "tree"}
  BY DEF ComesTo, FirstPath
<1>2. FirstPath(d) = "streaming" \/ d.streams = "skip"
  BY DEF FirstPath
<1>3. SumTo(OnCounter(Attempt(d, FirstPath(d)), c), 0) = 0
  BY SumFacts
<1>4. 0 <= Len(Attempt(d, FirstPath(d)))
  BY AttemptTyped
<1>. QED
  BY <1>1, <1>2, <1>3, <1>4 DEF Spent

\* An attempt at its end has spent all the document demands, or is followed
\* by the tree loader.
LEMMA SpentLast ==
  ASSUME NEW d \in Document, NEW path \in {"streaming", "tree"}, ComesTo(d, path), NEW c
  PROVE  LET spent == Spent(d, path, Len(Attempt(d, path)), c)
         IN  /\ path = "tree" \/ d.streams \in {"ok", "located"} => spent = Demand(d, c)
             /\ path = "streaming" /\ d.streams \notin {"ok", "located"} =>
                  ComesTo(d, "tree") /\ Spent(d, "tree", 0, c) = spent
<1> DEFINE a == Attempt(d, path)
           base == IF path = "streaming" \/ d.streams = "skip" THEN 0 ELSE Sum(d.streaming, c)
           spent == Spent(d, path, Len(a), c)
<1>1. Sum(d.streaming, c) \in Nat /\ Sum(d.tree, c) \in Nat
  BY AttemptTyped, SumTyped
<1>2. Sum(a, c) = SumTo(OnCounter(a, c), Len(a))
  <2>1. a \in Seq(Charge)
    BY AttemptTyped
  <2>. HIDE DEF a
  <2>. QED BY <2>1, OnCounterFacts
<1>3. spent = base + Sum(a, c)
  BY <1>2 DEF Spent
<1>4. CASE path = "tree"
  <2>1. /\ a = d.tree /\ d.streams \notin {"ok", "located"}
        /\ base = IF d.streams = "skip" THEN 0 ELSE Sum(d.streaming, c)
    BY <1>4 DEF Attempt, ComesTo
  <2>2. Demand(d, c) = base + Sum(d.tree, c)
    BY <2>1 DEF Demand
  <2>. QED BY <1>3, <1>4, <2>1, <2>2
<1>5. CASE path = "streaming"
  <2>1. a = d.streaming /\ d.streams # "skip" /\ base = 0
    BY <1>5 DEF Attempt, ComesTo
  <2>2. spent = Sum(d.streaming, c)
    BY <1>1, <1>3, <2>1
  <2>3. d.streams \in {"ok", "located"} => Demand(d, c) = Sum(d.streaming, c)
    BY <1>1, <2>1 DEF Demand
  <2>4. SumTo(OnCounter(Attempt(d, "tree"), c), 0) = 0
    BY SumFacts
  <2>5. Spent(d, "tree", 0, c) = Sum(d.streaming, c)
    <3>1. Spent(d, "tree", 0, c) = Sum(d.streaming, c) + 0
      BY <2>1, <2>4 DEF Spent
    <3>. QED BY <1>1, <3>1
  <2>6. d.streams \notin {"ok", "located"} => ComesTo(d, "tree")
    BY DEF ComesTo
  <2>. HIDE DEF spent, a, base
  <2>. QED BY <1>5, <2>2, <2>3, <2>5, <2>6 DEF spent, a
<1>. QED
  BY <1>4, <1>5

\* The books do not change when nothing they are about does.
LEMMA BooksSame ==
  ASSUME Overrun \/ Exact, input' = input, taken' = taken, job' = job, tally' = tally, parsed' = parsed
  PROVE  (Overrun \/ Exact)'
<1>1. Overrun => Overrun'
  BY DEF Overrun
<1>2. Exact => Exact'
  <2>1. OnItsOwn => OnItsOwn'
    BY DEF OnItsOwn, Busy, Doc
  <2>2. ASSUME NEW c, NEW s, Account(c, s) PROVE Account(c, s)'
    BY <2>2 DEF Account, Busy, Doc
  <2>. QED BY <2>1, <2>2 DEF Exact
<1>. QED
  BY <1>1, <1>2

\* A counter never comes back within its limit.
LEMMA OverrunKept ==
  ASSUME TypeOK, Overrun, input' = input, tally' \in [Counter -> Nat],
         \A c \in Counter : tally'[c] >= tally[c]
  PROVE  Overrun'
<1>1. PICK c \in Counter : tally[c] > Limit[c] /\ Total(Demands(input.docs, c)) > Limit[c]
  BY DEF Overrun
<1>2. tally[c] \in Nat /\ tally'[c] \in Nat /\ Limit[c] \in Nat /\ tally'[c] >= tally[c]
  BY ParallelAssumption DEF TypeOK
<1>3. tally'[c] > Limit[c]
  BY ONLY <1>1, <1>2
<1>. QED
  BY <1>1, <1>3 DEF Overrun

\* A thread delivers its document with the document's own verdict.
LEMMA DeliverExact ==
  ASSUME TypeOK, Owned, Exact, NEW w \in Thread, Busy(w),
         NEW res \in {"ok", "error"}, Deliver(w, res), res = "ok" <=> Good(Doc(w)),
         \A c \in Counter : Spent(Doc(w), job[w].path, job[w].pos, c) = Demand(Doc(w), c),
         input' = input, taken' = taken, tally' = tally
  PROVE  Exact'
<1> DEFINE n == Len(parsed)
           pair == [doc |-> job[w].doc, res |-> res]
<1>1. parsed' = Append(parsed, pair) /\ job' = [job EXCEPT ![w] = Idle]
  BY DEF Deliver
<1>2. parsed \in Seq(Pair) /\ n \in Nat /\ DOMAIN parsed = 1 .. n /\ pair \in Pair
  BY BusyFacts DEF TypeOK, Pair
<1>3. pair.doc = job[w].doc /\ pair.res = res
  OBVIOUS
<1>. HIDE DEF pair
<1>4. /\ DOMAIN parsed' = 1 .. n + 1 /\ \A i \in 1 .. n : parsed'[i] = parsed[i]
      /\ parsed'[n + 1] = pair
  BY <1>1, <1>2, AppendProperties
<1>5. \A i \in DOMAIN parsed' :
        \/ i \in DOMAIN parsed /\ parsed'[i] = parsed[i]
        \/ parsed'[i].doc = job[w].doc /\ parsed'[i].res = res
  <2>. HIDE DEF n
  <2>. QED BY <1>2, <1>3, <1>4
<1>6. \A x \in Thread : Busy(x)' => Busy(x) /\ job'[x] = job[x] /\ Doc(x)' = Doc(x)
  BY <1>1 DEF TypeOK, Busy, Doc
<1>7. OnItsOwn'
  <2>1. \A k \in DOMAIN parsed' : parsed'[k].res = "ok" <=> Good(input.docs[parsed'[k].doc])
    BY <1>5 DEF Exact, OnItsOwn, Doc
  <2>2. \A x \in Thread : Busy(x)' =>
          ComesTo(Doc(x)', job'[x].path) /\ job'[x].pos <= Len(Attempt(Doc(x)', job'[x].path))
    BY <1>6 DEF Exact, OnItsOwn
  <2>. QED BY <2>1, <2>2 DEF OnItsOwn
<1>8. ASSUME NEW c \in Counter, NEW s, Account(c, s) PROVE Account(c, s)'
  <2>1. s[job[w].doc] = Demand(input.docs[job[w].doc], c)
    BY <1>8 DEF Account, Doc
  <2>2. \A k \in DOMAIN parsed' : s[parsed'[k].doc] = Demand(input.docs[parsed'[k].doc], c)
    BY <1>5, <1>8, <2>1 DEF Account
  <2>3. \A x \in Thread : Busy(x)' => s[job'[x].doc] = Spent(Doc(x)', job'[x].path, job'[x].pos, c)
    BY <1>6, <1>8 DEF Account
  <2>. QED BY <1>8, <2>2, <2>3 DEF Account
<1>. QED
  BY <1>7, <1>8 DEF Exact

\* A thread goes on with its document, and what it adds is in the tally.
LEMMA MoveExact ==
  ASSUME TypeOK, Owned, Exact, NEW w \in Thread, Busy(w), NEW new, new.doc = job[w].doc,
         job' = [job EXCEPT ![w] = new], new # Idle,
         ComesTo(Doc(w), new.path), new.pos <= Len(Attempt(Doc(w), new.path)),
         NEW add \in [Counter -> Nat],
         \A c \in Counter : /\ tally'[c] = tally[c] + add[c]
                            /\ Spent(Doc(w), new.path, new.pos, c) =
                                 Spent(Doc(w), job[w].path, job[w].pos, c) + add[c],
         input' = input, taken' = taken, parsed' = parsed
  PROVE  Exact'
<1>1. /\ job'[w] = new /\ Busy(w)' /\ Doc(w)' = Doc(w)
      /\ \A x \in Thread \ {w} : job'[x] = job[x] /\ (Busy(x)' <=> Busy(x)) /\ Doc(x)' = Doc(x)
  BY DEF TypeOK, Busy, Doc
<1>2. OnItsOwn'
  <2>1. ASSUME NEW x \in Thread, Busy(x)'
        PROVE  ComesTo(Doc(x)', job'[x].path) /\ job'[x].pos <= Len(Attempt(Doc(x)', job'[x].path))
    <3>1. CASE x = w
      BY <1>1, <3>1
    <3>2. CASE x # w
      BY <1>1, <2>1, <3>2 DEF Exact, OnItsOwn
    <3>. QED BY <3>1, <3>2
  <2>. QED BY <2>1 DEF Exact, OnItsOwn
<1> DEFINE N == Len(input.docs)
           j == job[w].doc
<1>3. N \in Nat /\ j \in 1 .. N /\ j <= taken /\ taken \in Nat
  BY BusyExact, InputTyped DEF Exact
<1>4. ASSUME NEW c \in Counter PROVE \E t : Account(c, t)'
  <2>1. PICK s : Account(c, s)
    BY DEF Exact
  <2> DEFINE moved == [s EXCEPT ![j] = s[j] + add[c]]
  <2>2. /\ s \in [1 .. N -> Nat] /\ tally[c] = SumTo(s, N) /\ add[c] \in Nat
        /\ s[j] = Spent(Doc(w), job[w].path, job[w].pos, c)
    BY <2>1 DEF Account
  <2>. HIDE DEF N, j
  <2>3. PICK t : /\ t \in [1 .. N -> Nat] /\ t[j] = s[j] + add[c]
                 /\ \A i \in 1 .. N : i # j => t[i] = s[i]
    <3>1. s[j] + add[c] \in Nat
      BY <1>3, <2>2
    <3>2. /\ moved \in [1 .. N -> Nat] /\ moved[j] = s[j] + add[c]
          /\ \A i \in 1 .. N : i # j => moved[i] = s[i]
      BY <1>3, <2>2, <3>1
    <3>. QED BY <3>2
  <2>4. tally'[c] = SumTo(t, N)
    <3>1. \A k \in 1 .. N : s[k] \in Nat /\ t[k] \in Nat
      BY <2>2, <2>3
    <3>2. SumTo(t, N) + s[j] = SumTo(s, N) + t[j]
      <4>1. N \in Nat /\ j \in 1 .. N /\ \A i \in 1 .. N : i # j => t[i] = s[i]
        BY ONLY <1>3, <2>3
      <4>. QED BY ONLY <3>1, <4>1, SumChanged
    <3>3. SumTo(s, N) \in Nat /\ SumTo(t, N) \in Nat /\ s[j] \in Nat
      BY <1>3, <3>1, SumNat
    <3>4. tally'[c] = tally[c] + add[c]
      OBVIOUS
    <3>. QED BY ONLY <2>2, <2>3, <3>2, <3>3, <3>4
  <2>5. \A i \in 1 .. N : i > taken => t[i] = 0
    <3>1. \A i \in 1 .. N : i > taken => i # j /\ s[i] = 0
      BY <1>3, <2>1 DEF Account, N
    <3>. QED BY <2>3, <3>1
  <2>6. \A k \in DOMAIN parsed : t[parsed[k].doc] = Demand(input.docs[parsed[k].doc], c)
    <3>1. \A k \in DOMAIN parsed : parsed[k].doc \in 1 .. N /\ parsed[k].doc # j
      <4>1. 1 .. taken \subseteq 1 .. N
        BY InputTyped DEF TypeOK, N
      <4>. QED BY <4>1 DEF Owned, j
    <3>. QED BY <2>1, <2>3, <3>1 DEF Account
  <2>7. ASSUME NEW x \in Thread, Busy(x)'
        PROVE  t[job'[x].doc] = Spent(Doc(x)', job'[x].path, job'[x].pos, c)
    <3>1. CASE x = w
      BY <1>1, <2>2, <2>3, <3>1 DEF j
    <3>2. CASE x # w
      <4>1. Busy(x) /\ job'[x] = job[x] /\ Doc(x)' = Doc(x)
        BY <1>1, <2>7, <3>2
      <4>2. job[x].doc \in 1 .. N /\ job[x].doc # j
        BY <3>2, <4>1, BusyExact DEF Exact, Owned, N, j
      <4>3. s[job[x].doc] = Spent(Doc(x), job[x].path, job[x].pos, c)
        BY <2>1, <4>1 DEF Account
      <4>. QED BY <2>3, <4>1, <4>2, <4>3
    <3>. QED BY <3>1, <3>2
  <2>8. Account(c, t)'
    <3>1. /\ t \in [1 .. Len(input.docs)' -> Nat] /\ tally'[c] = SumTo(t, Len(input.docs)')
          /\ \A i \in 1 .. Len(input.docs)' : i > taken' => t[i] = 0
      BY <2>3, <2>4, <2>5 DEF N
    <3>2. \A k \in DOMAIN parsed' : t[parsed'[k].doc] = Demand(input'.docs[parsed'[k].doc], c)
      BY <2>6
    <3>3. \A x \in Thread : Busy(x)' => t[job'[x].doc] = Spent(Doc(x)', job'[x].path, job'[x].pos, c)
      BY <2>7
    <3>. HIDE DEF N
    <3>. QED BY ONLY <3>1, <3>2, <3>3 DEF Account
  <2>. QED BY <2>8
<1>. QED
  BY <1>2, <1>4 DEF Exact

\* A charge that passes the limit could not have been spared.
LEMMA Unavoidable ==
  ASSUME TypeOK, Owned, Exact, NEW w \in Thread, Busy(w), job[w].pos < Len(Plan(w)),
         NEW ch, ch = Plan(w)[job[w].pos + 1], tally[ch.c] + ch.by > Limit[ch.c]
  PROVE  Total(Demands(input.docs, ch.c)) > Limit[ch.c]
<1> DEFINE N == Len(input.docs)
           j == job[w].doc
           c == ch.c
           f == Demands(input.docs, c)
<1>1. ch.c \in Counter /\ ch.by \in Nat
  BY ChargeTyped
<1>2. N \in Nat /\ j \in 1 .. N
  BY BusyExact, InputTyped DEF Exact
<1>3. PICK s : Account(ch.c, s)
  BY <1>1 DEF Exact
<1>4. /\ s \in [1 .. N -> Nat] /\ tally[c] = SumTo(s, N)
      /\ s[j] = Spent(Doc(w), job[w].path, job[w].pos, c)
  BY <1>3 DEF Account
<1>5. \A i \in 1 .. N : s[i] <= Demand(input.docs[i], c)
  BY <1>1, <1>3, WithinDemand DEF Exact
<1>6. s[j] + ch.by <= Demand(input.docs[j], c)
  <2> DEFINE d == Doc(w)
             path == job[w].path
             pos == job[w].pos
  <2>1. /\ d \in Document /\ path \in {"streaming", "tree"} /\ ComesTo(d, path)
        /\ Plan(w) = Attempt(d, path) /\ pos \in 0 .. Len(Attempt(d, path))
        /\ Len(Attempt(d, path)) \in Nat /\ d = input.docs[j]
    BY BusyExact DEF Exact
  <2>2. pos < Len(Attempt(d, path)) /\ ch = Attempt(d, path)[pos + 1]
    BY <2>1
  <2>. HIDE DEF d, path, pos, c
  <2>3. Spent(d, path, pos + 1, c) = Spent(d, path, pos, c) + (IF ch.c = c THEN ch.by ELSE 0)
    BY ONLY <2>1, <2>2, SpentFacts
  <2>4. pos + 1 \in 0 .. Len(Attempt(d, path))
    BY ONLY <2>1, <2>2
  <2>5. Spent(d, path, pos + 1, c) <= Demand(d, c)
    BY ONLY <2>1, <2>4, SpentFacts
  <2>6. s[j] = Spent(d, path, pos, c)
    BY <1>4 DEF d, path, pos
  <2>. QED BY <2>1, <2>3, <2>5, <2>6 DEF c
<1>7. /\ Total(f) = SumTo(f, N) /\ Total(f) \in Nat
      /\ \A i \in 1 .. N : f[i] = Demand(input.docs[i], c) /\ f[i] \in Nat
  BY DemandsFacts
<1> DEFINE t == [s EXCEPT ![j] = s[j] + ch.by]
<1>. HIDE DEF N, j, f, c
<1>8. /\ t \in [1 .. N -> Nat] /\ t[j] = s[j] + ch.by
      /\ \A i \in 1 .. N : i # j => t[i] = s[i]
  <2>1. s[j] + ch.by \in Nat
    BY <1>1, <1>2, <1>4
  <2>. QED BY <1>2, <1>4, <2>1
<1>. HIDE DEF t
<1>9. \A k \in 1 .. N : s[k] \in Nat /\ t[k] \in Nat
  BY <1>4, <1>8
<1>10. SumTo(t, N) + s[j] = SumTo(s, N) + t[j]
  BY <1>2, <1>8, <1>9, SumChanged
<1>11. SumTo(t, N) <= SumTo(f, N)
  <2>1. \A k \in 1 .. N : t[k] <= f[k]
    BY <1>5, <1>6, <1>7, <1>8
  <2>. QED BY <1>2, <1>7, <1>9, <2>1, SumMonotone
<1>12. SumTo(s, N) \in Nat /\ SumTo(t, N) \in Nat /\ s[j] \in Nat
  BY <1>2, <1>9, SumNat
<1>13. tally[c] + ch.by > Limit[c] /\ Limit[c] \in Nat
  BY <1>1, InputTyped DEF c
<1>14. SumTo(f, N) > Limit[c]
  BY ONLY <1>1, <1>4, <1>7, <1>8, <1>10, <1>11, <1>12, <1>13
<1>. QED
  BY <1>7, <1>14 DEF f, c

-----------------------------------------------------------------------------
(* The books hold initially and every action keeps them.                   *)

LEMMA InitBooks == Init => JInv
<1> SUFFICES ASSUME Init PROVE JInv
  OBVIOUS
<1>1. TypeOK
  BY InitInv DEF IInv
<1>2. Endings
  BY DEF Init, Endings
<1>3. DOMAIN parsed = {} /\ \A w \in Thread : ~Busy(w)
  BY DEF Init, Busy
<1>4. OnItsOwn
  BY <1>3 DEF OnItsOwn
<1>5. ASSUME NEW c \in Counter PROVE \E s : Account(c, s)
  <2> DEFINE N == Len(input.docs)
             s == [i \in 1 .. N |-> 0]
  <2>1. N \in Nat
    BY <1>1, InputTyped
  <2>. HIDE DEF N
  <2>2. s \in [1 .. N -> Nat] /\ \A i \in 1 .. N : s[i] = 0
    OBVIOUS
  <2>. HIDE DEF s
  <2>3. SumTo(s, N) = 0
    BY <2>1, <2>2, SumZero
  <2>4. tally[c] = 0
    BY DEF Init
  <2>5. Account(c, s)
    BY <1>3, <2>2, <2>3, <2>4 DEF Account, N
  <2>. QED BY <2>5
<1>. QED
  BY <1>2, <1>4, <1>5 DEF JInv, Exact

LEMMA BeginBooks == IInv /\ JInv /\ Begin => JInv'
<1> SUFFICES ASSUME IInv, JInv, Begin PROVE JInv'
  OBVIOUS
<1>1. /\ input' = input /\ taken' = taken /\ job' = job /\ tally' = tally /\ parsed' = parsed
  BY DEF Begin
<1>2. (Overrun \/ Exact)'
  BY <1>1, BooksSame DEF JInv
<1>3. CASE input.too_long \/ Len(input.docs) > MaxDocuments
  <2>1. mode' = "done" /\ result' = [kind |-> "refused", docs |-> <<>>]
    BY <1>3 DEF Begin, Returned
  <2>2. result'.kind = "refused"
    BY <2>1
  <2>3. input.too_long \/ ~(Len(input.docs) <= MaxDocuments)
    BY <1>3, InputTyped, ParallelAssumption DEF IInv
  <2>4. Endings'
    BY <1>1, <2>1, <2>2, <2>3 DEF Endings
  <2>. QED BY <1>2, <2>4 DEF JInv
<1>4. CASE ~(input.too_long \/ Len(input.docs) > MaxDocuments)
  <2>1. mode' # "done"
    BY <1>4 DEF Begin
  <2>2. ~input.too_long /\ Len(input.docs) <= MaxDocuments
    BY <1>4, InputTyped, ParallelAssumption DEF IInv
  <2>3. Endings'
    BY <1>1, <2>1, <2>2 DEF Endings
  <2>. QED BY <1>2, <2>3 DEF JInv
<1>. QED
  BY <1>3, <1>4

LEMMA CollectBooks == IInv /\ JInv /\ Collect => JInv'
<1> SUFFICES ASSUME IInv, JInv, Collect PROVE JInv'
  OBVIOUS
<1> DEFINE r == Collected(InOrder(parsed))
<1>1. /\ mode \in {"sequential", "parallel"} /\ \A w \in Thread : job[w] = Idle
      /\ taken = Len(input.docs) \/ Stopped
      /\ result' = r /\ mode' = "done"
      /\ input' = input /\ taken' = taken /\ job' = job /\ tally' = tally /\ parsed' = parsed
  BY DEF Collect
<1>2. (Overrun \/ Exact)'
  BY <1>1, BooksSame DEF JInv
<1>3. /\ r.kind \in {"ok", "error"}
      /\ r.kind = "ok" => ~Failure
      /\ r.kind = "error" => \E i \in DOMAIN parsed : parsed[i].res # "ok"
  BY <1>1, CollectedFacts DEF IInv
<1>. HIDE DEF r
<1>4. Stopped => Failure
  BY DEF Stopped, Failure
<1>5. ~input.too_long /\ Len(input.docs) <= MaxDocuments
  BY <1>1 DEF JInv, Endings
<1>6. Failure' <=> Failure
  BY <1>1 DEF Failure
<1>7. Endings'
  BY <1>1, <1>3, <1>4, <1>5, <1>6 DEF Endings, Failure
<1>. QED
  BY <1>2, <1>7 DEF JInv

\* A thread ends nothing.
LEMMA EndingsKept ==
  ASSUME Phases, Endings, NEW w \in Thread, Busy(w) \/ mode \in {"parallel", "sequential"},
         mode' = mode, input' = input
  PROVE  Endings'
<1>1. mode # "done"
  BY DEF Phases, Busy
<1>. QED
  BY <1>1 DEF Endings

LEMMA TakeBooks ==
  ASSUME IInv, JInv, NEW w \in Thread, Take(w)
  PROVE  JInv'
<1>1. TypeOK /\ Owned /\ Phases /\ Endings
  BY DEF IInv, JInv
<1> DEFINE d == input.docs[taken + 1]
           new == [doc |-> taken + 1, path |-> FirstPath(d), pos |-> 0]
<1>2. /\ mode \in {"parallel", "sequential"} /\ job[w] = Idle /\ taken < Len(input.docs)
      /\ taken' = taken + 1 /\ job' = [job EXCEPT ![w] = new]
      /\ input' = input /\ mode' = mode /\ tally' = tally /\ parsed' = parsed
  BY DEF Take
<1>3. Endings'
  BY <1>1, <1>2, EndingsKept
<1>4. CASE Overrun
  <2>1. tally' \in [Counter -> Nat] /\ \A c \in Counter : tally'[c] >= tally[c]
    BY <1>1, <1>2 DEF TypeOK
  <2>2. Overrun'
    BY <1>1, <1>2, <1>4, <2>1, OverrunKept
  <2>. QED BY <1>3, <2>2 DEF JInv
<1>5. CASE Exact
  <2>1. taken \in Nat /\ Len(input.docs) \in Nat /\ taken + 1 \in 1 .. Len(input.docs) /\ d \in Document
    BY <1>1, <1>2, InputTyped
  <2>2. new.doc = taken + 1 /\ new.path = FirstPath(d) /\ new.pos = 0 /\ new # Idle
    BY <2>1 DEF Idle
  <2>. HIDE DEF new
  <2>3. /\ job'[w] = new /\ Busy(w)' /\ \A x \in Thread \ {w} : job'[x] = job[x]
    BY <1>1, <1>2, <2>2 DEF TypeOK, Busy
  <2>4. Doc(w)' = d
    BY <1>2, <2>2, <2>3 DEF Doc
  <2>5. \A x \in Thread \ {w} : (Busy(x)' <=> Busy(x)) /\ Doc(x)' = Doc(x)
    BY <1>2, <2>3 DEF Busy, Doc
  <2>. HIDE DEF d
  <2>6. OnItsOwn'
    <3>1. ASSUME NEW x \in Thread, Busy(x)'
          PROVE  ComesTo(Doc(x)', job'[x].path) /\ job'[x].pos <= Len(Attempt(Doc(x)', job'[x].path))
      <4>1. CASE x = w
        BY <2>1, <2>2, <2>3, <2>4, <4>1, SpentFirst
      <4>2. CASE x # w
        BY <1>5, <2>3, <2>5, <3>1, <4>2 DEF Exact, OnItsOwn
      <4>. QED BY <4>1, <4>2
    <3>2. \A k \in DOMAIN parsed' : parsed'[k].res = "ok" <=> Good(input'.docs[parsed'[k].doc])
      BY <1>2, <1>5 DEF Exact, OnItsOwn
    <3>. QED BY <3>1, <3>2 DEF OnItsOwn
  <2>7. ASSUME NEW c \in Counter, NEW s, Account(c, s) PROVE Account(c, s)'
    <3>1. /\ s \in [1 .. Len(input.docs)' -> Nat] /\ tally'[c] = SumTo(s, Len(input.docs)')
          /\ \A k \in DOMAIN parsed' : s[parsed'[k].doc] = Demand(input'.docs[parsed'[k].doc], c)
      BY <1>2, <2>7 DEF Account
    <3>2. \A i \in 1 .. Len(input.docs)' : i > taken' => s[i] = 0
      BY <1>2, <2>1, <2>7 DEF Account
    <3>3. ASSUME NEW x \in Thread, Busy(x)'
          PROVE  s[job'[x].doc] = Spent(Doc(x)', job'[x].path, job'[x].pos, c)
      <4>1. CASE x = w
        <5>1. s[taken + 1] = 0
          BY <2>1, <2>7 DEF Account
        <5>. QED BY <2>1, <2>2, <2>3, <2>4, <4>1, <5>1, SpentFirst
      <4>2. CASE x # w
        BY <2>3, <2>5, <2>7, <3>3, <4>2 DEF Account
      <4>. QED BY <4>1, <4>2
    <3>. QED BY ONLY <3>1, <3>2, <3>3 DEF Account
  <2>8. Exact'
    BY <1>5, <2>6, <2>7 DEF Exact
  <2>. QED BY <1>3, <2>8 DEF JInv
<1>. QED
  BY <1>4, <1>5 DEF JInv

LEMMA ChargeBooks ==
  ASSUME IInv, JInv, NEW w \in Thread, ChargeNext(w)
  PROVE  JInv'
<1>1. TypeOK /\ Owned /\ Phases /\ Endings
  BY DEF IInv, JInv
<1> DEFINE ch == Plan(w)[job[w].pos + 1]
<1>2. /\ Busy(w) /\ job[w].pos < Len(Plan(w))
      /\ tally' = [tally EXCEPT ![ch.c] = tally[ch.c] + ch.by]
      /\ IF tally[ch.c] + ch.by > Limit[ch.c]
         THEN Refuse(w)
         ELSE job' = [job EXCEPT ![w].pos = @ + 1] /\ UNCHANGED parsed
      /\ input' = input /\ mode' = mode /\ taken' = taken
  BY <1>1 DEF ChargeNext, Busy, TypeOK
<1>3. ch.c \in Counter /\ ch.by \in Nat
  BY <1>1, <1>2, ChargeTyped
<1>. HIDE DEF ch
<1>4. /\ tally' \in [Counter -> Nat] /\ tally'[ch.c] = tally[ch.c] + ch.by
      /\ \A c \in Counter : tally[c] \in Nat
      /\ \A c \in Counter \ {ch.c} : tally'[c] = tally[c]
  <2>1. tally \in [Counter -> Nat]
    BY <1>1 DEF TypeOK
  <2>2. tally[ch.c] + ch.by \in Nat
    BY <1>3, <2>1
  <2>. QED BY <1>2, <1>3, <2>1, <2>2
<1>5. Endings'
  BY <1>1, <1>2, EndingsKept
<1>6. CASE Overrun
  <2>1. \A c \in Counter : tally'[c] >= tally[c]
    BY <1>3, <1>4
  <2>2. Overrun'
    BY <1>1, <1>2, <1>4, <1>6, <2>1, OverrunKept
  <2>. QED BY <1>5, <2>2 DEF JInv
<1>7. CASE Exact /\ tally[ch.c] + ch.by > Limit[ch.c]
  <2>1. Total(Demands(input.docs, ch.c)) > Limit[ch.c]
    BY <1>1, <1>2, <1>7, Unavoidable DEF ch
  <2>2. \E c \in Counter : tally'[c] > Limit[c] /\ Total(Demands(input'.docs, c)) > Limit[c]
    BY <1>2, <1>3, <1>4, <1>7, <2>1
  <2>3. Overrun'
    BY <2>2 DEF Overrun
  <2>. QED BY <1>5, <2>3 DEF JInv
<1>8. CASE Exact /\ ~(tally[ch.c] + ch.by > Limit[ch.c])
  <2> DEFINE d == Doc(w)
             path == job[w].path
             pos == job[w].pos
             moved == [job[w] EXCEPT !.pos = @ + 1]
             added == [c \in Counter |-> IF ch.c = c THEN ch.by ELSE 0]
  <2>1. /\ d \in Document /\ path \in {"streaming", "tree"} /\ ComesTo(d, path)
        /\ Plan(w) = Attempt(d, path) /\ pos \in 0 .. Len(Attempt(d, path))
        /\ Len(Attempt(d, path)) \in Nat
    BY <1>1, <1>2, <1>8, BusyExact DEF Exact
  <2>2. pos < Len(Attempt(d, path)) /\ ch = Attempt(d, path)[pos + 1]
    BY <1>2, <2>1 DEF ch
  <2>3. parsed' = parsed
    BY <1>8, <1>2
  <2>4. PICK new : /\ job' = [job EXCEPT ![w] = new]
                   /\ new.doc = job[w].doc /\ new.path = path /\ new.pos = pos + 1 /\ new # Idle
    <3>1. job[w] \in Job
      BY <1>1, <1>2, BusyFacts
    <3>2. moved.doc = job[w].doc /\ moved.path = path /\ moved.pos = pos + 1 /\ moved # Idle
      BY <3>1 DEF Job, Idle
    <3>3. job' = [job EXCEPT ![w] = moved]
      BY <1>1, <1>2, <1>8 DEF TypeOK
    <3>. HIDE DEF moved
    <3>. QED BY <3>2, <3>3
  <2>5. PICK add \in [Counter -> Nat] : \A c \in Counter : add[c] = IF ch.c = c THEN ch.by ELSE 0
    <3>1. added \in [Counter -> Nat] /\ \A c \in Counter : added[c] = IF ch.c = c THEN ch.by ELSE 0
      BY <1>3
    <3>. QED BY <3>1
  <2>6. ASSUME NEW c \in Counter PROVE tally'[c] = tally[c] + add[c]
    BY <1>4, <2>5
  <2>7. ASSUME NEW c \in Counter
        PROVE  Spent(d, path, pos + 1, c) = Spent(d, path, pos, c) + add[c]
    <3>. HIDE DEF d, path, pos
    <3>1. Spent(d, path, pos + 1, c) = Spent(d, path, pos, c) + (IF ch.c = c THEN ch.by ELSE 0)
      BY <2>1, <2>2, SpentFacts
    <3>. QED BY <2>5, <3>1
  <2>8. pos + 1 <= Len(Attempt(d, path))
    <3>. HIDE DEF d, path, pos
    <3>. QED BY <2>1, <2>2
  <2>9. /\ ComesTo(Doc(w), new.path) /\ new.pos <= Len(Attempt(Doc(w), new.path))
       /\ \A c \in Counter : /\ tally'[c] = tally[c] + add[c]
                              /\ Spent(Doc(w), new.path, new.pos, c) =
                                   Spent(Doc(w), job[w].path, job[w].pos, c) + add[c]
    BY <2>1, <2>4, <2>6, <2>7, <2>8
  <2>10. TypeOK /\ Owned /\ Exact /\ Busy(w) /\ input' = input /\ taken' = taken /\ parsed' = parsed
    BY <1>1, <1>2, <1>8, <2>3
  <2>11. job' = [job EXCEPT ![w] = new] /\ new.doc = job[w].doc /\ new # Idle
    BY <2>4
  <2>. HIDE DEF d, path, pos, moved, added
  <2>12. Exact'
    BY ONLY <2>9, <2>10, <2>11, MoveExact
  <2>. QED BY <1>5, <2>12 DEF JInv
<1>. QED
  BY <1>6, <1>7, <1>8 DEF JInv

LEMMA EndBooks ==
  ASSUME IInv, JInv, NEW w \in Thread, EndAttempt(w)
  PROVE  JInv'
<1>1. TypeOK /\ Owned /\ Phases /\ Endings
  BY DEF IInv, JInv
<1>2. /\ Busy(w) /\ job[w].pos = Len(Plan(w))
      /\ input' = input /\ mode' = mode /\ taken' = taken /\ tally' = tally
  BY DEF EndAttempt, Busy
<1>3. Endings'
  BY <1>1, <1>2, EndingsKept
<1>4. CASE Overrun
  <2>1. tally' \in [Counter -> Nat] /\ \A c \in Counter : tally'[c] >= tally[c]
    BY <1>1, <1>2 DEF TypeOK
  <2>2. Overrun'
    BY <1>1, <1>2, <1>4, <2>1, OverrunKept
  <2>. QED BY <1>3, <2>2 DEF JInv
<1>5. CASE Exact
  <2> DEFINE d == Doc(w)
             path == job[w].path
             pos == job[w].pos
  <2>1. /\ d \in Document /\ path \in {"streaming", "tree"} /\ ComesTo(d, path)
        /\ pos = Len(Attempt(d, path)) /\ job[w] \in Job
    BY <1>1, <1>2, <1>5, BusyExact, BusyFacts DEF Exact
  <2>2. /\ d.streams \in {"skip", "ok", "located", "unlocated", "fallback"}
        /\ d.loads \in {"ok", "error"}
    BY <2>1, AttemptTyped
  <2>3. ASSUME path = "tree" \/ d.streams \in {"ok", "located"}
        PROVE  Exact'
    <3>1. \A c \in Counter : Spent(d, path, pos, c) = Demand(d, c)
      <4>. HIDE DEF d, path, pos
      <4>. QED BY <2>1, <2>3, SpentLast
    <3>2. \E res \in {"ok", "error"} : Deliver(w, res) /\ (res = "ok" <=> Good(d))
      <4>1. CASE path = "streaming"
        BY <2>1, <2>3, <4>1 DEF EndAttempt, Good
      <4>2. CASE path = "tree"
        BY <2>1, <2>2, <4>2 DEF EndAttempt, Good, ComesTo
      <4>. QED BY <2>1, <4>1, <4>2
    <3>. QED BY <1>1, <1>2, <1>5, <3>1, <3>2, DeliverExact
  <2>4. ASSUME path = "streaming", d.streams \notin {"ok", "located"}
        PROVE  Exact'
    <3> DEFINE moved == [job[w] EXCEPT !.path = "tree", !.pos = 0]
               added == [c \in Counter |-> 0]
    <3>1. Reparse(w)
      BY <2>4 DEF EndAttempt
    <3>2. parsed' = parsed
      BY <3>1 DEF Reparse
    <3>3. PICK new : /\ job' = [job EXCEPT ![w] = new]
                     /\ new.doc = job[w].doc /\ new.path = "tree" /\ new.pos = 0 /\ new # Idle
      <4>1. job' = [job EXCEPT ![w] = moved]
        BY <1>1, <3>1 DEF Reparse, TypeOK
      <4>2. moved.doc = job[w].doc /\ moved.path = "tree" /\ moved.pos = 0 /\ moved # Idle
        BY <2>1 DEF Job, Idle
      <4>. HIDE DEF moved
      <4>. QED BY <4>1, <4>2
    <3>4. PICK add \in [Counter -> Nat] : \A c \in Counter : add[c] = 0
      <4>1. added \in [Counter -> Nat] /\ \A c \in Counter : added[c] = 0
        OBVIOUS
      <4>. QED BY <4>1
    <3>5. ASSUME NEW c \in Counter
          PROVE  /\ tally'[c] = tally[c] + add[c]
                 /\ Spent(d, "tree", 0, c) = Spent(d, path, pos, c) + add[c]
      <4>1. tally[c] \in Nat /\ tally'[c] = tally[c]
        BY <1>1, <1>2 DEF TypeOK
      <4>2. Spent(d, "tree", 0, c) = Spent(d, path, pos, c) /\ Spent(d, path, pos, c) \in Nat
        <5>1. pos \in 0 .. Len(Attempt(d, path))
          BY <1>1, <1>2, <1>5, BusyExact DEF Exact
        <5>. HIDE DEF d, path, pos
        <5>. QED BY <2>1, <2>4, <5>1, SpentLast, SpentFacts
      <4>. QED BY <3>4, <4>1, <4>2
    <3>6. ComesTo(d, "tree") /\ 0 <= Len(Attempt(d, "tree"))
      BY <2>1, <2>4, AttemptTyped DEF ComesTo
    <3>7. /\ ComesTo(Doc(w), new.path) /\ new.pos <= Len(Attempt(Doc(w), new.path))
         /\ \A c \in Counter : /\ tally'[c] = tally[c] + add[c]
                                /\ Spent(Doc(w), new.path, new.pos, c) =
                                     Spent(Doc(w), job[w].path, job[w].pos, c) + add[c]
      BY <3>3, <3>5, <3>6
    <3>8. TypeOK /\ Owned /\ Exact /\ Busy(w) /\ input' = input /\ taken' = taken /\ parsed' = parsed
      BY <1>1, <1>2, <1>5, <3>2
    <3>9. job' = [job EXCEPT ![w] = new] /\ new.doc = job[w].doc /\ new # Idle
      BY <3>3
    <3>. HIDE DEF d, path, pos, moved, added
    <3>. QED BY ONLY <3>7, <3>8, <3>9, MoveExact
  <2>5. Exact'
    BY <2>1, <2>3, <2>4
  <2>. QED BY <1>3, <2>5 DEF JInv
<1>. QED
  BY <1>4, <1>5 DEF JInv

\* Every step keeps the books.
LEMMA NextBooks == IInv /\ JInv /\ [Next]_vars => JInv'
<1> SUFFICES ASSUME IInv, JInv, [Next]_vars PROVE JInv'
  OBVIOUS
<1>1. CASE UNCHANGED vars
  <2>1. /\ input' = input /\ mode' = mode /\ taken' = taken /\ job' = job
        /\ tally' = tally /\ parsed' = parsed /\ result' = result
    BY <1>1 DEF vars
  <2>2. Endings'
    BY <2>1 DEF JInv, Endings, Failure
  <2>3. (Overrun \/ Exact)'
    BY <2>1, BooksSame DEF JInv
  <2>. QED BY <2>2, <2>3 DEF JInv
<1>2. CASE Begin
  BY <1>2, BeginBooks
<1>3. CASE Collect
  BY <1>3, CollectBooks
<1>4. CASE \E w \in Thread : Step(w)
  BY <1>4, TakeBooks, ChargeBooks, EndBooks DEF Step
<1>. QED
  BY <1>1, <1>2, <1>3, <1>4 DEF Next

\* At the end the books decide the verdict.
LEMMA Decided == IInv /\ JInv => ScheduleIndependent
<1> SUFFICES ASSUME IInv, JInv, mode = "done" PROVE ScheduleIndependent
  BY DEF ScheduleIndependent
<1>1. TypeOK /\ Owned /\ Phases /\ Endings /\ BudgetHolds /\ SourceOrder
  BY DEF IInv, JInv
<1> DEFINE Fits == /\ ~input.too_long /\ Len(input.docs) <= MaxDocuments
                   /\ \A i \in DOMAIN input.docs : Good(input.docs[i])
                   /\ \A c \in Counter : Total(Demands(input.docs, c)) <= Limit[c]
<1>2. SUFFICES result.kind = "ok" <=> Fits
  BY <1>1 DEF ScheduleIndependent
<1>3. CASE result.kind = "refused"
  BY <1>1, <1>3 DEF Endings
<1>4. CASE Overrun
  <2>1. PICK c \in Counter : tally[c] > Limit[c] /\ Total(Demands(input.docs, c)) > Limit[c]
    BY <1>4 DEF Overrun
  <2>2. tally[c] \in Nat /\ Limit[c] \in Nat /\ Total(Demands(input.docs, c)) \in Nat
    BY <1>1, ParallelAssumption, DemandsFacts DEF TypeOK
  <2>3. ~(tally[c] <= Limit[c]) /\ ~(Total(Demands(input.docs, c)) <= Limit[c])
    BY <2>1, <2>2
  <2>. QED BY <1>1, <2>3 DEF BudgetHolds
<1>5. CASE Exact /\ result.kind = "error"
  <2>1. PICK k \in DOMAIN parsed : parsed[k].res # "ok"
    BY <1>1, <1>5 DEF Endings, Failure
  <2>2. ~Good(input.docs[parsed[k].doc])
    BY <1>5, <2>1 DEF Exact, OnItsOwn
  <2>3. parsed[k].doc \in DOMAIN input.docs
    BY <1>1, InputTyped DEF Owned, TypeOK
  <2>. QED BY <1>5, <2>2, <2>3
<1>6. CASE Exact /\ result.kind = "ok"
  <2> DEFINE N == Len(input.docs)
  <2>1. /\ ~input.too_long /\ Len(input.docs) <= MaxDocuments /\ ~Failure /\ taken = N
        /\ \A w \in Thread : job[w] = Idle
    BY <1>1, <1>6 DEF Endings, Phases
  <2>2. \A i \in 1 .. N : \E k \in DOMAIN parsed : parsed[k].doc = i
    BY <1>1, <2>1, AllIn
  <2>3. \A i \in 1 .. N : Good(input.docs[i])
    BY <1>6, <2>1, <2>2 DEF Exact, OnItsOwn, Failure
  <2>4. N \in Nat /\ DOMAIN input.docs = 1 .. N
    BY <1>1, InputTyped
  <2>5. ASSUME NEW c \in Counter PROVE Total(Demands(input.docs, c)) <= Limit[c]
    <3>1. PICK s : Account(c, s)
      BY <1>6 DEF Exact
    <3>2. \A i \in 1 .. N : s[i] = Demand(input.docs[i], c)
      BY <2>2, <3>1 DEF Account
    <3> DEFINE f == Demands(input.docs, c)
    <3>3. Total(f) = SumTo(f, N) /\ \A i \in 1 .. N : f[i] = Demand(input.docs[i], c)
      BY <1>1, DemandsFacts
    <3>4. tally[c] = SumTo(s, N)
      BY <3>1 DEF Account
    <3>. HIDE DEF f, N
    <3>5. SumTo(f, N) = SumTo(s, N)
      BY <2>4, <3>2, <3>3, SumSame
    <3>6. tally[c] <= Limit[c]
      BY <1>1, <1>6 DEF BudgetHolds
    <3>. QED BY <3>3, <3>4, <3>5, <3>6 DEF f
  <2>. QED BY <1>6, <2>1, <2>3, <2>4, <2>5
<1>. QED
  BY <1>1, <1>3, <1>4, <1>5, <1>6 DEF JInv, Endings

-----------------------------------------------------------------------------
(* What is proved of parallel parsing.                                     *)

\* The invariant holds throughout every call of parse_with_config.
THEOREM Invariant == Spec => []IInv
<1>. QED
  BY InitInv, NextInv, PTL DEF Spec

\* The state keeps its types.
THEOREM TypeCorrect == Spec => []TypeOK
<1>1. IInv => TypeOK
  BY DEF IInv
<1>. QED
  BY <1>1, Invariant, PTL

\* However the charges of any number of workers interleave, a stream is
\* accepted only when every counter of the tally is within its limit.
THEOREM NoOverdraft == Spec => []BudgetHolds
<1>1. IInv => BudgetHolds
  BY DEF IInv
<1>. QED
  BY <1>1, Invariant, PTL

\* The documents, or the first failure, come back in source order, in
\* whatever order the workers finished.
THEOREM InSourceOrder == Spec => []SourceOrder
<1>1. IInv => SourceOrder
  BY DEF IInv
<1>. QED
  BY <1>1, Invariant, PTL

\* Whether a stream is accepted depends on the stream alone: with any number
\* of workers, however their charges interleave, it is accepted exactly when
\* every document parses and all the charges of all the attempts fit.
THEOREM VerdictOfTheStream == Spec => []ScheduleIndependent
<1>1. Init => IInv /\ JInv
  BY InitInv, InitBooks
<1>2. (IInv /\ JInv) /\ [Next]_vars => (IInv /\ JInv)'
  BY NextInv, NextBooks
<1>3. IInv /\ JInv => ScheduleIndependent
  BY Decided
<1>. QED
  BY <1>1, <1>2, <1>3, PTL DEF Spec
=============================================================================
