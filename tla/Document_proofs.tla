-------------------------- MODULE Document_proofs --------------------------
(***************************************************************************)
(* Proofs about the editable document, for every text, fragment and        *)
(* configured limit.                                                       *)
(***************************************************************************)
EXTENDS Document, SequenceTheorems, FiniteSetTheorems, NaturalsInduction, WellFoundedInduction, TLAPS

(***************************************************************************)
(* Numbers.                                                                *)
(***************************************************************************)
\* Any set of naturals has a least member.
LEMMA Least ==
  ASSUME NEW S \in SUBSET Nat, S # {}
  PROVE  \E m \in S : \A k \in S : m <= k
<1>1. PICK m \in S : \A k \in S : ~ (<<k, m>> \in OpToRel(<, Nat))
  BY NatLessThanWellFounded, WFMin, Zenon
<1>2. \A k \in S : ~(k < m)
  BY <1>1, Zenon DEF OpToRel
<1>. QED
  BY <1>2

\* Induction up to n, over a set.
LEMMA Upto ==
  ASSUME NEW n \in Nat, NEW S, 0 \in S, \A k \in 1 .. n : k - 1 \in S => k \in S
  PROVE  \A k \in 0 .. n : k \in S
<1> DEFINE B == {k \in 0 .. n : k \notin S}
<1>. SUFFICES ASSUME B # {} PROVE FALSE
  OBVIOUS
<1>1. PICK m \in B : \A k \in B : m <= k
  <2>1. B \in SUBSET Nat
    OBVIOUS
  <2> HIDE DEF B
  <2>. QED BY <2>1, Least
<1>2. m \in 1 .. n /\ m - 1 \in 0 .. n /\ m - 1 \notin B
  BY <1>1
<1>. QED
  BY <1>1, <1>2

LEMMA SmallestFacts ==
  ASSUME NEW S \in SUBSET Nat, S # {}
  PROVE  Smallest(S) \in S /\ \A k \in S : Smallest(S) <= k
<1>1. \E m \in S : \A k \in S : m <= k
  BY Least
<1>. QED
  BY <1>1 DEF Smallest

LEMMA LargestFacts ==
  ASSUME NEW n \in Nat, NEW S, \A k \in S : k \in 0 .. n, S # {}
  PROVE  Largest(S) \in S /\ \A k \in S : k <= Largest(S)
<1> DEFINE T == {n - k : k \in S}
<1>1. T \in SUBSET Nat /\ T # {}
  OBVIOUS
<1>2. PICK t \in T : \A k \in T : t <= k
  BY <1>1, Least
<1>3. PICK m \in S : t = n - m
  OBVIOUS
<1>4. ASSUME NEW k \in S PROVE k <= m
  <2>1. n - k \in T
    OBVIOUS
  <2>. QED BY <1>2, <1>3, <2>1
<1>. QED
  BY <1>4 DEF Largest

(***************************************************************************)
(* Ascending: the members of a set of numbers, in order.                   *)
(***************************************************************************)
\* s lists the members of S in increasing order.
Lists(s, S) ==
  /\ s \in Seq(S)
  /\ \A i, j \in 1 .. Len(s) : i < j => s[i] < s[j]
  /\ \A x \in S : \E i \in 1 .. Len(s) : s[i] = x

LEMMA ListsAppend ==
  ASSUME NEW S, \A x \in S : x \in Nat, NEW s, NEW k \in Nat, Lists(s, S), \A x \in S : x < k
  PROVE  Lists(Append(s, k), S \cup {k})
<1> DEFINE t == Append(s, k)
           T == S \cup {k}
<1>1. s \in Seq(S) /\ Len(s) \in Nat
  BY DEF Lists
<1>2. /\ t \in Seq(T) /\ Len(t) = Len(s) + 1
      /\ \A i \in 1 .. Len(s) : t[i] = s[i] /\ s[i] \in S
      /\ t[Len(s) + 1] = k
  BY <1>1
<1> HIDE DEF t
<1>3. \A i, j \in 1 .. Len(t) : i < j => t[i] < t[j]
  <2> SUFFICES ASSUME NEW i \in 1 .. Len(t), NEW j \in 1 .. Len(t), i < j PROVE t[i] < t[j]
    OBVIOUS
  <2>1. i \in 1 .. Len(s) /\ t[i] = s[i] /\ s[i] \in S
    BY <1>1, <1>2
  <2>2. CASE j \in 1 .. Len(s)
    BY <1>2, <2>1, <2>2 DEF Lists
  <2>3. CASE j = Len(s) + 1
    BY <1>2, <2>1, <2>3
  <2>4. j \in 1 .. Len(s) \/ j = Len(s) + 1
    <3>1. Len(s) \in Nat /\ j \in 1 .. Len(s) + 1
      BY <1>1, <1>2
    <3>. QED BY ONLY <3>1
  <2>. QED BY ONLY <2>2, <2>3, <2>4
<1>4. \A x \in T : \E i \in 1 .. Len(t) : t[i] = x
  <2>1. ASSUME NEW x \in S PROVE \E i \in 1 .. Len(t) : t[i] = x
    <3>1. PICK i \in 1 .. Len(s) : s[i] = x
      BY DEF Lists
    <3>. QED BY <1>1, <1>2, <3>1
  <2>2. Len(s) + 1 \in 1 .. Len(t)
    BY <1>1, <1>2
  <2>. QED BY <1>2, <2>1, <2>2
<1>5. Lists(t, T)
  BY <1>2, <1>3, <1>4 DEF Lists
<1>. QED
  BY <1>5 DEF t

\* The recursive function behind Ascending.
IsRun(run, S, n) ==
  run = [k \in 0 .. n |->
           LET below == IF k = 0 THEN <<>> ELSE run[k - 1]
           IN  IF k \in S THEN Append(below, k) ELSE below]

LEMMA RunExists ==
  ASSUME NEW n \in Nat, NEW S
  PROVE  \E run : IsRun(run, S, n)
<1> DEFINE Body(below, k) == IF k \in S THEN Append(below, k) ELSE below
           M == {m \in 0 .. n : \E run : IsRun(run, S, m)}
<1>1. 0 \in M
  <2> DEFINE run == [k \in 0 .. 0 |-> Body(<<>>, k)]
  <2>1. IsRun(run, S, 0)
    BY DEF IsRun
  <2>. QED BY <2>1
<1>2. ASSUME NEW m \in 1 .. n, m - 1 \in M PROVE m \in M
  <2>1. PICK f : IsRun(f, S, m - 1)
    BY <1>2
  <2> DEFINE g == [k \in 0 .. m |-> IF k < m THEN f[k] ELSE Body(f[m - 1], m)]
  <2>2. ASSUME NEW k \in 0 .. m
        PROVE  g[k] = LET below == IF k = 0 THEN <<>> ELSE g[k - 1] IN Body(below, k)
    <3>1. CASE k = m
      BY <3>1
    <3>2. CASE k < m
      <4>1. g[k] = f[k] /\ k \in 0 .. m - 1
        BY <3>2
      <4>2. f[k] = LET below == IF k = 0 THEN <<>> ELSE f[k - 1] IN Body(below, k)
        BY <2>1, <4>1 DEF IsRun
      <4>3. k # 0 => g[k - 1] = f[k - 1]
        BY <3>2
      <4>. QED BY <4>1, <4>2, <4>3
    <3>. QED BY <3>1, <3>2
  <2>3. IsRun(g, S, m)
    BY <2>2 DEF IsRun
  <2>. QED BY <2>3
<1> HIDE DEF M
<1>3. n \in M
  BY <1>1, <1>2, Upto
<1>. QED
  BY <1>3 DEF M

LEMMA AscendingFacts ==
  ASSUME NEW n \in Nat, NEW S, \A k \in S : k \in 0 .. n
  PROVE  Lists(Ascending(S, n), S)
<1> DEFINE run == CHOOSE r : IsRun(r, S, n)
           Low(k) == {x \in S : x <= k}
           M == {k \in 0 .. n : Lists(run[k], Low(k))}
<1>1. IsRun(run, S, n)
  BY RunExists
<1>2. Ascending(S, n) = run[n]
  BY DEF Ascending, IsRun
<1> HIDE DEF run
<1>3. \A k \in 0 .. n : run[k] = LET below == IF k = 0 THEN <<>> ELSE run[k - 1]
                                 IN  IF k \in S THEN Append(below, k) ELSE below
  BY <1>1 DEF IsRun
<1>4. ASSUME NEW k \in 0 .. n, NEW below, Lists(below, {x \in S : x < k}),
             run[k] = IF k \in S THEN Append(below, k) ELSE below
      PROVE  k \in M
  <2>1. CASE k \in S
    <3>1. \A x \in S : x <= k <=> x < k \/ x = k
      OBVIOUS
    <3>3. Low(k) = {x \in S : x < k} \cup {k}
      BY <2>1, <3>1
    <3>2. Lists(Append(below, k), {x \in S : x < k} \cup {k})
      BY <1>4, ListsAppend
    <3>. QED BY <1>4, <2>1, <3>3, <3>2
  <2>2. CASE k \notin S
    <3>1. Low(k) = {x \in S : x < k}
      BY <2>2
    <3>. QED BY <1>4, <2>2, <3>1
  <2>. QED BY <2>1, <2>2
<1>5. 0 \in M
  <2>1. {x \in S : x < 0} = {}
    OBVIOUS
  <2>2. Lists(<<>>, {x \in S : x < 0})
    BY <2>1 DEF Lists
  <2>3. 0 \in 0 .. n /\ run[0] = IF 0 \in S THEN Append(<<>>, 0) ELSE <<>>
    <3>1. 0 \in 0 .. n
      OBVIOUS
    <3>. QED BY <1>3, <3>1, Zenon
  <2>. QED BY <1>4, <2>2, <2>3
<1>6. ASSUME NEW k \in 1 .. n, k - 1 \in M PROVE k \in M
  <2>1. Low(k - 1) = {x \in S : x < k}
    OBVIOUS
  <2>2. Lists(run[k - 1], {x \in S : x < k})
    BY <1>6, <2>1
  <2>3. run[k] = IF k \in S THEN Append(run[k - 1], k) ELSE run[k - 1]
    BY <1>3
  <2>. QED BY <1>4, <2>2, <2>3
<1>7. n \in M
  <2> HIDE DEF M
  <2>. QED BY <1>5, <1>6, Upto
<1>8. Low(n) = S
  OBVIOUS
<1>. QED
  BY <1>2, <1>7, <1>8

(***************************************************************************)
(* Where things are in a text.                                             *)
(***************************************************************************)
LEMMA LinesFacts ==
  ASSUME NEW src \in Seq(Line)
  PROVE  /\ Len(src) \in Nat /\ Lines(src) = 1 .. Len(src)
         /\ \A i \in Lines(src) : i \in Nat /\ i > 0 /\ i \in 0 .. Len(src) /\ src[i] \in Line
         /\ \A i \in Entries(src) : i \in Lines(src) /\ i \in 0 .. Len(src)
BY DEF Lines, Entries

LEMMA OwnerFacts ==
  ASSUME NEW src \in Seq(Line), NEW i \in Lines(src)
  PROVE  Owner(src, i) = 0 \/ Owner(src, i) \in Entries(src)
<1> DEFINE above == {j \in Entries(src) : j <= i}
<1>1. above # {} => Largest(above) \in above
  <2>1. \A k \in above : k \in 0 .. Len(src)
    BY LinesFacts
  <2> HIDE DEF above
  <2>. QED BY <2>1, LinesFacts, LargestFacts
<1>. QED
  BY <1>1 DEF Owner

LEMMA ItemsFacts ==
  ASSUME NEW src \in Seq(Line), NEW i
  PROVE  /\ Items(src, i) \in Seq(Lines(src)) /\ Len(Items(src, i)) \in Nat
         /\ \A n \in 1 .. Len(Items(src, i)) :
              LET j == Items(src, i)[n]
              IN  j \in Lines(src) /\ src[j].at \in {"item", "empty"} /\ j > i /\ Owner(src, j) = i
         /\ \A j \in Lines(src) :
              src[j].at \in {"item", "empty"} /\ j > i /\ Owner(src, j) = i =>
                \E n \in 1 .. Len(Items(src, i)) : Items(src, i)[n] = j
<1> DEFINE S == {j \in Lines(src) : src[j].at \in {"item", "empty"} /\ j > i /\ Owner(src, j) = i}
           s == Items(src, i)
<1>1. \A j \in S : j \in 0 .. Len(src)
  BY LinesFacts
<1>2. Lists(s, S)
  <2>1. s = Ascending(S, Len(src))
    BY DEF Items
  <2> HIDE DEF S, s
  <2>. QED BY <1>1, <2>1, LinesFacts, AscendingFacts
<1> HIDE DEF s
<1>3. s \in Seq(S)
  BY <1>2 DEF Lists
<1>4. Len(s) \in Nat /\ s \in Seq(Lines(src)) /\ \A n \in 1 .. Len(s) : s[n] \in S
  <2>1. S \subseteq Lines(src)
    OBVIOUS
  <2> HIDE DEF S
  <2>. QED BY <1>3, <2>1
<1>5. \A j \in S : \E n \in 1 .. Len(s) : s[n] = j
  BY <1>2 DEF Lists
<1>. QED
  BY <1>4, <1>5 DEF s

LEMMA LastLineFacts ==
  ASSUME NEW src \in Seq(Line), NEW i \in Lines(src)
  PROVE  LastLine(src, i) \in Lines(src) /\ i <= LastLine(src, i)
<1> DEFINE s == Items(src, i)
<1>1. CASE s = <<>>
  BY <1>1, LinesFacts DEF LastLine
<1>2. CASE s # <<>>
  <2>1. s \in Seq(Lines(src)) /\ Len(s) \in Nat /\ \A n \in 1 .. Len(s) : s[n] \in Lines(src) /\ s[n] > i
    BY ItemsFacts
  <2>2. Len(s) \in 1 .. Len(s)
    BY <1>2, <2>1
  <2>3. LastLine(src, i) = s[Len(s)]
    BY <1>2 DEF LastLine, Last
  <2> HIDE DEF s
  <2>. QED BY <2>1, <2>2, <2>3, LinesFacts
<1>. QED
  BY <1>1, <1>2

LEMMA WinnerFacts ==
  ASSUME NEW src \in Seq(Line), NEW key, HasKey(src, key)
  PROVE  /\ Winner(src, key) \in Entries(src) /\ Winner(src, key) \in Lines(src)
         /\ src[Winner(src, key)].key = key
<1> DEFINE S == {i \in Entries(src) : src[i].key = key}
<1>1. S # {} /\ \A k \in S : k \in 0 .. Len(src)
  BY LinesFacts DEF HasKey
<1>2. Winner(src, key) \in S
  <2>1. Winner(src, key) = Largest(S)
    BY DEF Winner
  <2> HIDE DEF S
  <2>. QED BY <1>1, <2>1, LinesFacts, LargestFacts
<1>. QED
  BY <1>2, LinesFacts

LEMMA AbsorbFacts ==
  ASSUME NEW src, NEW i \in Nat, i > 0
  PROVE  absorb_head_comments(src, i) \in 1 .. i
<1> DEFINE S == {s \in 1 .. i : \A j \in s .. i - 1 : src[j].at = "note"}
<1>1. i \in S /\ S \in SUBSET Nat
  OBVIOUS
<1>2. absorb_head_comments(src, i) \in S
  <2>1. absorb_head_comments(src, i) = Smallest(S)
    BY DEF absorb_head_comments
  <2> HIDE DEF S
  <2>. QED BY <1>1, <2>1, SmallestFacts
<1>. QED
  BY <1>2

LEMMA TargetFacts ==
  ASSUME NEW src \in Seq(Line), AliasesKnown(src), NEW i \in Lines(src)
  PROVE  Target(src, i) \in Lines(src)
<1>1. CASE src[i].ref = None
  BY <1>1 DEF Target
<1>2. CASE src[i].ref # None
  <2> DEFINE name == src[i].ref
             S == {j \in 1 .. i - 1 : src[j].anchor = name
                                      /\ ~(IsCollection(src, j) /\ Owner(src, i) = j)}
  <2>1. Target(src, i) # 0 /\ Target(src, i) = IF S = {} THEN 0 ELSE Largest(S)
    BY <1>2 DEF Target, Definition, AliasesKnown
  <2>2. \A k \in S : k \in 0 .. Len(src) /\ k \in Lines(src)
    BY LinesFacts
  <2> HIDE DEF S
  <2>. QED BY <2>1, <2>2, LinesFacts, LargestFacts
<1>. QED
  BY <1>1, <1>2

\* The items a path may name are among the lines of its sequence.
LEMMA CountFacts ==
  ASSUME NEW n \in Nat, NEW T, \A k \in T : k \in 1 .. n
  PROVE  Cardinality(T) \in Nat /\ Cardinality(T) <= n /\ (T # {} => Cardinality(T) >= 1)
<1>1. IsFiniteSet(1 .. n) /\ Cardinality(1 .. n) = n
  BY FS_Interval
<1>2. T \in SUBSET (1 .. n)
  OBVIOUS
<1>3. IsFiniteSet(T) /\ Cardinality(T) <= n
  BY <1>1, <1>2, FS_Subset
<1>. QED
  BY <1>3, FS_CardinalityType, FS_EmptySet

LEMMA PathFacts ==
  ASSUME NEW src \in Seq(Line), AliasesKnown(src), NEW key, NEW index \in Nat,
         HasPath(src, key, index)
  PROVE  /\ SequenceLine(src, key) \in Lines(src) /\ span_at(src, key, index) \in Lines(src)
         /\ index > 0 => index \in 1 .. Len(Items(src, SequenceLine(src, key)))
<1> DEFINE l == SequenceLine(src, key)
           s == Items(src, l)
           T == {n \in DOMAIN s : src[s[n]].at = "item"}
<1>1. HasKey(src, key) /\ Winner(src, key) \in Lines(src)
  BY WinnerFacts DEF HasPath
<1>2. l \in Lines(src)
  BY <1>1, TargetFacts DEF SequenceLine
<1>3. s \in Seq(Lines(src)) /\ Len(s) \in Nat
  BY ItemsFacts
<1>4. CASE index = 0
  BY <1>1, <1>2, <1>4 DEF span_at
<1>5. CASE index > 0
  <2>1. index <= Cardinality(T)
    BY <1>5 DEF HasPath, sequence_len_at
  <2>2. Cardinality(T) \in Nat /\ Cardinality(T) <= Len(s)
    <3>1. \A k \in T : k \in 1 .. Len(s)
      BY <1>3
    <3> HIDE DEF T, s
    <3>. QED BY <1>3, <3>1, CountFacts
  <2>3. index \in 1 .. Len(s)
    <3> HIDE DEF T, s
    <3>. QED BY <1>3, <1>5, <2>1, <2>2
  <2>4. span_at(src, key, index) = s[index]
    BY <1>5 DEF span_at
  <2>5. s[index] \in Lines(src)
    <3> HIDE DEF s
    <3>. QED BY <1>3, <2>3
  <2>. QED BY <1>2, <2>3, <2>4, <2>5
<1>. QED
  BY <1>4, <1>5

\* The key whose entry a new entry follows.
LEMMA LastKeyFacts ==
  ASSUME NEW src \in Seq(Line), Entries(src) # {}
  PROVE  HasKey(src, Last(KeyOrder(src)))
<1> DEFINE S == {i \in Entries(src) : \A j \in Entries(src) : src[j].key = src[i].key => i <= j}
           s == Ascending(S, Len(src))
           keys == [n \in DOMAIN s |-> src[s[n]].key]
<1>1. /\ Len(src) \in Nat
      /\ \A i \in Entries(src) : i \in Nat /\ i \in 0 .. Len(src)
  BY LinesFacts
<1>2. PICK m \in S : TRUE
  <2>1. Entries(src) \in SUBSET Nat
    BY <1>1
  <2>2. PICK i \in Entries(src) : \A j \in Entries(src) : i <= j
    BY <2>1, Least
  <2>. QED BY <2>2
<1>3. Lists(s, S)
  <2>1. \A k \in S : k \in 0 .. Len(src)
    BY <1>1
  <2> HIDE DEF S
  <2>. QED BY <1>1, <2>1, AscendingFacts
<1>4. KeyOrder(src) = keys
  BY DEF KeyOrder
<1>5. S \subseteq Entries(src)
  OBVIOUS
<1> HIDE DEF S, s
<1>6. s \in Seq(S) /\ Len(s) \in Nat /\ Len(s) \in 1 .. Len(s)
  BY <1>2, <1>3 DEF Lists
<1>7. Last(keys) = src[s[Len(s)]].key /\ s[Len(s)] \in Entries(src)
  <2>1. Len(keys) = Len(s) /\ DOMAIN s = 1 .. Len(s)
    BY <1>6
  <2>. QED BY <1>5, <1>6, <2>1 DEF Last
<1>. QED
  BY <1>4, <1>7 DEF HasKey

(***************************************************************************)
(* Splices.                                                                *)
(***************************************************************************)
\* t is a then b, and t is what is between two cuts of s.
IsConcat(t, S, a, b) ==
  /\ t \in Seq(S) /\ Len(t) = Len(a) + Len(b)
  /\ \A i \in 1 .. Len(a) : t[i] = a[i]
  /\ \A i \in 1 .. Len(b) : t[Len(a) + i] = b[i]
IsCut(t, S, s, from, to) ==
  /\ t \in Seq(S) /\ Len(t) = to - from
  /\ \A i \in 1 .. to - from : t[i] = s[from + i]

LEMMA ConcatFacts ==
  ASSUME NEW S, NEW a \in Seq(S), NEW b \in Seq(S)
  PROVE  IsConcat(a \o b, S, a, b)
<1>1. Len(a) \in Nat /\ Len(b) \in Nat
  OBVIOUS
<1>2. /\ a \o b \in Seq(S) /\ Len(a \o b) = Len(a) + Len(b)
      /\ \A i \in 1 .. Len(a) + Len(b) :
           (a \o b)[i] = IF i <= Len(a) THEN a[i] ELSE b[i - Len(a)]
  BY ConcatProperties
<1>3. ASSUME NEW i \in 1 .. Len(a) PROVE (a \o b)[i] = a[i]
  <2>1. i \in 1 .. Len(a) + Len(b) /\ i <= Len(a)
    BY <1>1
  <2>. QED BY <1>2, <2>1
<1>4. ASSUME NEW i \in 1 .. Len(b) PROVE (a \o b)[Len(a) + i] = b[i]
  <2>1. Len(a) + i \in 1 .. Len(a) + Len(b) /\ ~(Len(a) + i <= Len(a)) /\ (Len(a) + i) - Len(a) = i
    BY <1>1
  <2>. QED BY <1>2, <2>1
<1>. QED
  BY <1>2, <1>3, <1>4 DEF IsConcat

LEMMA SubSeqFacts ==
  ASSUME NEW S, NEW s \in Seq(S), NEW from \in Nat, NEW to \in Nat, from <= to, to <= Len(s)
  PROVE  IsCut(SubSeq(s, from + 1, to), S, s, from, to)
<1>1. Len(s) \in Nat /\ \A i \in 1 .. Len(s) : s[i] \in S
  OBVIOUS
<1> DEFINE t == [i \in 1 .. to - from |-> s[from + i]]
<1>2. SubSeq(s, from + 1, to) = t
  <2>1. \A i \in 1 .. to - from : (from + 1) + i - 1 = from + i
    OBVIOUS
  <2>. QED BY <1>1, <2>1
<1>3. \A i \in 1 .. to - from : s[from + i] \in S
  BY <1>1
<1>. QED
  BY <1>2, <1>3 DEF IsCut

\* t is s with `with` in place of what is between two cuts.
IsSplice(t, S, s, from, to, with) ==
  /\ t \in Seq(S) /\ Len(t) \in Nat /\ Len(t) = from + Len(with) + (Len(s) - to)
  /\ \A i \in 1 .. from : t[i] = s[i]
  /\ \A i \in 1 .. Len(with) : t[from + i] = with[i]
  /\ \A i \in 1 .. Len(s) - to : t[from + Len(with) + i] = s[to + i]

LEMMA SpliceFacts ==
  ASSUME NEW S, NEW s \in Seq(S), NEW with \in Seq(S),
         NEW from \in Nat, NEW to \in Nat, from <= to, to <= Len(s)
  PROVE  IsSplice(Splice(s, from, to, with), S, s, from, to, with)
<1> DEFINE a == SubSeq(s, 0 + 1, from)
           b == SubSeq(s, to + 1, Len(s))
           c == a \o with
           t == Splice(s, from, to, with)
<1>1. Len(s) \in Nat /\ Len(with) \in Nat
  OBVIOUS
<1>2. a \in Seq(S) /\ Len(a) = from /\ \A i \in 1 .. from : a[i] = s[i]
  <2>1. from - 0 = from /\ \A i \in 1 .. from : 0 + i = i
    OBVIOUS
  <2>2. /\ a \in Seq(S) /\ Len(a) = from - 0
        /\ \A i \in 1 .. from - 0 : a[i] = s[0 + i]
    <3>1. 0 \in Nat /\ 0 <= from /\ from <= Len(s)
      BY <1>1
    <3>2. IsCut(a, S, s, 0, from)
      BY <3>1, SubSeqFacts
    <3>. QED BY <3>2 DEF IsCut
  <2> HIDE DEF a
  <2>. QED BY <2>1, <2>2
<1>3. b \in Seq(S) /\ Len(b) = Len(s) - to /\ \A i \in 1 .. Len(s) - to : b[i] = s[to + i]
  <2>1. IsCut(b, S, s, to, Len(s))
    BY <1>1, SubSeqFacts
  <2>. QED BY <2>1 DEF IsCut
<1>4. t = c \o b
  <2>1. 0 + 1 = 1
    OBVIOUS
  <2>. QED BY <2>1 DEF Splice
<1> HIDE DEF a, b, t
<1>5. /\ c \in Seq(S) /\ Len(c) = from + Len(with)
      /\ \A i \in 1 .. from : c[i] = s[i]
      /\ \A i \in 1 .. Len(with) : c[from + i] = with[i]
  <2>1. IsConcat(c, S, a, with)
    BY <1>2, ConcatFacts
  <2>. QED BY <1>2, <2>1 DEF IsConcat
<1> HIDE DEF c
<1>7. /\ t \in Seq(S) /\ Len(t) = Len(c) + Len(b)
      /\ \A i \in 1 .. Len(c) : t[i] = c[i]
      /\ \A i \in 1 .. Len(b) : t[Len(c) + i] = b[i]
  <2>1. IsConcat(t, S, c, b)
    BY <1>3, <1>4, <1>5, ConcatFacts
  <2>. QED BY <2>1 DEF IsConcat
<1>8. \A i \in 1 .. from : t[i] = s[i]
  <2>1. \A i \in 1 .. from : i \in 1 .. Len(c)
    BY <1>1, <1>5
  <2>. QED BY <1>5, <1>7, <2>1
<1>9. \A i \in 1 .. Len(with) : t[from + i] = with[i]
  <2>1. \A i \in 1 .. Len(with) : from + i \in 1 .. Len(c)
    BY <1>1, <1>5
  <2>. QED BY <1>5, <1>7, <2>1
<1>. QED
  BY <1>1, <1>3, <1>5, <1>7, <1>8, <1>9 DEF t, IsSplice

(***************************************************************************)
(* Committing text.                                                        *)
(***************************************************************************)
\* The text parses, and the cached value is its value.
IsOpen(d) ==
  /\ d.source \in Seq(Line) /\ parse_full(d.source)
  /\ d.cache = Value(d.source)

\* A call on d that returned r left a document that agrees, d itself when it failed.
Sound(d, r) == IsOpen(r.doc) /\ (r.ok \/ r.doc = d)

LEMMA OpenFacts ==
  ASSUME NEW d, IsOpen(d)
  PROVE  d.source \in Seq(Line) /\ AliasesKnown(d.source) /\ WellFormed(d.source)
BY DEF IsOpen, parse_full, parse_exactly_one

LEMMA ErrSound ==
  ASSUME NEW d, IsOpen(d)
  PROVE  Sound(d, Err(d)) /\ Sound(d, Ok(d))
<1>1. Err(d).doc = d /\ Ok(d).doc = d
  BY DEF Err, Ok
<1>. QED BY <1>1 DEF Sound, Ok

LEMMA CommitSound ==
  ASSUME NEW d, IsOpen(d), NEW src \in Seq(Line)
  PROVE  Sound(d, commit_source(d, src))
<1>1. CASE ~parse_full(src)
  BY <1>1, ErrSound DEF commit_source
<1>2. CASE parse_full(src)
  <2> DEFINE e == parse_document(src)
  <2>1. commit_source(d, src) = Ok(e)
    BY <1>2 DEF commit_source
  <2>2. e.source = src /\ e.cache = Value(src)
    BY DEF parse_document
  <2> HIDE DEF e
  <2>3. IsOpen(e)
    BY <1>2, <2>2 DEF IsOpen
  <2>4. Ok(e).doc = e /\ Ok(e).ok = TRUE
    BY DEF Ok
  <2>. QED BY <2>1, <2>3, <2>4 DEF Sound
<1>. QED
  BY <1>1, <1>2

\* What a commit leaves: the old text or the new one.
LEMMA CommitText ==
  ASSUME NEW d, NEW src
  PROVE  /\ commit_source(d, src) = Err(d) \/ commit_source(d, src).doc.source = src
         /\ commit_source(d, src).doc.source \in {d.source, src}
BY DEF commit_source, Err, Ok, parse_document

LEMMA ReplaceSound ==
  ASSUME NEW d, IsOpen(d), NEW with \in Seq(Line), NEW from \in Nat, NEW to \in Nat
  PROVE  Sound(d, replace_span(d, from, to, with))
<1> DEFINE src == Splice(d.source, from, to, with)
<1>1. d.source \in Seq(Line) /\ Len(d.source) \in Nat
  BY DEF IsOpen
<1>2. CASE from > to \/ to > Len(d.source)
  BY <1>2, ErrSound DEF replace_span
<1>3. CASE ~(from > to \/ to > Len(d.source))
  <2>1. replace_span(d, from, to, with) = commit_source(d, src)
    BY <1>3 DEF replace_span
  <2>2. from <= to /\ to <= Len(d.source) /\ IsSplice(src, Line, d.source, from, to, with)
    BY <1>1, <1>3, SpliceFacts
  <2> HIDE DEF src
  <2>3. src \in Seq(Line)
    BY <2>2 DEF IsSplice
  <2>. QED BY <2>1, <2>3, CommitSound
<1>. QED
  BY <1>2, <1>3

LEMMA GuardedSound ==
  ASSUME NEW d, IsOpen(d), NEW r, IsOpen(r.doc), NEW expected
  PROVE  Sound(d, Guarded(d, r, expected))
<1>1. Guarded(d, r, expected) = Err(d) \/ (r.ok /\ Guarded(d, r, expected) = r)
  BY DEF Guarded
<1>. QED
  BY <1>1, ErrSound DEF Sound

LEMMA LineSound ==
  ASSUME NEW d, IsOpen(d), NEW i \in Lines(d.source), NEW with \in Seq(Line)
  PROVE  Sound(d, ReplaceLine(d, i, with)) /\ Sound(d, ReplaceNode(d, i, with))
<1>1. d.source \in Seq(Line)
  BY OpenFacts
<1>2. i \in Nat /\ i - 1 \in Nat /\ LastLine(d.source, i) \in Nat
  BY <1>1, LinesFacts, LastLineFacts
<1>. QED
  BY <1>2, ReplaceSound DEF ReplaceLine, ReplaceNode

(***************************************************************************)
(* Lines a call writes.                                                    *)
(***************************************************************************)
Fragment == {frag \in [anchor : Names \cup {None}, ref : Names \cup {None},
                       val : Scalars \cup {Null}, more : Seq(Line)] :
               frag.ref # None => frag.val = Null}

LEMMA PutLine ==
  ASSUME NEW line \in Line, NEW frag, frag.anchor \in Names \cup {None},
         frag.ref \in Names \cup {None}, frag.val \in Scalars \cup {Null},
         frag.ref # None => frag.val = Null
  PROVE  Put(line, frag) \in Line
BY DEF Put, Line

LEMMA NewLines ==
  ASSUME NEW key \in Keys, NEW v \in Scalars \cup {Null}
  PROVE  /\ Entry(key, None, None, v) \in Line /\ Item(None, None, v) \in Line
         /\ Note \in Line /\ Empty \in Line /\ Bad \in Line
BY DEF Entry, Item, Note, Empty, Bad, Mark, Line

LEMMA MarkLines == Note \in Line /\ Empty \in Line /\ Bad \in Line
BY DEF Note, Empty, Bad, Mark, Line

LEMMA PlainFragment ==
  ASSUME NEW v \in Scalars
  PROVE  Plain(v) \in Fragment
<1>1. <<>> \in Seq(Line)
  OBVIOUS
<1>. QED BY <1>1 DEF Plain, Fragment

LEMMA FragmentFacts ==
  ASSUME NEW f \in Fragment
  PROVE  /\ f.anchor \in Names \cup {None} /\ f.ref \in Names \cup {None}
         /\ f.val \in Scalars \cup {Null} /\ f.more \in Seq(Line)
         /\ (f.ref # None => f.val = Null)
BY DEF Fragment

LEMMA FragmentPut ==
  ASSUME NEW line \in Line, NEW f \in Fragment
  PROVE  Put(line, f) \in Line /\ <<Put(line, f)>> \in Seq(Line) /\ <<Put(line, f)>> \o f.more \in Seq(Line)
<1>1. Put(line, f) \in Line /\ f.more \in Seq(Line)
  BY FragmentFacts, PutLine
<1>2. <<Put(line, f)>> \in Seq(Line)
  BY <1>1
<1>. QED
  BY <1>1, <1>2, ConcatFacts DEF IsConcat

(***************************************************************************)
(* Writing at a path.                                                      *)
(***************************************************************************)
LEMMA WriteSpan ==
  ASSUME NEW d, IsOpen(d), NEW key, NEW index \in Nat, HasPath(d.source, key, index)
  PROVE  /\ d.source \in Seq(Line)
         /\ span_at(d.source, key, index) \in Lines(d.source)
         /\ d.source[span_at(d.source, key, index)] \in Line
<1>1. d.source \in Seq(Line) /\ AliasesKnown(d.source)
  BY OpenFacts
<1>2. span_at(d.source, key, index) \in Lines(d.source)
  BY <1>1, PathFacts
<1>. QED
  BY <1>1, <1>2, LinesFacts

LEMMA SetSound ==
  ASSUME NEW d, IsOpen(d), NEW key, NEW index \in Nat, NEW f \in Fragment
  PROVE  Sound(d, set(d, key, index, f))
<1> DEFINE i == span_at(d.source, key, index)
           text == NodeText(d.source, i, f)
           r == ReplaceNode(d, i, text)
<1>1. CASE ~write_span(d.source, key, index)
  BY <1>1, ErrSound DEF set
<1>2. CASE write_span(d.source, key, index)
  <2>1. i \in Lines(d.source) /\ d.source[i] \in Line
    BY <1>2, WriteSpan DEF write_span
  <2>2. text \in Seq(Line)
    <3>1. <<d.source[i], Bad>> \in Seq(Line)
      <4> HIDE DEF i
      <4>. QED BY <2>1, MarkLines
    <3>2. <<Put(d.source[i], f)>> \o f.more \in Seq(Line)
      BY <2>1, FragmentPut
    <3>. QED BY <3>1, <3>2 DEF NodeText
  <2>3. Sound(d, r)
    BY <2>1, <2>2, LineSound
  <2>4. set(d, key, index, f) = ShapeKept(d, r, key, index)
    BY <1>2 DEF set
  <2> HIDE DEF r
  <2>5. ShapeKept(d, r, key, index) = Err(d) \/ ShapeKept(d, r, key, index) = r
    BY DEF ShapeKept
  <2>. QED BY <2>3, <2>4, <2>5, ErrSound
<1>. QED
  BY <1>1, <1>2

LEMMA SetValueSound ==
  ASSUME NEW d, IsOpen(d), NEW key, NEW index \in Nat, NEW v \in Scalars
  PROVE  Sound(d, set_value(d, key, index, v))
<1> DEFINE i == span_at(d.source, key, index)
           r == ReplaceNode(d, i, <<Put(d.source[i], Plain(v))>>)
<1>1. CASE ~write_span(d.source, key, index)
  BY <1>1, ErrSound DEF set_value
<1>2. CASE write_span(d.source, key, index)
  <2>1. i \in Lines(d.source) /\ d.source[i] \in Line
    BY <1>2, WriteSpan DEF write_span
  <2>2. <<Put(d.source[i], Plain(v))>> \in Seq(Line)
    BY <2>1, FragmentPut, PlainFragment
  <2>3. Sound(d, r)
    BY <2>1, <2>2, LineSound
  <2>4. set_value(d, key, index, v) \in {Err(d), Ok(d), r}
    BY <1>2 DEF set_value
  <2>. QED BY <2>3, <2>4, ErrSound
<1>. QED
  BY <1>1, <1>2

LEMMA SetSequenceSound ==
  ASSUME NEW d, IsOpen(d), NEW key, NEW values \in Seq(Scalars)
  PROVE  Sound(d, replace_collection_value(d, key, values))
<1> DEFINE src == d.source
           i == Winner(src, key)
           items == Items(src, i)
           expected == [d.cache EXCEPT ![key] = Stream([n \in DOMAIN values |-> <<values[n]>>])]
           lines == [n \in DOMAIN values |-> Item(None, None, values[n])]
           r == replace_span(d, items[1] - 1, Last(items), lines)
<1>1. replace_collection_value(d, key, values) \in {Err(d), Ok(d)}
      \/ (items # <<>> /\ replace_collection_value(d, key, values) = Guarded(d, r, expected))
  BY DEF replace_collection_value
<1>2. src \in Seq(Line)
  BY OpenFacts
<1>3. lines \in Seq(Line)
  <2>1. ASSUME NEW n \in DOMAIN values PROVE Item(None, None, values[n]) \in Line
    <3>1. values[n] \in Scalars
      OBVIOUS
    <3>. QED BY <3>1 DEF Item, Line
  <2>2. DOMAIN values = 1 .. Len(values) /\ Len(values) \in Nat
    OBVIOUS
  <2>. QED BY <2>1, <2>2
<1>4. ASSUME items # <<>> PROVE Sound(d, Guarded(d, r, expected))
  <2>1. /\ items \in Seq(Lines(src)) /\ Len(items) \in Nat
        /\ \A n \in 1 .. Len(items) : items[n] \in Lines(src)
    BY <1>2, ItemsFacts
  <2>2. Len(items) \in 1 .. Len(items) /\ 1 \in 1 .. Len(items)
    <3> HIDE DEF items
    <3>. QED BY <1>4, <2>1
  <2>3. items[1] - 1 \in Nat /\ Last(items) \in Nat
    <3> HIDE DEF items
    <3>. QED BY <1>2, <2>1, <2>2, LinesFacts DEF Last
  <2>4. Sound(d, r)
    <3> HIDE DEF items, lines
    <3>. QED BY <1>3, <2>3, ReplaceSound
  <2> HIDE DEF r, expected
  <2>. QED BY <2>4, GuardedSound DEF Sound
<1> HIDE DEF r, expected, items
<1>. QED
  BY <1>1, <1>4, ErrSound

(***************************************************************************)
(* Entries.                                                                *)
(***************************************************************************)
LEMMA NewEntrySound ==
  ASSUME NEW d, IsOpen(d), Entries(d.source) # {}, NEW line \in Line
  PROVE  Sound(d, splice_new_entry(d, line))
<1> DEFINE src == d.source
           at == mapping_insert_anchor(src)
           end == LastLine(src, at)
           with == <<IF src[at].at = "entry" THEN line ELSE Bad>>
<1>1. src \in Seq(Line) /\ AliasesKnown(src)
  BY OpenFacts
<1>2. Winner(src, Last(KeyOrder(src))) \in Lines(src)
  BY <1>1, LastKeyFacts, WinnerFacts
<1>3. at \in Lines(src)
  BY <1>1, <1>2, TargetFacts DEF mapping_insert_anchor
<1>4. end \in Nat
  BY <1>1, <1>3, LastLineFacts, LinesFacts
<1>5. with \in Seq(Line)
  BY MarkLines
<1>6. splice_new_entry(d, line) = replace_span(d, end, end, with)
  BY DEF splice_new_entry
<1> HIDE DEF end, with
<1>. QED
  BY <1>4, <1>5, <1>6, ReplaceSound

LEMMA GrowthSound ==
  ASSUME NEW d, IsOpen(d), NEW r, Sound(d, r), NEW growth, NEW key
  PROVE  Sound(d, guarded_insert(d, r, growth, key))
<1>1. guarded_insert(d, r, growth, key) \in {r, Err(d)}
  BY DEF guarded_insert
<1>. QED
  BY <1>1, ErrSound

LEMMA InsertEntrySound ==
  ASSUME NEW d, IsOpen(d), NEW key \in Keys, NEW f \in Fragment
  PROVE  Sound(d, insert_entry(d, key, f))
<1> DEFINE line == IF f.more = <<>> THEN Put(Entry(key, None, None, Null), f) ELSE Bad
           r == splice_new_entry(d, line)
<1>1. line \in Line
  <2>1. Entry(key, None, None, Null) \in Line
    BY NewLines
  <2>. QED BY <2>1, FragmentPut, MarkLines
<1>2. \/ insert_entry(d, key, f) = set(d, key, 0, f)
      \/ insert_entry(d, key, f) = Err(d)
      \/ /\ Entries(d.source) # {}
         /\ insert_entry(d, key, f) = guarded_insert(d, r, "MapEntry", key)
  BY DEF insert_entry
<1>3. Sound(d, set(d, key, 0, f))
  BY SetSound
<1>4. Entries(d.source) # {} => Sound(d, guarded_insert(d, r, "MapEntry", key))
  <2> HIDE DEF line
  <2>. QED BY <1>1, NewEntrySound, GrowthSound
<1> HIDE DEF r
<1>. QED
  BY <1>2, <1>3, <1>4, ErrSound

LEMMA InsertEntryValueSound ==
  ASSUME NEW d, IsOpen(d), NEW key \in Keys, NEW v \in Scalars
  PROVE  Sound(d, insert_entry_value(d, key, v))
<1> DEFINE src == d.source
           new == splice_new_entry(d, Entry(key, None, None, v))
           old == set(d, key, 0, Plain(v))
           r == IF existing_entry_span(src, key) THEN old ELSE new
           expected == expected_after_insert_entry(d.cache, key, v)
<1>1. \/ insert_entry_value(d, key, v) = Err(d)
      \/ Entries(src) # {} /\ insert_entry_value(d, key, v) = Guarded(d, r, expected)
  BY DEF insert_entry_value, finish_entry_insert
<1>2. Sound(d, old)
  BY SetSound, PlainFragment
<1>3. Entries(src) # {} => Sound(d, new)
  BY NewLines, NewEntrySound
<1> HIDE DEF new, old, expected
<1>4. Entries(src) # {} => Sound(d, r)
  BY <1>2, <1>3
<1> HIDE DEF r
<1>5. Entries(src) # {} => Sound(d, Guarded(d, r, expected))
  <2>1. Entries(src) # {} => IsOpen(r.doc)
    BY <1>4 DEF Sound
  <2>. QED BY <2>1, GuardedSound
<1>6. Sound(d, Err(d))
  BY ErrSound
<1>. QED
  BY ONLY <1>1, <1>5, <1>6

LEMMA FirstEntrySound ==
  ASSUME NEW d, IsOpen(d), NEW key \in Keys, NEW v \in Scalars
  PROVE  Sound(d, append_first_entry(d, key, v))
<1> DEFINE with == <<Entry(key, None, None, v)>>
           r == replace_span(d, Len(d.source), Len(d.source), with)
           expected == [k \in {key} |-> <<v>>]
<1>1. Len(d.source) \in Nat
  BY OpenFacts
<1>2. with \in Seq(Line)
  BY NewLines
<1>3. append_first_entry(d, key, v) = Guarded(d, r, expected)
  BY DEF append_first_entry
<1> HIDE DEF with, expected
<1>4. Sound(d, r)
  BY <1>1, <1>2, ReplaceSound
<1> HIDE DEF r
<1>. QED
  BY <1>3, <1>4, GuardedSound DEF Sound

LEMMA SetPathSound ==
  ASSUME NEW d, IsOpen(d), NEW key \in Keys, NEW v \in Scalars
  PROVE  Sound(d, set_path(d, key, v))
<1>1. set_path(d, key, v) \in {set_value(d, key, 0, v), append_first_entry(d, key, v),
                               insert_entry_value(d, key, v)}
  BY DEF set_path
<1>. QED
  BY <1>1, SetValueSound, FirstEntrySound, InsertEntryValueSound

LEMMA RenameKeySound ==
  ASSUME NEW d, IsOpen(d), NEW key \in Keys, NEW new \in Keys
  PROVE  Sound(d, rename_key(d, key, new))
<1> DEFINE src == d.source
           i == entry_key_site(src, key, new)
           with == <<[src[i] EXCEPT !.key = new]>>
           r == ReplaceLine(d, i, with)
           expected == expected_after_rename(d.cache, key, new)
<1>1. \/ rename_key(d, key, new) \in {Err(d), Ok(d)}
      \/ i # 0 /\ rename_key(d, key, new) = Guarded(d, r, expected)
  BY DEF rename_key
<1>2. i # 0 => Sound(d, r)
  <2> SUFFICES ASSUME i # 0 PROVE Sound(d, r)
    OBVIOUS
  <2>1. src \in Seq(Line) /\ HasKey(src, key) /\ i = Winner(src, key)
    BY OpenFacts DEF entry_key_site
  <2>2. i \in Lines(src) /\ src[i] \in Line
    BY <2>1, WinnerFacts, LinesFacts
  <2>3. with \in Seq(Line)
    <3> HIDE DEF i
    <3>. QED BY <2>2 DEF Line
  <2> HIDE DEF i, with
  <2>. QED BY <2>2, <2>3, LineSound
<1> HIDE DEF r, expected
<1>. QED
  BY <1>1, <1>2, GuardedSound, ErrSound, ZenonT(60) DEF Sound

(***************************************************************************)
(* remove.                                                                 *)
(***************************************************************************)
LEMMA RemovalFacts ==
  ASSUME NEW d, IsOpen(d), NEW key, NEW index \in Nat, write_span(d.source, key, index)
  PROVE  LET r == Removal(d.source, key, index)
         IN  r.from \in Nat /\ r.to \in Nat /\ r.with \in Seq(Line)
<1> DEFINE src == d.source
           w == Winner(src, key)
           items == Items(src, w)
           all == IF index = 0 THEN Entries(src) ELSE ToSet(items)
           sole == IF index = 0 THEN Len(KeyOrder(src)) = 1 ELSE Len(items) = 1
           i == IF index = 0 THEN w ELSE items[index]
           head == IF sole THEN Smallest(all) ELSE i
           first == owned_entry_range(src, head)
           r == Removal(src, key, index)
<1>1. src \in Seq(Line) /\ AliasesKnown(src) /\ HasPath(src, key, index) /\ HasKey(src, key)
  BY OpenFacts DEF write_span, HasPath
<1>2. w \in Lines(src) /\ w \in Entries(src)
  BY <1>1, WinnerFacts
<1>3. /\ items \in Seq(Lines(src)) /\ Len(items) \in Nat
      /\ \A n \in 1 .. Len(items) : items[n] \in Lines(src)
  BY <1>1, ItemsFacts
<1>4. index > 0 => index \in 1 .. Len(items)
  <2>1. index > 0 => SequenceLine(src, key) = w
    BY DEF write_span, Through, SequenceLine, Target
  <2>. QED BY <1>1, <2>1, PathFacts
<1>5. i \in Lines(src)
  <2> HIDE DEF items, w
  <2>. QED BY <1>2, <1>3, <1>4
<1>6. i \in all /\ \A x \in all : x \in Lines(src)
  <2>1. CASE index = 0
    BY <1>1, <1>2, <2>1, LinesFacts
  <2>2. CASE index > 0
    <3> HIDE DEF items, w
    <3>. QED BY <1>3, <1>4, <2>2 DEF ToSet
  <2>. QED BY <2>1, <2>2
<1>7. Smallest(all) \in Lines(src) /\ Largest(all) \in Lines(src)
  <2>1. all \in SUBSET Nat /\ (\A x \in all : x \in 0 .. Len(src)) /\ all # {} /\ Len(src) \in Nat
    <3> HIDE DEF all, i
    <3>. QED BY <1>1, <1>6, LinesFacts
  <2> HIDE DEF all
  <2>2. Smallest(all) \in all
    BY <2>1, SmallestFacts
  <2>3. Largest(all) \in all
    BY <2>1, LargestFacts
  <2>. QED BY <1>6, <2>2, <2>3
<1>8. head \in Lines(src)
  <2> HIDE DEF all, i, sole
  <2>. QED BY <1>5, <1>7
<1>9. first.from \in Nat /\ first.to \in Nat
  <2> HIDE DEF head
  <2>1. head \in Nat /\ head > 0 /\ LastLine(src, head) \in Nat
    BY <1>1, <1>8, LastLineFacts, LinesFacts
  <2>2. absorb_head_comments(src, head) \in 1 .. head
    BY <2>1, AbsorbFacts
  <2>. QED BY <2>1, <2>2 DEF owned_entry_range
<1>10. i \in Nat /\ LastLine(src, Largest(all)) \in Nat
  <2> HIDE DEF all, i
  <2>. QED BY <1>1, <1>5, <1>7, LastLineFacts, LinesFacts
<1>11. r = [from |-> first.from, with |-> IF sole THEN <<Empty>> ELSE <<>>,
            to |-> IF sole THEN LastLine(src, Largest(all)) ELSE IF index = 0 THEN first.to ELSE i]
  BY DEF Removal
<1>12. <<Empty>> \in Seq(Line) /\ <<>> \in Seq(Line)
  BY MarkLines
<1> HIDE DEF first, all, i, sole, r
<1>. QED
  BY <1>9, <1>10, <1>11, <1>12 DEF r

LEMMA RemoveSound ==
  ASSUME NEW d, IsOpen(d), NEW key, NEW index \in Nat
  PROVE  Sound(d, remove(d, key, index))
<1> DEFINE r == Removal(d.source, key, index)
           expected == expected_after_remove(d.source, d.cache, key, index)
           s == replace_span(d, r.from, r.to, r.with)
<1>1. CASE ~write_span(d.source, key, index)
  BY <1>1, ErrSound DEF remove
<1>2. CASE write_span(d.source, key, index)
  <2>1. Sound(d, s)
    <3>1. r.from \in Nat /\ r.to \in Nat /\ r.with \in Seq(Line)
      BY <1>2, RemovalFacts
    <3> HIDE DEF r
    <3>. QED BY <3>1, ReplaceSound
  <2>2. remove(d, key, index) = RemoveSpan(d, r, expected, index # 0)
    BY <1>2 DEF remove
  <2>3. RemoveSpan(d, r, expected, index # 0) \in {Err(d), Guarded(d, s, expected), s}
    <3> HIDE DEF r, expected
    <3>. QED BY DEF RemoveSpan
  <2> HIDE DEF s, expected, r
  <2>4. Sound(d, Guarded(d, s, expected))
    BY <2>1, GuardedSound DEF Sound
  <2>. QED BY <2>1, <2>2, <2>3, <2>4, ErrSound
<1>. QED
  BY <1>1, <1>2

(***************************************************************************)
(* Sequences.                                                              *)
(***************************************************************************)
LEMMA InsertAfterSound ==
  ASSUME NEW d, IsOpen(d), NEW key, NEW index \in Nat, NEW f \in Fragment
  PROVE  Sound(d, insert_after(d, key, index, f))
<1> DEFINE i == span_at(d.source, key, index)
           with == <<Put(Item(None, None, Null), f)>> \o f.more
           r == ItemSplice(d, key, index, f)
<1>1. \/ insert_after(d, key, index, f) = Err(d)
      \/ /\ HasPath(d.source, key, index)
         /\ insert_after(d, key, index, f) = guarded_insert(d, r, "SeqPlusOne", key)
  BY DEF insert_after
<1>2. ASSUME HasPath(d.source, key, index) PROVE Sound(d, r)
  <2>1. i \in Nat
    BY <1>2, WriteSpan, LinesFacts
  <2>2. with \in Seq(Line)
    <3>1. Item(None, None, Null) \in Line
      BY DEF Item, Line
    <3>. QED BY <3>1, FragmentPut
  <2>3. r \in {Err(d), replace_span(d, i, i, with)}
    BY DEF ItemSplice
  <2> HIDE DEF i, with, r
  <2>. QED BY <2>1, <2>2, <2>3, ReplaceSound, ErrSound
<1> HIDE DEF r
<1>. QED
  BY <1>1, <1>2, GrowthSound, ErrSound

\* The length of a sequence is a number.
LEMMA LengthFacts ==
  ASSUME NEW src \in Seq(Line), NEW key
  PROVE  sequence_len_at(src, key) \in Nat
<1> DEFINE s == Items(src, SequenceLine(src, key))
           T == {n \in DOMAIN s : src[s[n]].at = "item"}
<1>1. Len(s) \in Nat /\ DOMAIN s = 1 .. Len(s)
  BY ItemsFacts
<1>2. \A k \in T : k \in 1 .. Len(s)
  <2> HIDE DEF s
  <2>. QED BY <1>1
<1>3. sequence_len_at(src, key) = Cardinality(T)
  BY DEF sequence_len_at
<1> HIDE DEF s, T
<1>. QED
  BY <1>1, <1>2, <1>3, CountFacts

LEMMA PushBackSound ==
  ASSUME NEW d, IsOpen(d), NEW key, NEW f \in Fragment
  PROVE  Sound(d, push_back(d, key, f))
<1>1. sequence_len_at(d.source, key) \in Nat
  BY OpenFacts, LengthFacts
<1>2. push_back(d, key, f) \in {Err(d), insert_after(d, key, sequence_len_at(d.source, key), f)}
  BY DEF push_back
<1>. QED
  BY <1>1, <1>2, InsertAfterSound, ErrSound

LEMMA InsertAfterValueSound ==
  ASSUME NEW d, IsOpen(d), NEW key, NEW index \in Nat, NEW v \in Scalars
  PROVE  Sound(d, insert_after_value(d, key, index, v))
<1> DEFINE r == insert_after(d, key, index, Plain(v))
           expected == expected_after_insert_item(d.source, d.cache, key, index + 1, v)
<1>1. insert_after_value(d, key, index, v) \in {Err(d), Guarded(d, r, expected)}
  BY DEF insert_after_value, guarded_item_splice
<1>2. Sound(d, r)
  BY PlainFragment, InsertAfterSound
<1> HIDE DEF r, expected
<1>3. Sound(d, Guarded(d, r, expected))
  BY <1>2, GuardedSound DEF Sound
<1>. QED
  BY <1>1, <1>3, ErrSound

LEMMA PushBackValueSound ==
  ASSUME NEW d, IsOpen(d), NEW key, NEW v \in Scalars
  PROVE  Sound(d, push_back_value(d, key, v))
<1>1. sequence_len_at(d.source, key) \in Nat
  BY OpenFacts, LengthFacts
<1>2. push_back_value(d, key, v) \in {Err(d), insert_after_value(d, key, sequence_len_at(d.source, key), v)}
  BY DEF push_back_value
<1>. QED
  BY <1>1, <1>2, InsertAfterValueSound, ErrSound

\* What a swap puts in place of an item, and the cut above the item.
LEMMA BlockFacts ==
  ASSUME NEW src \in Seq(Line), NEW n \in Lines(src), NEW m \in Lines(src)
  PROVE  /\ <<Put(src[n], src[m])>> \in Seq(Line) /\ ItemBlock(src, n) \in Seq(Line)
         /\ n \in Nat /\ n - 1 \in Nat /\ absorb_head_comments(src, n) - 1 \in Nat
<1>1. /\ n \in Nat /\ n > 0 /\ n <= Len(src) /\ Len(src) \in Nat
      /\ src[n] \in Line /\ src[m] \in Line
  BY LinesFacts
<1>2. Put(src[n], src[m]) \in Line
  <2>1. /\ src[m].anchor \in Names \cup {None} /\ src[m].ref \in Names \cup {None}
        /\ src[m].val \in Scalars \cup {Null} /\ (src[m].ref # None => src[m].val = Null)
    BY <1>1 DEF Line
  <2>. QED BY <1>1, <2>1, PutLine
<1> DEFINE a == absorb_head_comments(src, n)
<1>3. a \in 1 .. n
  BY <1>1, AbsorbFacts
<1> HIDE DEF a
<1>4. IsCut(SubSeq(src, (a - 1) + 1, n), Line, src, a - 1, n)
  BY <1>1, <1>3, SubSeqFacts
<1>5. (a - 1) + 1 = a /\ a - 1 \in Nat
  BY <1>3
<1>6. SubSeq(src, a, n) \in Seq(Line)
  BY <1>4, <1>5 DEF IsCut
<1>. QED
  BY <1>1, <1>2, <1>5, <1>6 DEF a, ItemBlock

LEMMA SwapSound ==
  ASSUME NEW d, IsOpen(d), NEW key, NEW i \in Nat, NEW j \in Nat
  PROVE  Sound(d, swap_items(d, key, i, j))
<1> DEFINE src == d.source
           lo == span_at(src, key, IF i < j THEN i ELSE j)
           hi == span_at(src, key, IF i < j THEN j ELSE i)
           up == IF Through(src, key, i) THEN <<Put(src[lo], src[hi])>> ELSE ItemBlock(src, hi)
           down == IF Through(src, key, i) THEN <<Put(src[hi], src[lo])>> ELSE ItemBlock(src, lo)
           Before(n) == IF Through(src, key, i) THEN n - 1 ELSE absorb_head_comments(src, n) - 1
           Then(first) == IF first.ok THEN replace_span(first.doc, Before(lo), lo, up) ELSE first
           one == replace_span(d, Before(hi), hi, down)
           expected == expected_after_swap(src, d.cache, key, i, j)
<1>1. \/ swap_items(d, key, i, j) \in {Err(d), Ok(d)}
      \/ /\ HasPath(src, key, i) /\ HasPath(src, key, j)
         /\ swap_items(d, key, i, j) = Guarded(d, Then(one), expected)
  BY DEF swap_items
<1>2. ASSUME HasPath(src, key, i), HasPath(src, key, j) PROVE Sound(d, Guarded(d, Then(one), expected))
  <2>1. src \in Seq(Line) /\ lo \in Lines(src) /\ hi \in Lines(src)
    BY <1>2, OpenFacts, WriteSpan
  <2> HIDE DEF lo, hi
  <2>2. /\ Before(lo) \in Nat /\ lo \in Nat /\ Before(hi) \in Nat /\ hi \in Nat
        /\ up \in Seq(Line) /\ down \in Seq(Line)
    BY <2>1, BlockFacts
  <2> HIDE DEF Before, up, down
  <2>3. IsOpen(one.doc)
    BY <2>2, ReplaceSound DEF Sound
  <2> HIDE DEF one
  <2>4. IsOpen(Then(one).doc)
    <3>1. Sound(one.doc, replace_span(one.doc, Before(lo), lo, up))
      BY <2>2, <2>3, ReplaceSound
    <3>. QED BY <2>3, <3>1 DEF Sound
  <2> HIDE DEF Then, expected
  <2>. QED BY <2>4, GuardedSound
<1> HIDE DEF Then, one, expected
<1>. QED
  BY <1>1, <1>2, ErrSound

\* The walk of adjacent swaps, one more swap for every step.
Place(from, to, n) == IF from < to THEN from + n ELSE from - n
Swapped(r, key, from, to, k) ==
  IF ~r.ok THEN r ELSE swap_items(r.doc, key, Place(from, to, k - 1), Place(from, to, k))
IsWalk(walk, d, key, from, to, n) ==
  walk = [k \in 0 .. n |-> IF k = 0 THEN Ok(d) ELSE Swapped(walk[k - 1], key, from, to, k)]

LEMMA WalkExists ==
  ASSUME NEW d, NEW key, NEW from, NEW to, NEW n \in Nat
  PROVE  \E walk : IsWalk(walk, d, key, from, to, n)
<1> DEFINE M == {m \in 0 .. n : \E walk : IsWalk(walk, d, key, from, to, m)}
<1>1. 0 \in M
  <2> DEFINE f == [k \in 0 .. 0 |-> Ok(d)]
  <2>1. IsWalk(f, d, key, from, to, 0)
    BY DEF IsWalk
  <2>. QED BY <2>1
<1>2. ASSUME NEW m \in 1 .. n, m - 1 \in M PROVE m \in M
  <2>1. PICK f : IsWalk(f, d, key, from, to, m - 1)
    BY <1>2
  <2> DEFINE g == [k \in 0 .. m |-> IF k < m THEN f[k] ELSE Swapped(f[m - 1], key, from, to, m)]
  <2>2. ASSUME NEW k \in 0 .. m
        PROVE  g[k] = IF k = 0 THEN Ok(d) ELSE Swapped(g[k - 1], key, from, to, k)
    <3>1. CASE k = m
      BY <3>1
    <3>2. CASE k < m
      <4>1. g[k] = f[k] /\ k \in 0 .. m - 1
        BY <3>2
      <4>2. f[k] = IF k = 0 THEN Ok(d) ELSE Swapped(f[k - 1], key, from, to, k)
        BY <2>1, <4>1 DEF IsWalk
      <4>3. k # 0 => g[k - 1] = f[k - 1]
        BY <3>2
      <4>. QED BY <4>1, <4>2, <4>3
    <3>. QED BY <3>1, <3>2
  <2>3. IsWalk(g, d, key, from, to, m)
    BY <2>2 DEF IsWalk
  <2>. QED BY <2>3
<1> HIDE DEF M
<1>3. n \in M
  BY <1>1, <1>2, Upto
<1>. QED
  BY <1>3 DEF M

LEMMA MoveSound ==
  ASSUME NEW d, IsOpen(d), NEW key, NEW from \in Nat, NEW to \in Nat
  PROVE  Sound(d, move_item(d, key, from, to))
<1> DEFINE steps == IF from < to THEN to - from ELSE from - to
           walk == CHOOSE w : IsWalk(w, d, key, from, to, steps)
           M == {k \in 0 .. steps : IsOpen(walk[k].doc)}
<1>1. steps \in Nat /\ \A k \in 0 .. steps : Place(from, to, k) \in Nat
  BY DEF Place
<1>2. IsWalk(walk, d, key, from, to, steps)
  BY <1>1, WalkExists
<1>3. move_item(d, key, from, to) \in {Err(d), OrSnapshot(d, walk[steps])}
  BY DEF move_item, IsWalk, Swapped, Place
<1> HIDE DEF steps, walk
<1>4. \A k \in 0 .. steps : walk[k] = IF k = 0 THEN Ok(d) ELSE Swapped(walk[k - 1], key, from, to, k)
  BY <1>2 DEF IsWalk
<1>5. 0 \in M
  <2>1. 0 \in 0 .. steps /\ walk[0] = Ok(d)
    BY <1>1, <1>4
  <2>. QED BY <2>1, ErrSound DEF Sound
<1>6. ASSUME NEW k \in 1 .. steps, k - 1 \in M PROVE k \in M
  <2> DEFINE r == walk[k - 1]
             x == Place(from, to, k - 1)
             y == Place(from, to, k)
  <2>1. IsOpen(r.doc) /\ x \in Nat /\ y \in Nat /\ k \in 0 .. steps /\ k # 0
    BY <1>1, <1>6
  <2>2. walk[k] = IF ~r.ok THEN r ELSE swap_items(r.doc, key, x, y)
    BY <1>4, <2>1 DEF Swapped
  <2> HIDE DEF r, x, y
  <2>3. IsOpen(swap_items(r.doc, key, x, y).doc)
    BY <2>1, SwapSound DEF Sound
  <2>. QED BY <2>1, <2>2, <2>3
<1>7. steps \in M
  <2> HIDE DEF M
  <2>. QED BY <1>1, <1>5, <1>6, Upto
<1>8. IsOpen(walk[steps].doc)
  BY <1>7
<1>9. OrSnapshot(d, walk[steps]) = Err(d) \/ (walk[steps].ok /\ OrSnapshot(d, walk[steps]) = walk[steps])
  BY DEF OrSnapshot
<1>. QED
  BY <1>3, <1>8, <1>9, ErrSound DEF Sound

(***************************************************************************)
(* Anchors and comments.                                                   *)
(***************************************************************************)
\* One line for one line: the others stay where they are.
LEMMA OneLine ==
  ASSUME NEW src \in Seq(Line), NEW i \in Lines(src), NEW with \in Seq(Line), Len(with) = 1
  PROVE  LET new == Splice(src, i - 1, i, with)
         IN  /\ new \in Seq(Line) /\ Lines(new) = Lines(src) /\ new[i] = with[1]
             /\ \A l \in Lines(src) : l # i => new[l] = src[l]
<1> DEFINE new == Splice(src, i - 1, i, with)
<1>1. i \in Nat /\ i > 0 /\ i <= Len(src) /\ Len(src) \in Nat /\ Lines(src) = 1 .. Len(src)
  BY LinesFacts
<1>2. IsSplice(new, Line, src, i - 1, i, with)
  BY <1>1, SpliceFacts
<1> HIDE DEF new
<1>3. new \in Seq(Line) /\ Len(new) = Len(src)
  BY <1>1, <1>2 DEF IsSplice
<1>4. new[i] = with[1]
  <2>1. 1 \in 1 .. Len(with) /\ (i - 1) + 1 = i
    BY <1>1
  <2>. QED BY <1>2, <2>1 DEF IsSplice
<1>5. ASSUME NEW l \in 1 .. Len(src), l # i PROVE new[l] = src[l]
  <2>1. CASE l < i
    <3>1. l \in 1 .. i - 1
      BY <1>1, <2>1
    <3>. QED BY <1>2, <3>1 DEF IsSplice
  <2>2. CASE l > i
    <3>1. l - i \in 1 .. Len(src) - i /\ (i - 1) + 1 + (l - i) = l /\ i + (l - i) = l
      BY <1>1, <2>2
    <3>. QED BY <1>2, <3>1 DEF IsSplice
  <2>. QED BY <1>1, <1>5, <2>1, <2>2
<1>6. Lines(new) = Lines(src)
  BY <1>1, <1>3, LinesFacts
<1>. QED
  BY <1>1, <1>3, <1>4, <1>5, <1>6 DEF new

\* The name of an alias is anchored above it.
LEMMA AnchorLine ==
  ASSUME NEW d, IsOpen(d), NEW i \in Lines(d.source), d.source[i].ref # None
  PROVE  anchored_scalar_text(d.source, d.source[i].ref, i) \in Lines(d.source)
<1> DEFINE src == d.source
           j == anchored_scalar_text(src, src[i].ref, i)
           S == {k \in 1 .. i - 1 : src[k].anchor = src[i].ref}
           T == {k \in 1 .. i - 1 : src[k].anchor = src[i].ref
                                    /\ ~(IsCollection(src, k) /\ Owner(src, i) = k)}
<1>1. src \in Seq(Line) /\ i \in Nat /\ i > 0 /\ i <= Len(src)
      /\ Len(src) \in Nat /\ Lines(src) = 1 .. Len(src)
  BY OpenFacts, LinesFacts
<1>2. Definition(src, i, src[i].ref) # 0
  BY DEF AliasesKnown, IsOpen, parse_full, parse_exactly_one
<1>3. T # {}
  BY <1>2 DEF Definition
<1>4. S # {} /\ \A k \in S : k \in 0 .. Len(src) /\ k \in Lines(src)
  BY <1>1, <1>3
<1>5. j = Largest(S)
  BY DEF anchored_scalar_text
<1> HIDE DEF S, j
<1>6. j \in Lines(src)
  BY <1>1, <1>4, <1>5, LargestFacts
<1>. QED BY <1>6 DEF j

\* Writing an alias out: the name it had is anchored above, so there is a
\* scalar to write.
LEMMA MaterialiseSound ==
  ASSUME NEW d, IsOpen(d), NEW i \in Lines(d.source), d.source[i].ref # None
  PROVE  /\ Sound(d, materialise_alias_at(d, i))
         /\ LET r == materialise_alias_at(d, i).doc.source
            IN  /\ Lines(r) = Lines(d.source)
                /\ \A l \in Lines(d.source) : l # i => r[l] = d.source[l]
<1> DEFINE src == d.source
           j == anchored_scalar_text(src, src[i].ref, i)
           with == <<[src[i] EXCEPT !.ref = None, !.val = src[j].val]>>
           r == ReplaceLine(d, i, with)
<1>1. src \in Seq(Line) /\ AliasesKnown(src) /\ i \in Nat /\ i > 0 /\ i <= Len(src) /\ src[i] \in Line
      /\ Len(src) \in Nat /\ Lines(src) = 1 .. Len(src)
  BY OpenFacts, LinesFacts
<1>2. j \in Lines(src)
  BY AnchorLine
<1>3. with \in Seq(Line)
  <2>1. src[j] \in Line
    BY <1>1, <1>2, LinesFacts
  <2>2. [src[i] EXCEPT !.ref = None, !.val = src[j].val] \in Line
    <3> HIDE DEF j
    <3>. QED BY <1>1, <2>1 DEF Line
  <2> HIDE DEF j
  <2>. QED BY <2>2
<1>4. materialise_alias_at(d, i) \in {Err(d), r}
  BY DEF materialise_alias_at
<1>5. Len(with) = 1
  OBVIOUS
<1> HIDE DEF with
<1>6. Sound(d, r)
  BY <1>1, <1>3, LineSound
<1>7. r.doc.source \in {src, Splice(src, i - 1, i, with)}
  <2> DEFINE new == Splice(src, i - 1, i, with)
  <2>1. r \in {Err(d), commit_source(d, new)}
    BY DEF ReplaceLine, replace_span
  <2> HIDE DEF new, r
  <2>2. commit_source(d, new).doc.source \in {src, new}
    BY CommitText
  <2>3. Err(d).doc.source = src
    BY DEF Err
  <2>. QED BY <2>1, <2>2, <2>3 DEF new
<1> DEFINE new == Splice(src, i - 1, i, with)
<1>8. Lines(new) = Lines(src) /\ \A l \in Lines(src) : l # i => new[l] = src[l]
  BY <1>1, <1>3, <1>5, OneLine
<1>9. Err(d).doc.source = src
  BY DEF Err
<1> HIDE DEF new, r
<1>. QED
  BY <1>4, <1>6, <1>7, <1>8, <1>9, ErrSound DEF new

\* The batch: one more alias for every step, from the last line up.
Written(r, i) == IF ~r.ok THEN r ELSE materialise_alias_at(r.doc, i)
IsBatch(batch, d, sites, n) ==
  batch = [k \in 0 .. n |-> IF k = 0 THEN Ok(d) ELSE Written(batch[k - 1], sites[k])]

LEMMA BatchExists ==
  ASSUME NEW d, NEW sites, NEW n \in Nat
  PROVE  \E batch : IsBatch(batch, d, sites, n)
<1> DEFINE M == {m \in 0 .. n : \E batch : IsBatch(batch, d, sites, m)}
<1>1. 0 \in M
  <2> DEFINE f == [k \in 0 .. 0 |-> Ok(d)]
  <2>1. IsBatch(f, d, sites, 0)
    BY DEF IsBatch
  <2>. QED BY <2>1
<1>2. ASSUME NEW m \in 1 .. n, m - 1 \in M PROVE m \in M
  <2>1. PICK f : IsBatch(f, d, sites, m - 1)
    BY <1>2
  <2> DEFINE g == [k \in 0 .. m |-> IF k < m THEN f[k] ELSE Written(f[m - 1], sites[m])]
  <2>2. ASSUME NEW k \in 0 .. m
        PROVE  g[k] = IF k = 0 THEN Ok(d) ELSE Written(g[k - 1], sites[k])
    <3>1. CASE k = m
      BY <3>1
    <3>2. CASE k < m
      <4>1. g[k] = f[k] /\ k \in 0 .. m - 1
        BY <3>2
      <4>2. f[k] = IF k = 0 THEN Ok(d) ELSE Written(f[k - 1], sites[k])
        BY <2>1, <4>1 DEF IsBatch
      <4>3. k # 0 => g[k - 1] = f[k - 1]
        BY <3>2
      <4>. QED BY <4>1, <4>2, <4>3
    <3>. QED BY <3>1, <3>2
  <2>3. IsBatch(g, d, sites, m)
    BY <2>2 DEF IsBatch
  <2>. QED BY <2>3
<1> HIDE DEF M
<1>3. n \in M
  BY <1>1, <1>2, Upto
<1>. QED
  BY <1>3 DEF M

\* The aliases of a name, last first, no line twice.
LEMMA SitesFacts ==
  ASSUME NEW src \in Seq(Line), NEW name
  PROVE  LET sites == Reverse(Ascending(aliases_of(src, name), Len(src)))
         IN  /\ Len(sites) \in Nat
             /\ \A n \in 1 .. Len(sites) : sites[n] \in Lines(src) /\ src[sites[n]].ref = name
             /\ \A m, n \in 1 .. Len(sites) : m < n => sites[m] # sites[n]
<1> DEFINE S == aliases_of(src, name)
           s == Ascending(S, Len(src))
           t == Reverse(s)
<1>1. Len(src) \in Nat /\ \A x \in S : x \in 0 .. Len(src) /\ x \in Nat /\ x \in Lines(src) /\ src[x].ref = name
  BY LinesFacts DEF aliases_of
<1> HIDE DEF S
<1>2. Lists(s, S)
  BY <1>1, AscendingFacts
<1> HIDE DEF s
<1>3. s \in Seq(S) /\ Len(s) \in Nat /\ \A n \in 1 .. Len(s) : s[n] \in S
  BY <1>2 DEF Lists
<1>4. t = [n \in 1 .. Len(s) |-> s[(Len(s) - n) + 1]]
  BY DEF Reverse
<1>5. Len(t) = Len(s) /\ \A n \in 1 .. Len(s) : t[n] = s[(Len(s) - n) + 1]
  BY <1>3, <1>4
<1>6. \A n \in 1 .. Len(s) : (Len(s) - n) + 1 \in 1 .. Len(s)
  BY <1>3
<1>7. ASSUME NEW m \in 1 .. Len(s), NEW n \in 1 .. Len(s), m < n PROVE t[m] # t[n]
  <2> DEFINE x == (Len(s) - m) + 1
             y == (Len(s) - n) + 1
  <2>1. y < x /\ x \in 1 .. Len(s) /\ y \in 1 .. Len(s)
    BY <1>3, <1>7
  <2>2. t[m] = s[x] /\ t[n] = s[y]
    BY <1>5
  <2> HIDE DEF x, y
  <2>3. s[y] < s[x] /\ s[y] \in Nat /\ s[x] \in Nat
    BY <1>1, <1>2, <1>3, <2>1 DEF Lists
  <2>. QED BY <2>2, <2>3
<1> HIDE DEF t
<1>. QED
  BY <1>1, <1>3, <1>5, <1>6, <1>7 DEF s, S, t

LEMMA RenameAnchorSound ==
  ASSUME NEW d, IsOpen(d), NEW old \in Names, NEW new \in Names
  PROVE  Sound(d, rename_anchor(d, old, new))
<1> DEFINE src == d.source
           Named(line) == [line EXCEPT !.anchor = IF @ = old THEN new ELSE @,
                                       !.ref = IF @ = old THEN new ELSE @]
           with == [i \in Lines(src) |-> Named(src[i])]
           r == replace_span(d, 0, Len(src), with)
<1>1. rename_anchor(d, old, new) \in {Err(d), r}
  BY DEF rename_anchor
<1>2. src \in Seq(Line) /\ Len(src) \in Nat /\ Lines(src) = 1 .. Len(src)
  BY OpenFacts, LinesFacts
<1>3. ASSUME NEW line \in Line PROVE Named(line) \in Line
  <2>1. old # None
    BY TextConstants
  <2>. QED BY <2>1 DEF Line
<1>4. with \in Seq(Line)
  <2>1. \A i \in 1 .. Len(src) : src[i] \in Line
    BY <1>2
  <2> HIDE DEF Named
  <2>. QED BY <1>2, <1>3, <2>1
<1> HIDE DEF with
<1>5. Sound(d, r)
  BY <1>2, <1>4, ReplaceSound
<1> HIDE DEF r
<1>. QED
  BY <1>1, <1>5, ErrSound

LEMMA CommentRunSound ==
  ASSUME NEW d, IsOpen(d), NEW i \in Lines(d.source), NEW with \in Seq(Line)
  PROVE  Sound(d, CommentRun(d, i, with))
<1> DEFINE a == absorb_head_comments(d.source, i)
<1>1. i \in Nat /\ i > 0
  BY OpenFacts, LinesFacts
<1>2. a \in 1 .. i
  BY <1>1, AbsorbFacts
<1>3. CommentRun(d, i, with) = replace_span(d, a - 1, i - 1, with)
  BY DEF CommentRun
<1> HIDE DEF a
<1>4. a - 1 \in Nat /\ i - 1 \in Nat
  BY <1>1, <1>2
<1>. QED
  BY <1>3, <1>4, ReplaceSound

LEMMA NoLines == <<>> \in Seq(Line) /\ <<Note>> \in Seq(Line)
BY MarkLines

LEMMA LeadingCommentSound ==
  ASSUME NEW d, IsOpen(d), NEW key
  PROVE  Sound(d, set_leading_comment(d, key)) /\ Sound(d, remove_leading_comment(d, key))
<1> DEFINE i == leading_comment_site(d.source, key)
           r == CommentRun(d, i, <<Note>>)
           s == CommentRun(d, i, <<>>)
<1>1. i # 0 => i \in Lines(d.source)
  BY OpenFacts, WinnerFacts DEF leading_comment_site
<1>2. i # 0 => Sound(d, r) /\ Sound(d, s)
  BY <1>1, NoLines, CommentRunSound
<1>3. set_leading_comment(d, key) = IF i = 0 THEN Err(d) ELSE Guarded(d, r, d.cache)
  BY DEF set_leading_comment, finish_comment_edit
<1>4. remove_leading_comment(d, key) \in {Err(d), Ok(d)}
      \/ (i # 0 /\ remove_leading_comment(d, key) = Guarded(d, s, d.cache))
  BY DEF remove_leading_comment, finish_comment_edit
<1> HIDE DEF r, s, i
<1>5. i # 0 => Sound(d, Guarded(d, r, d.cache)) /\ Sound(d, Guarded(d, s, d.cache))
  BY <1>2, GuardedSound DEF Sound
<1>. QED
  BY <1>3, <1>4, <1>5, ErrSound

LEMMA CommentSound ==
  ASSUME NEW d, IsOpen(d), NEW key, NEW index \in Nat
  PROVE  Sound(d, set_comment(d, key, index)) /\ Sound(d, remove_comment(d, key, index))
<1> DEFINE src == d.source
           i == leading_comment_anchor(src, key, index)
           r == CommentRun(d, i, <<Note>>)
           s == CommentRun(d, i, <<>>)
<1>1. ASSUME HasPath(src, key, index) PROVE i \in Lines(src)
  <2> DEFINE j == Target(src, span_at(src, key, index))
             items == Items(src, j)
  <2>1. src \in Seq(Line) /\ AliasesKnown(src) /\ HasKey(src, key)
    BY <1>1, OpenFacts DEF HasPath
  <2>2. Winner(src, key) \in Lines(src) /\ j \in Lines(src)
    BY <1>1, <2>1, WinnerFacts, PathFacts, TargetFacts
  <2>3. items # <<>> => items[1] \in Lines(src)
    <3>1. items \in Seq(Lines(src))
      BY <2>1, ItemsFacts
    <3> HIDE DEF items
    <3>. QED BY <3>1
  <2>. QED BY <2>2, <2>3 DEF leading_comment_anchor, IsCollection
<1>2. HasPath(src, key, index) => Sound(d, r) /\ Sound(d, s)
  BY <1>1, NoLines, CommentRunSound
<1>3. set_comment(d, key, index) = IF ~HasPath(src, key, index) THEN Err(d) ELSE guarded_comment_edit(d, r)
  BY DEF set_comment
<1>4. remove_comment(d, key, index) \in {Err(d), Ok(d)}
      \/ (HasPath(src, key, index) /\ remove_comment(d, key, index) = guarded_comment_edit(d, s))
  BY DEF remove_comment
<1> HIDE DEF r, s
<1>5. guarded_comment_edit(d, r) \in {Err(d), r} /\ guarded_comment_edit(d, s) \in {Err(d), s}
  BY DEF guarded_comment_edit
<1>. QED
  BY <1>2, <1>3, <1>4, <1>5, ErrSound

(***************************************************************************)
(* Entry::and_modify, then or_insert: the path is still there after a      *)
(* scalar was written at it, so or_insert does not refuse an edit already  *)
(* made.                                                                   *)
(***************************************************************************)
\* The same lines, but for the marks and the scalar on line i.
SameShape(src, new, i) ==
  /\ new \in Seq(Line) /\ Lines(new) = Lines(src)
  /\ \A l \in Lines(src) : new[l].at = src[l].at /\ new[l].key = src[l].key
  /\ \A l \in Lines(src) : l # i => new[l] = src[l]

LEMMA ShapeItems ==
  ASSUME NEW src \in Seq(Line), NEW i, NEW new, SameShape(src, new, i),
         NEW key, HasKey(src, key), src[Winner(src, key)].ref = None, Winner(src, key) # i,
         sequence_len_at(src, key) >= 1
  PROVE  HasKey(new, key) /\ sequence_len_at(new, key) >= 1
<1> DEFINE w == Winner(src, key)
<1>1. /\ new \in Seq(Line) /\ Lines(new) = Lines(src)
      /\ \A l \in Lines(src) : new[l].at = src[l].at /\ new[l].key = src[l].key
      /\ \A l \in Lines(src) : l # i => new[l] = src[l]
  BY DEF SameShape
<1>2. Entries(new) = Entries(src)
  BY <1>1 DEF Entries
<1>3. \A e \in Entries(src) : new[e].key = src[e].key
  BY <1>1 DEF Entries
<1>4. HasKey(new, key) /\ Winner(new, key) = w
  <2>1. {e \in Entries(new) : new[e].key = key} = {e \in Entries(src) : src[e].key = key}
    BY <1>2, <1>3
  <2>. QED BY <1>2, <1>3, <2>1 DEF HasKey, Winner
<1>5. w \in Lines(src)
  BY WinnerFacts
<1>6. SequenceLine(src, key) = w /\ SequenceLine(new, key) = w
  BY <1>1, <1>4, <1>5 DEF SequenceLine, Target
<1>7. \A l : Owner(new, l) = Owner(src, l)
  BY <1>2 DEF Owner
<1> DEFINE s == Items(src, w)
           t == Items(new, w)
           S == {n \in DOMAIN s : src[s[n]].at = "item"}
           T == {n \in DOMAIN t : new[t[n]].at = "item"}
<1>8. sequence_len_at(src, key) = Cardinality(S) /\ sequence_len_at(new, key) = Cardinality(T)
  BY <1>6 DEF sequence_len_at
<1>9. /\ Len(s) \in Nat /\ DOMAIN s = 1 .. Len(s)
      /\ \A n \in 1 .. Len(s) : s[n] \in Lines(src) /\ s[n] > w /\ Owner(src, s[n]) = w
  BY ItemsFacts
<1>10. /\ Len(t) \in Nat /\ DOMAIN t = 1 .. Len(t)
       /\ \A j \in Lines(new) : new[j].at \in {"item", "empty"} /\ j > w /\ Owner(new, j) = w =>
            \E n \in 1 .. Len(t) : t[n] = j
  BY <1>1, ItemsFacts
<1> HIDE DEF s, t, w
<1>11. PICK n \in S : TRUE
  <2>1. S # {}
    <3> HIDE DEF S
    <3>1. S = {} => Cardinality(S) = 0
      BY FS_EmptySet
    <3>. QED BY <1>8, <3>1
  <2>. QED BY <2>1
<1>12. PICK m \in 1 .. Len(t) : t[m] = s[n]
  BY <1>1, <1>7, <1>9, <1>10, <1>11
<1>13. m \in T
  BY <1>1, <1>9, <1>10, <1>11, <1>12
<1>14. T # {} /\ \A k \in T : k \in 1 .. Len(t)
  BY <1>10, <1>13
<1> HIDE DEF S, T
<1>15. Cardinality(T) >= 1
  BY <1>10, <1>14, CountFacts
<1>. QED
  BY <1>4, <1>8, <1>15

LEMMA PathKept ==
  ASSUME NEW d, IsOpen(d), NEW key, NEW index \in 0 .. 1, NEW v \in Scalars,
         HasPath(d.source, key, index)
  PROVE  HasPath(set_value(d, key, index, v).doc.source, key, index)
<1> DEFINE src == d.source
           i == span_at(src, key, index)
           line == Put(src[i], Plain(v))
           with == <<line>>
           end == LastLine(src, i)
           new == Splice(src, i - 1, end, with)
           r == set_value(d, key, index, v)
<1>1. /\ src \in Seq(Line) /\ AliasesKnown(src) /\ Len(src) \in Nat /\ Lines(src) = 1 .. Len(src)
      /\ index \in Nat /\ HasKey(src, key)
  BY OpenFacts, LinesFacts DEF HasPath
<1>2. i \in Lines(src) /\ src[i] \in Line
  BY <1>1, WriteSpan
<1>3. r.doc.source = src \/ (write_span(src, key, index) /\ r.doc.source = new)
  <2>1. r \in {Err(d), Ok(d)} \/ (write_span(src, key, index) /\ r = commit_source(d, new))
    BY DEF set_value, ReplaceNode, replace_span
  <2> HIDE DEF new, r
  <2>2. commit_source(d, new).doc.source \in {src, new}
    BY CommitText
  <2>3. Err(d).doc.source = src /\ Ok(d).doc.source = src
    BY DEF Err, Ok
  <2>. QED BY <2>1, <2>2, <2>3
<1>4. line \in Line /\ line.at = src[i].at /\ line.key = src[i].key
  <2>1. line \in Line
    BY <1>2, FragmentPut, PlainFragment
  <2>. QED BY <1>2, <2>1 DEF Put, Line
<1>5. end \in Lines(src) /\ i <= end
  BY <1>1, <1>2, LastLineFacts
<1>6. /\ with \in Seq(Line) /\ Len(with) = 1 /\ with[1] = line
  <2> HIDE DEF line
  <2>. QED BY <1>4
<1> HIDE DEF with, end, line
<1>7. IsSplice(new, Line, src, i - 1, end, with)
  <2>1. i - 1 \in Nat /\ end \in Nat /\ i - 1 <= end /\ end <= Len(src)
    BY <1>1, <1>2, <1>5
  <2>. QED BY <1>1, <1>6, <2>1, SpliceFacts
<1> HIDE DEF new, i
<1>8. /\ new \in Seq(Line) /\ Len(new) = i + (Len(src) - end) /\ new[i] = line
      /\ \A l \in 1 .. i - 1 : new[l] = src[l]
      /\ \A l \in 1 .. Len(src) - end : new[i + l] = src[end + l]
  <2>1. (i - 1) + 1 = i /\ 1 \in 1 .. Len(with)
    BY <1>1, <1>2, <1>6
  <2>. QED BY <1>6, <1>7, <2>1 DEF IsSplice
<1>9. CASE index = 0 /\ r.doc.source = new
  <2>1. i = Winner(src, key)
    BY <1>9 DEF i, span_at
  <2>2. src[i].at = "entry" /\ src[i].key = key
    BY <1>1, <2>1, WinnerFacts DEF Entries
  <2>3. i \in Lines(new)
    BY <1>1, <1>2, <1>5, <1>8 DEF Lines
  <2>4. HasKey(new, key)
    BY <1>4, <1>8, <2>2, <2>3 DEF HasKey, Entries
  <2>. QED BY <1>9, <2>4 DEF HasPath
<1>10. CASE index = 1 /\ write_span(src, key, index) /\ r.doc.source = new
  <2> DEFINE w == Winner(src, key)
             s == Items(src, w)
  <2>1. src[w].ref = None
    BY <1>10 DEF write_span, Through
  <2>2. SequenceLine(src, key) = w
    BY <2>1 DEF SequenceLine, Target
  <2>3. i = s[1] /\ 1 \in 1 .. Len(s)
    <3>1. index \in 1 .. Len(s)
      BY <1>1, <1>10, <2>2, PathFacts
    <3>. QED BY <1>10, <2>2, <3>1 DEF i, span_at
  <2>4. src[i].at \in {"item", "empty"} /\ i > w
    BY <1>1, <2>3, ItemsFacts
  <2>5. i \notin Entries(src) /\ w \in Entries(src) /\ w # i
    BY <1>1, <2>4, WinnerFacts DEF Entries
  <2>6. end = i
    <3> DEFINE t == Items(src, i)
    <3>1. t = <<>>
      <4>1. t \in Seq(Lines(src)) /\ Len(t) \in Nat
            /\ \A n \in 1 .. Len(t) : t[n] \in Lines(src) /\ Owner(src, t[n]) = i
        BY <1>1, ItemsFacts
      <4>2. \A n \in 1 .. Len(t) : FALSE
        <5>1. \A l \in Lines(src) : Owner(src, l) # i
          BY <1>1, <1>2, <2>5, OwnerFacts
        <5> HIDE DEF t
        <5>. QED BY <4>1, <5>1
      <4> HIDE DEF t
      <4>. QED BY <4>1, <4>2
    <3>. QED BY <3>1 DEF end, LastLine
  <2>7. SameShape(src, new, i)
    <3>1. Len(new) = Len(src) /\ Lines(new) = Lines(src) /\ i \in 1 .. Len(src)
      BY <1>1, <1>2, <1>8, <2>6, LinesFacts
    <3>2. ASSUME NEW l \in Lines(src), l # i PROVE new[l] = src[l]
      <4>1. CASE l < i
        BY <1>1, <1>8, <3>1, <4>1
      <4>2. CASE l > i
        <5>1. l - i \in 1 .. Len(src) - i /\ i + (l - i) = l
          BY <1>1, <3>1, <4>2
        <5>. QED BY <1>8, <2>6, <5>1
      <4>. QED BY <1>1, <3>1, <3>2, <4>1, <4>2
    <3>3. ASSUME NEW l \in Lines(src) PROVE new[l].at = src[l].at /\ new[l].key = src[l].key
      BY <1>4, <1>8, <3>2
    <3>. QED BY <1>8, <3>1, <3>2, <3>3 DEF SameShape
  <2>8. sequence_len_at(src, key) >= 1
    <3>1. sequence_len_at(src, key) \in Nat
      BY <1>1, LengthFacts
    <3>. QED BY <1>10, <3>1 DEF HasPath
  <2>9. HasKey(new, key) /\ sequence_len_at(new, key) >= 1
    BY <1>1, <2>1, <2>5, <2>7, <2>8, ShapeItems
  <2>10. sequence_len_at(new, key) \in Nat
    BY <1>8, LengthFacts
  <2>. QED BY <1>10, <2>9, <2>10 DEF HasPath
<1>. QED
  BY <1>3, <1>9, <1>10

LEMMA EntrySound ==
  ASSUME NEW d, IsOpen(d), NEW key, NEW index \in 0 .. 1, NEW v \in Scalars
  PROVE  Sound(d, or_insert(and_modify(d, key, index, v), key, index))
<1> DEFINE e == set_value(d, key, index, v).doc
           x == and_modify(d, key, index, v)
<1>1. CASE ~HasPath(d.source, key, index)
  <2>1. x = d
    BY <1>1 DEF and_modify, exists
  <2>2. or_insert(x, key, index) = Err(d)
    BY <1>1, <2>1 DEF or_insert, insert_at_path, exists
  <2>. QED BY <2>2, ErrSound
<1>2. CASE HasPath(d.source, key, index)
  <2>1. x = e
    BY <1>2 DEF and_modify, exists
  <2>2. HasPath(e.source, key, index)
    BY <1>2, PathKept
  <2>3. or_insert(x, key, index) = Ok(e)
    BY <2>1, <2>2 DEF or_insert, exists
  <2>4. IsOpen(e)
    BY SetValueSound DEF Sound
  <2> HIDE DEF e, x
  <2>5. Ok(e).doc = e /\ Ok(e).ok = TRUE
    BY DEF Ok
  <2>. QED BY <2>3, <2>4, <2>5 DEF Sound, x
<1>. QED
  BY <1>1, <1>2

(***************************************************************************)
(* The session: the queue in order, and the text it assembles.             *)
(***************************************************************************)
\* An edit of the text src, and edits that may be in one queue.
EditsOf(src) ==
  {e \in [from : Nat, to : Nat, with : Seq(Line)] : e.from <= e.to /\ e.to <= Len(src)}
Apart(e, f) == e.from # f.from /\ ~(e.from < f.to /\ f.from < e.to)
Compatible(queue) == \A m, n \in DOMAIN queue : m # n => Apart(queue[m], queue[n])

\* Each edit of the run ends before the next one starts.
InOrder(run) == \A m, n \in DOMAIN run : m < n => run[m].to <= run[n].from

LEMMA SortedFacts ==
  ASSUME NEW src \in Seq(Line), NEW queue \in Seq(EditsOf(src)), Compatible(queue)
  PROVE  LET run == Sorted(queue, Len(src))
         IN  run \in Seq(EditsOf(src)) /\ InOrder(run) /\ ToSet(run) = ToSet(queue)
<1> DEFINE F == {queue[n].from : n \in DOMAIN queue}
           starts == Ascending(F, Len(src))
           Q == ToSet(queue)
           Pick(n) == CHOOSE e \in Q : e.from = starts[n]
           run == Sorted(queue, Len(src))
<1>1. Len(src) \in Nat /\ Len(queue) \in Nat /\ DOMAIN queue = 1 .. Len(queue)
  OBVIOUS
<1>2. \A n \in DOMAIN queue : queue[n] \in EditsOf(src) /\ queue[n] \in Q
  BY DEF ToSet
<1>3. ASSUME NEW e \in Q PROVE e \in EditsOf(src) /\ \E n \in DOMAIN queue : queue[n] = e
  BY <1>2 DEF ToSet
<1>4. \A x \in F : x \in 0 .. Len(src)
  BY <1>1, <1>2 DEF EditsOf
<1>5. Lists(starts, F)
  <2> HIDE DEF F
  <2>. QED BY <1>1, <1>4, AscendingFacts
<1>6. run = [n \in DOMAIN starts |-> Pick(n)]
  BY DEF Sorted
<1> HIDE DEF starts, F, run
<1>7. starts \in Seq(F) /\ Len(starts) \in Nat /\ DOMAIN starts = 1 .. Len(starts)
  BY <1>5 DEF Lists
<1>8. ASSUME NEW n \in 1 .. Len(starts) PROVE Pick(n) \in Q /\ Pick(n).from = starts[n]
  <2>1. starts[n] \in F
    BY <1>7
  <2>2. \E e \in Q : e.from = starts[n]
    BY <1>2, <2>1 DEF F
  <2>. QED BY <2>2
<1> HIDE DEF Pick, Q
<1>9. /\ Len(run) = Len(starts) /\ DOMAIN run = 1 .. Len(starts)
      /\ \A n \in 1 .. Len(starts) : run[n] = Pick(n)
  BY <1>6, <1>7
<1>10. run \in Seq(EditsOf(src))
  BY <1>3, <1>6, <1>7, <1>8
<1>11. ASSUME NEW e \in Q, NEW f \in Q, e.from < f.from PROVE e.to <= f.from
  <2>1. PICK m \in DOMAIN queue : queue[m] = e
    BY <1>3
  <2>2. PICK n \in DOMAIN queue : queue[n] = f
    BY <1>3
  <2>3. e.from \in Nat /\ e.to \in Nat /\ f.from \in Nat /\ f.to \in Nat /\ f.from <= f.to
    BY <1>3 DEF EditsOf
  <2>4. m # n
    BY <1>11, <2>1, <2>2, <2>3
  <2>5. Apart(e, f)
    BY <2>1, <2>2, <2>4 DEF Compatible
  <2>. QED BY <1>11, <2>3, <2>5 DEF Apart
<1>12. InOrder(run)
  <2> SUFFICES ASSUME NEW m \in 1 .. Len(starts), NEW n \in 1 .. Len(starts), m < n
               PROVE  run[m].to <= run[n].from
    BY <1>9 DEF InOrder
  <2>1. starts[m] < starts[n]
    BY <1>5 DEF Lists
  <2>. QED BY <1>8, <1>9, <1>11, <2>1
<1>13. ASSUME NEW e \in Q PROVE \E n \in 1 .. Len(starts) : run[n] = e
  <2>1. PICK k \in DOMAIN queue : queue[k] = e
    BY <1>3
  <2>2. e.from \in F
    BY <2>1 DEF F
  <2>3. PICK n \in 1 .. Len(starts) : starts[n] = e.from
    BY <1>5, <2>2 DEF Lists
  <2>4. PICK l \in DOMAIN queue : queue[l] = Pick(n)
    BY <1>3, <1>8
  <2>5. queue[l].from = queue[k].from
    BY <1>8, <2>1, <2>3, <2>4
  <2>6. l = k
    BY <2>5 DEF Compatible, Apart
  <2>. QED BY <1>9, <2>1, <2>4, <2>6
<1>14. ToSet(run) = Q
  <2>1. ToSet(run) = {run[n] : n \in 1 .. Len(starts)}
    BY <1>9 DEF ToSet
  <2>2. \A n \in 1 .. Len(starts) : run[n] \in Q
    BY <1>8, <1>9
  <2>. QED BY <1>13, <2>1, <2>2
<1>. QED
  BY <1>10, <1>12, <1>14 DEF run, Q

\* Going up: the text before each edit, then the edit.
EndBefore(run, n) == IF n = 1 THEN 0 ELSE run[n - 1].to
Grown(text, src, run, n) ==
  text \o SubSeq(src, EndBefore(run, n) + 1, run[n].from) \o run[n].with
IsUp(text, src, run, n) ==
  text = [k \in 0 .. n |-> IF k = 0 THEN <<>> ELSE Grown(text[k - 1], src, run, k)]

LEMMA UpExists ==
  ASSUME NEW src, NEW run, NEW n \in Nat
  PROVE  \E text : IsUp(text, src, run, n)
<1> DEFINE M == {m \in 0 .. n : \E text : IsUp(text, src, run, m)}
<1>1. 0 \in M
  <2> DEFINE f == [k \in 0 .. 0 |-> <<>>]
  <2>1. IsUp(f, src, run, 0)
    BY DEF IsUp
  <2>. QED BY <2>1
<1>2. ASSUME NEW m \in 1 .. n, m - 1 \in M PROVE m \in M
  <2>1. PICK f : IsUp(f, src, run, m - 1)
    BY <1>2
  <2> DEFINE g == [k \in 0 .. m |-> IF k < m THEN f[k] ELSE Grown(f[m - 1], src, run, m)]
  <2>2. ASSUME NEW k \in 0 .. m
        PROVE  g[k] = IF k = 0 THEN <<>> ELSE Grown(g[k - 1], src, run, k)
    <3>1. CASE k = m
      BY <3>1
    <3>2. CASE k < m
      <4>1. g[k] = f[k] /\ k \in 0 .. m - 1
        BY <3>2
      <4>2. f[k] = IF k = 0 THEN <<>> ELSE Grown(f[k - 1], src, run, k)
        BY <2>1, <4>1 DEF IsUp
      <4>3. k # 0 => g[k - 1] = f[k - 1]
        BY <3>2
      <4>. QED BY <4>1, <4>2, <4>3
    <3>. QED BY <3>1, <3>2
  <2>3. IsUp(g, src, run, m)
    BY <2>2 DEF IsUp
  <2>. QED BY <2>3
<1> HIDE DEF M
<1>3. n \in M
  BY <1>1, <1>2, Upto
<1>. QED
  BY <1>3 DEF M

\* Going down: one splice for every edit, from the last.
Spliced(text, e) == Splice(text, e.from, e.to, e.with)
IsDown(text, src, down, n) ==
  text = [k \in 0 .. n |-> IF k = 0 THEN src ELSE Spliced(text[k - 1], down[k])]

LEMMA DownExists ==
  ASSUME NEW src, NEW down, NEW n \in Nat
  PROVE  \E text : IsDown(text, src, down, n)
<1> DEFINE M == {m \in 0 .. n : \E text : IsDown(text, src, down, m)}
<1>1. 0 \in M
  <2> DEFINE f == [k \in 0 .. 0 |-> src]
  <2>1. IsDown(f, src, down, 0)
    BY DEF IsDown
  <2>. QED BY <2>1
<1>2. ASSUME NEW m \in 1 .. n, m - 1 \in M PROVE m \in M
  <2>1. PICK f : IsDown(f, src, down, m - 1)
    BY <1>2
  <2> DEFINE g == [k \in 0 .. m |-> IF k < m THEN f[k] ELSE Spliced(f[m - 1], down[m])]
  <2>2. ASSUME NEW k \in 0 .. m
        PROVE  g[k] = IF k = 0 THEN src ELSE Spliced(g[k - 1], down[k])
    <3>1. CASE k = m
      BY <3>1
    <3>2. CASE k < m
      <4>1. g[k] = f[k] /\ k \in 0 .. m - 1
        BY <3>2
      <4>2. f[k] = IF k = 0 THEN src ELSE Spliced(f[k - 1], down[k])
        BY <2>1, <4>1 DEF IsDown
      <4>3. k # 0 => g[k - 1] = f[k - 1]
        BY <3>2
      <4>. QED BY <4>1, <4>2, <4>3
    <3>. QED BY <3>1, <3>2
  <2>3. IsDown(g, src, down, m)
    BY <2>2 DEF IsDown
  <2>. QED BY <2>3
<1> HIDE DEF M
<1>3. n \in M
  BY <1>1, <1>2, Upto
<1>. QED
  BY <1>3 DEF M

LEMMA SameSeq ==
  ASSUME NEW S, NEW s \in Seq(S), NEW t \in Seq(S), Len(s) = Len(t),
         \A i \in 1 .. Len(s) : s[i] = t[i]
  PROVE  s = t
<1>1. /\ DOMAIN s = 1 .. Len(s) /\ DOMAIN t = 1 .. Len(s)
      /\ s = [i \in DOMAIN s |-> s[i]] /\ t = [i \in DOMAIN t |-> t[i]]
  OBVIOUS
<1>. QED
  BY <1>1

\* What is after cut p once x was spliced between f and t: the text up to f,
\* which is still the source's, what was put there, and what follows.
IsTail(y, S, src, x, p, f, t, w) ==
  /\ y \in Seq(S) /\ p <= Len(y) /\ f <= Len(y) /\ \A i \in 1 .. f : y[i] = src[i]
  /\ SubSeq(y, p + 1, Len(y)) = (SubSeq(src, p + 1, f) \o w) \o SubSeq(x, t + 1, Len(x))

LEMMA TailAfterSplice ==
  ASSUME NEW S, NEW src \in Seq(S), NEW x \in Seq(S), NEW w \in Seq(S),
         NEW p \in Nat, NEW f \in Nat, NEW t \in Nat, p <= f, f <= t, t <= Len(x), f <= Len(src),
         \A i \in 1 .. f : x[i] = src[i],
         NEW y, y = Splice(x, f, t, w)
  PROVE  IsTail(y, S, src, x, p, f, t, w)
<1> DEFINE a == SubSeq(src, p + 1, f)
           z == SubSeq(x, t + 1, Len(x))
           b == a \o w
           c == b \o z
           g == SubSeq(y, p + 1, Len(y))
<1>1. Len(x) \in Nat /\ Len(w) \in Nat /\ Len(src) \in Nat
  OBVIOUS
<1>2. IsSplice(y, S, x, f, t, w)
  BY SpliceFacts
<1>3. /\ y \in Seq(S) /\ Len(y) \in Nat /\ Len(y) = f + Len(w) + (Len(x) - t)
      /\ \A i \in 1 .. f : y[i] = x[i]
      /\ \A i \in 1 .. Len(w) : y[f + i] = w[i]
      /\ \A i \in 1 .. Len(x) - t : y[f + Len(w) + i] = x[t + i]
  BY <1>2 DEF IsSplice
<1>4. p <= Len(y) /\ f <= Len(y)
  BY <1>1, <1>3
<1>5. IsCut(a, S, src, p, f) /\ IsCut(z, S, x, t, Len(x)) /\ IsCut(g, S, y, p, Len(y))
  <2>1. IsCut(a, S, src, p, f)
    BY <1>1, SubSeqFacts
  <2>2. IsCut(z, S, x, t, Len(x))
    BY <1>1, SubSeqFacts
  <2>3. IsCut(g, S, y, p, Len(y))
    BY <1>3, <1>4, SubSeqFacts
  <2>. QED BY <2>1, <2>2, <2>3
<1> HIDE DEF a, z, g
<1>6. a \in Seq(S) /\ z \in Seq(S) /\ g \in Seq(S)
      /\ Len(a) = f - p /\ Len(z) = Len(x) - t /\ Len(g) = Len(y) - p
  BY <1>5 DEF IsCut
<1>7. IsConcat(b, S, a, w)
  BY <1>6, ConcatFacts
<1>8. b \in Seq(S) /\ Len(b) = (f - p) + Len(w)
  BY <1>6, <1>7 DEF IsConcat
<1> HIDE DEF b
<1>9. IsConcat(c, S, b, z)
  BY <1>6, <1>8, ConcatFacts
<1>10. c \in Seq(S) /\ Len(c) = Len(g)
  BY <1>1, <1>3, <1>6, <1>8, <1>9 DEF IsConcat
<1> HIDE DEF c
<1>11. ASSUME NEW i \in 1 .. Len(g) PROVE g[i] = c[i]
  <2>0. i \in Nat /\ Len(g) = (f - p) + Len(w) + (Len(x) - t) /\ i <= Len(g)
    BY <1>1, <1>3, <1>6, <1>11
  <2>1. g[i] = y[p + i]
    BY <1>5, <1>6, <1>11 DEF IsCut
  <2>2. CASE i <= f - p
    <3>1. i \in 1 .. Len(b) /\ i \in 1 .. Len(a) /\ p + i \in 1 .. f /\ i \in 1 .. f - p
      BY <1>1, <1>6, <1>8, <2>0, <2>2
    <3>2. c[i] = b[i]
      BY <1>9, <3>1 DEF IsConcat
    <3>3. b[i] = a[i]
      BY <1>7, <3>1 DEF IsConcat
    <3>4. a[i] = src[p + i]
      BY <1>5, <3>1 DEF IsCut
    <3>5. y[p + i] = x[p + i] /\ x[p + i] = src[p + i]
      BY <1>3, <3>1
    <3>. QED BY <2>1, <3>2, <3>3, <3>4, <3>5
  <2>3. CASE f - p < i /\ i <= (f - p) + Len(w)
    <3> DEFINE k == i - (f - p)
    <3>0. k \in Int /\ 1 <= k /\ k <= Len(w) /\ f + k = p + i /\ (f - p) + k = i
      BY <1>1, <2>0, <2>3
    <3>1. i \in 1 .. Len(b) /\ k \in 1 .. Len(w) /\ Len(a) + k = i /\ f + k = p + i
      <4>1. i \in 1 .. Len(b)
        BY <1>1, <1>8, <2>0, <2>3
      <4>2. k \in 1 .. Len(w)
        BY <1>1, <3>0
      <4>. QED BY <1>6, <3>0, <4>1, <4>2
    <3> HIDE DEF k
    <3>2. c[i] = b[i]
      BY <1>9, <3>1 DEF IsConcat
    <3>3. b[i] = w[k]
      BY <1>7, <3>1 DEF IsConcat
    <3>4. y[p + i] = w[k]
      BY <1>3, <3>1
    <3>. QED BY <2>1, <3>2, <3>3, <3>4
  <2>4. CASE (f - p) + Len(w) < i
    <3> DEFINE k == i - ((f - p) + Len(w))
    <3>0. k \in Int /\ 1 <= k /\ k <= Len(x) - t /\ (f - p) + Len(w) + k = i /\ f + Len(w) + k = p + i
      BY <1>1, <2>0, <2>4
    <3>1. k \in 1 .. Len(x) - t /\ Len(b) + k = i /\ f + Len(w) + k = p + i /\ k \in 1 .. Len(z)
      <4>1. k \in 1 .. Len(x) - t
        BY <1>1, <3>0
      <4>. QED BY <1>6, <1>8, <3>0, <4>1
    <3> HIDE DEF k
    <3>2. c[i] = z[k]
      BY <1>9, <3>1 DEF IsConcat
    <3>3. z[k] = x[t + k]
      BY <1>5, <3>1 DEF IsCut
    <3>4. y[p + i] = x[t + k]
      BY <1>3, <3>1
    <3>. QED BY <2>1, <3>2, <3>3, <3>4
  <2>. QED BY <1>1, <2>0, <2>2, <2>3, <2>4
<1>12. g = c
  BY <1>6, <1>10, <1>11, SameSeq
<1>. QED
  BY <1>3, <1>4, <1>12 DEF IsTail, a, z, b, c, g

\* What a run of edits in order gives a step: the bounds of the nth edit.
LEMMA RunFacts ==
  ASSUME NEW src \in Seq(Line), NEW run \in Seq(EditsOf(src)), InOrder(run), NEW n \in 1 .. Len(run)
  PROVE  /\ EndBefore(run, n) \in Nat /\ run[n].from \in Nat /\ run[n].to \in Nat
         /\ EndBefore(run, n) <= run[n].from /\ run[n].from <= run[n].to /\ run[n].to <= Len(src)
         /\ run[n].with \in Seq(Line)
<1>1. DOMAIN run = 1 .. Len(run) /\ Len(run) \in Nat /\ \A k \in 1 .. Len(run) : run[k] \in EditsOf(src)
  OBVIOUS
<1>2. /\ run[n].from \in Nat /\ run[n].to \in Nat /\ run[n].with \in Seq(Line)
      /\ run[n].from <= run[n].to /\ run[n].to <= Len(src)
  BY <1>1 DEF EditsOf
<1>3. CASE n = 1
  BY <1>2, <1>3 DEF EndBefore
<1>4. CASE n > 1
  <2>1. n - 1 \in 1 .. Len(run) /\ n - 1 < n
    BY <1>1, <1>4
  <2>2. run[n - 1].to \in Nat /\ run[n - 1].to <= run[n].from
    BY <1>1, <2>1 DEF EditsOf, InOrder
  <2>. QED BY <1>2, <1>4, <2>2 DEF EndBefore
<1>. QED
  BY <1>1, <1>3, <1>4

LEMMA UpFacts ==
  ASSUME NEW src \in Seq(Line), NEW run \in Seq(EditsOf(src)), InOrder(run),
         NEW up, IsUp(up, src, run, Len(run))
  PROVE  \A k \in 0 .. Len(run) : up[k] \in Seq(Line)
<1> DEFINE N == Len(run)
           M == {k \in 0 .. N : up[k] \in Seq(Line)}
<1>1. N \in Nat /\ \A k \in 0 .. N : up[k] = IF k = 0 THEN <<>> ELSE Grown(up[k - 1], src, run, k)
  <2>1. N \in Nat
    OBVIOUS
  <2>2. up = [k \in 0 .. N |-> IF k = 0 THEN <<>> ELSE Grown(up[k - 1], src, run, k)]
    BY ONLY IsUp(up, src, run, Len(run)) DEF IsUp
  <2>3. ASSUME NEW k \in 0 .. N
        PROVE  up[k] = IF k = 0 THEN <<>> ELSE Grown(up[k - 1], src, run, k)
    BY ONLY <2>2, k \in 0 .. N, Zenon
  <2>. QED BY <2>1, <2>3
<1>2. 0 \in M
  <2>1. 0 \in 0 .. N
    BY <1>1
  <2>2. up[0] = <<>>
    BY <1>1, <2>1
  <2>3. <<>> \in Seq(Line)
    OBVIOUS
  <2>. QED BY <2>1, <2>2, <2>3
<1>3. ASSUME NEW k \in 1 .. N, k - 1 \in M PROVE k \in M
  <2> DEFINE a == SubSeq(src, EndBefore(run, k) + 1, run[k].from)
  <2>1. /\ EndBefore(run, k) \in Nat /\ run[k].from \in Nat /\ run[k].to \in Nat
        /\ EndBefore(run, k) <= run[k].from /\ run[k].from <= run[k].to /\ run[k].to <= Len(src)
        /\ run[k].with \in Seq(Line) /\ Len(src) \in Nat
    BY RunFacts
  <2>2. IsCut(a, Line, src, EndBefore(run, k), run[k].from)
    BY <2>1, SubSeqFacts
  <2>3. a \in Seq(Line) /\ up[k - 1] \in Seq(Line)
    BY <1>3, <2>2 DEF IsCut
  <2>4. k \in 0 .. N /\ k # 0
    BY <1>1
  <2>5. up[k] = Grown(up[k - 1], src, run, k)
    BY <1>1, <2>4
  <2>6. up[k] = (up[k - 1] \o a) \o run[k].with
    BY <2>5 DEF Grown
  <2> HIDE DEF a
  <2>7. IsConcat(up[k - 1] \o a, Line, up[k - 1], a)
    BY <2>3, ConcatFacts
  <2>8. up[k - 1] \o a \in Seq(Line)
    BY <2>7 DEF IsConcat
  <2>9. IsConcat((up[k - 1] \o a) \o run[k].with, Line, up[k - 1] \o a, run[k].with)
    BY <2>1, <2>8, ConcatFacts
  <2>10. up[k] \in Seq(Line)
    BY <2>6, <2>9 DEF IsConcat
  <2>. QED BY <2>4, <2>10
<1>4. \A k \in 0 .. N : k \in M
  <2> HIDE DEF M
  <2>. QED BY <1>1, <1>2, <1>3, Upto
<1>. QED
  BY <1>4

\* Half way down: the edits after the mth are spliced into text, the first m
\* are built into up[m], and the two halves are the whole.
IsHalf(text, src, run, up, m, whole) ==
  /\ text \in Seq(Line) /\ EndBefore(run, m + 1) <= Len(text)
  /\ \A i \in 1 .. EndBefore(run, m + 1) : text[i] = src[i]
  /\ whole = up[m] \o SubSeq(text, EndBefore(run, m + 1) + 1, Len(text))

FromFront(u, a, w, z) == ((u \o a) \o w) \o z
FromBack(u, a, w, z) == u \o ((a \o w) \o z)
LEMMA Regroup ==
  ASSUME NEW S, NEW u \in Seq(S), NEW a \in Seq(S), NEW w \in Seq(S), NEW z \in Seq(S)
  PROVE  FromFront(u, a, w, z) = FromBack(u, a, w, z)
<1>1. a \o w \in Seq(S)
  <2>1. IsConcat(a \o w, S, a, w)
    BY ConcatFacts
  <2>. QED BY <2>1 DEF IsConcat
<1>2. (u \o a) \o w = u \o (a \o w)
  BY ConcatAssociative, SMTT(30)
<1>3. (u \o (a \o w)) \o z = u \o ((a \o w) \o z)
  <2> DEFINE b == a \o w
  <2>1. b \in Seq(S)
    BY <1>1
  <2> HIDE DEF b
  <2>2. (u \o b) \o z = u \o (b \o z)
    BY <2>1, ConcatAssociative, SMTT(30)
  <2>. QED BY <2>2 DEF b
<1>. QED
  BY <1>2, <1>3 DEF FromFront, FromBack

LEMMA HalfStep ==
  ASSUME NEW src \in Seq(Line), NEW run \in Seq(EditsOf(src)), InOrder(run),
         NEW up, IsUp(up, src, run, Len(run)), NEW m \in 1 .. Len(run),
         NEW x, NEW whole, IsHalf(x, src, run, up, m, whole)
  PROVE  IsHalf(Spliced(x, run[m]), src, run, up, m - 1, whole)
<1> DEFINE N == Len(run)
           p == EndBefore(run, m)
           f == run[m].from
           t == run[m].to
           w == run[m].with
           y == Spliced(x, run[m])
           a == SubSeq(src, p + 1, f)
           z == SubSeq(x, t + 1, Len(x))
           u == up[m - 1]
<1>1. m \in Nat /\ m # 0 /\ m \in 0 .. N /\ m - 1 \in 0 .. N /\ N \in Nat /\ m - 1 + 1 = m
  OBVIOUS
<1>2. EndBefore(run, m + 1) = t
  BY <1>1 DEF EndBefore
<1>3. /\ p \in Nat /\ f \in Nat /\ t \in Nat /\ p <= f /\ f <= t /\ t <= Len(src)
      /\ w \in Seq(Line) /\ Len(src) \in Nat
  BY RunFacts
<1>4. x \in Seq(Line) /\ t <= Len(x) /\ (\A i \in 1 .. t : x[i] = src[i]) /\ whole = up[m] \o z /\ Len(x) \in Nat
  <2>1. /\ x \in Seq(Line) /\ EndBefore(run, m + 1) <= Len(x)
        /\ \A i \in 1 .. EndBefore(run, m + 1) : x[i] = src[i]
        /\ whole = up[m] \o SubSeq(x, EndBefore(run, m + 1) + 1, Len(x))
    BY DEF IsHalf
  <2>2. Len(x) \in Nat
    BY <2>1
  <2> HIDE DEF t
  <2>. QED BY ONLY <1>2, <2>1, <2>2, Zenon DEF z
<1>5. y = Splice(x, f, t, w)
  BY DEF Spliced
<1> HIDE DEF y
<1>6. f <= Len(src) /\ \A i \in 1 .. f : x[i] = src[i]
  <2>1. \A i \in 1 .. f : i \in 1 .. t
    BY <1>3
  <2>. QED BY <1>3, <1>4, <2>1, SMTT(60)
<1>7. /\ y \in Seq(Line) /\ p <= Len(y) /\ \A i \in 1 .. f : y[i] = src[i]
      /\ SubSeq(y, p + 1, Len(y)) = (a \o w) \o z
  <2> HIDE DEF p, f, t, w
  <2>1. IsTail(y, Line, src, x, p, f, t, w)
    BY <1>3, <1>4, <1>5, <1>6, TailAfterSplice
  <2>. QED BY <2>1 DEF IsTail, a, z
<1>8. up[m] = (u \o a) \o w
  <2>1. up[m] = Grown(up[m - 1], src, run, m)
    BY <1>1 DEF IsUp
  <2>. QED BY <2>1 DEF Grown
<1>9. u \in Seq(Line)
  BY <1>1, UpFacts
<1>10. a \in Seq(Line) /\ z \in Seq(Line)
  <2>1. IsCut(a, Line, src, p, f)
    BY <1>3, <1>6, SubSeqFacts
  <2>2. IsCut(z, Line, x, t, Len(x))
    BY <1>3, <1>4, SubSeqFacts
  <2>. QED BY <2>1, <2>2 DEF IsCut
<1>11. whole = u \o SubSeq(y, p + 1, Len(y))
  <2>1. ((u \o a) \o w) \o z = u \o ((a \o w) \o z)
    <3>1. w \in Seq(Line)
      BY <1>3
    <3> HIDE DEF u, a, w, z
    <3>2. FromFront(u, a, w, z) = FromBack(u, a, w, z)
      BY <1>9, <1>10, <3>1, Regroup
    <3>. QED BY ONLY <3>2 DEF FromFront, FromBack
  <2>. QED BY <1>4, <1>7, <1>8, <2>1
<1>12. \A i \in 1 .. p : y[i] = src[i]
  <2>1. \A i \in 1 .. p : i \in 1 .. f
    BY <1>3
  <2>. QED BY <1>7, <2>1
<1>13. EndBefore(run, (m - 1) + 1) = p
  BY <1>1
<1> HIDE DEF p, u
<1>14. IsHalf(y, src, run, up, m - 1, whole)
  BY <1>7, <1>11, <1>12, <1>13 DEF IsHalf, u
<1>. QED
  BY <1>14 DEF y

\* Built from the front or spliced from the back, a run of edits in order
\* gives one text.
LEMMA UpIsDown ==
  ASSUME NEW src \in Seq(Line), NEW run \in Seq(EditsOf(src)), InOrder(run),
         NEW up, IsUp(up, src, run, Len(run)),
         NEW dn, IsDown(dn, src, Reverse(run), Len(run))
  PROVE  /\ dn[Len(run)] \in Seq(Line)
         /\ dn[Len(run)] =
              up[Len(run)] \o SubSeq(src, EndBefore(run, Len(run) + 1) + 1, Len(src))
<1> DEFINE N == Len(run)
           whole == up[N] \o SubSeq(src, EndBefore(run, N + 1) + 1, Len(src))
           M == {k \in 0 .. N : IsHalf(dn[k], src, run, up, N - k, whole)}
<1>1. /\ N \in Nat /\ Len(src) \in Nat
      /\ \A k \in 0 .. N : dn[k] = IF k = 0 THEN src ELSE Spliced(dn[k - 1], Reverse(run)[k])
  <2>1. N \in Nat /\ Len(src) \in Nat
    OBVIOUS
  <2>2. dn = [k \in 0 .. N |-> IF k = 0 THEN src ELSE Spliced(dn[k - 1], Reverse(run)[k])]
    BY ONLY IsDown(dn, src, Reverse(run), Len(run)) DEF IsDown
  <2>3. ASSUME NEW k \in 0 .. N
        PROVE  dn[k] = IF k = 0 THEN src ELSE Spliced(dn[k - 1], Reverse(run)[k])
    BY ONLY <2>2, k \in 0 .. N, Zenon
  <2>. QED BY <2>1, <2>3
<1>2. \A k \in 1 .. N : Reverse(run)[k] = run[(N - k) + 1]
  BY <1>1 DEF Reverse
<1>3. 0 \in M
  <2>1. 0 \in 0 .. N /\ N - 0 = N
    BY <1>1
  <2>2. dn[0] = src
    BY <1>1, <2>1
  <2>3. EndBefore(run, N + 1) <= Len(src)
    <3>1. CASE N = 0
      BY <1>1, <3>1 DEF EndBefore
    <3>2. CASE N # 0
      <4>1. N \in 1 .. Len(run)
        BY <1>1, <3>2
      <4>2. run[N].to <= Len(src)
        BY <4>1, RunFacts
      <4>. QED BY <1>1, <3>2, <4>2 DEF EndBefore
    <3>. QED BY <3>1, <3>2
  <2>4. IsHalf(src, src, run, up, N, whole)
    BY <2>3 DEF IsHalf
  <2> HIDE DEF whole
  <2>. QED BY <2>1, <2>2, <2>4
<1> HIDE DEF whole
<1>4. ASSUME NEW k \in 1 .. N, k - 1 \in M PROVE k \in M
  <2> DEFINE m == (N - k) + 1
  <2>1. k \in 0 .. N /\ k # 0 /\ m \in 1 .. Len(run) /\ N - (k - 1) = m /\ m - 1 = N - k
    BY <1>1
  <2> HIDE DEF m
  <2>2. dn[k] = Spliced(dn[k - 1], Reverse(run)[k])
    BY <1>1, <2>1
  <2>3. Reverse(run)[k] = run[m]
    BY <1>2 DEF m
  <2>4. IsHalf(dn[k - 1], src, run, up, m, whole)
    BY <1>4, <2>1
  <2>5. IsHalf(Spliced(dn[k - 1], run[m]), src, run, up, m - 1, whole)
    BY <2>1, <2>4, HalfStep
  <2>. QED BY <2>1, <2>2, <2>3, <2>5
<1>5. N \in M
  <2>1. \A k \in 0 .. N : k \in M
    <3> HIDE DEF M, N
    <3>. QED BY <1>1, <1>3, <1>4, Upto
  <2>. QED BY <1>1, <2>1
<1>6. IsHalf(dn[N], src, run, up, 0, whole)
  BY <1>1, <1>5
<1>7. EndBefore(run, 0 + 1) = 0
  BY DEF EndBefore
<1>8. dn[N] \in Seq(Line) /\ whole = up[0] \o SubSeq(dn[N], 1, Len(dn[N]))
  <2>1. /\ dn[N] \in Seq(Line)
        /\ whole = up[0] \o SubSeq(dn[N], EndBefore(run, 0 + 1) + 1, Len(dn[N]))
    BY <1>6 DEF IsHalf
  <2>2. EndBefore(run, 0 + 1) + 1 = 1
    BY <1>7
  <2>. QED BY <2>1, <2>2, Zenon
<1>9. up[0] = <<>>
  <2>1. 0 \in 0 .. N
    BY <1>1
  <2>. QED BY <2>1 DEF IsUp
<1> DEFINE x == dn[N]
           c == SubSeq(x, 0 + 1, Len(x))
<1>10. c = x
  <2>0. Len(x) \in Nat
    BY <1>8
  <2>1. IsCut(c, Line, x, 0, Len(x))
    BY <1>8, <2>0, SubSeqFacts
  <2> HIDE DEF c, x
  <2>2. c \in Seq(Line) /\ Len(c) = Len(x) /\ \A i \in 1 .. Len(x) : c[i] = x[i]
    BY <2>0, <2>1 DEF IsCut
  <2>. QED BY <1>8, <2>2, SameSeq DEF x
<1>11. <<>> \o x = x
  BY <1>8, ConcatEmptySeq
<1>12. SubSeq(dn[N], 1, Len(dn[N])) = x
  BY <1>10
<1>. QED
  BY <1>8, <1>9, <1>11, <1>12 DEF whole

LEMMA ReverseFacts ==
  ASSUME NEW S, NEW run \in Seq(S)
  PROVE  Len(Reverse(run)) = Len(run) /\ ToSet(Reverse(run)) = ToSet(run)
<1> DEFINE N == Len(run)
           down == Reverse(run)
<1>1. N \in Nat /\ DOMAIN run = 1 .. N
  OBVIOUS
<1>2. down = [k \in 1 .. N |-> run[(N - k) + 1]]
  BY DEF Reverse
<1>3. Len(down) = N /\ DOMAIN down = 1 .. N /\ \A k \in 1 .. N : down[k] = run[(N - k) + 1]
  BY <1>1, <1>2
<1> HIDE DEF down
<1>4. ASSUME NEW k \in 1 .. N PROVE (N - k) + 1 \in 1 .. N /\ down[(N - k) + 1] = run[k]
  <2> DEFINE m == (N - k) + 1
  <2>1. m \in 1 .. N /\ (N - m) + 1 = k
    BY <1>1
  <2> HIDE DEF m
  <2>2. down[m] = run[k]
    BY <1>3, <2>1
  <2>. QED BY <2>1, <2>2 DEF m
<1>5. ToSet(run) = {run[k] : k \in 1 .. N} /\ ToSet(down) = {down[k] : k \in 1 .. N}
  BY <1>1, <1>3 DEF ToSet
<1>6. {down[k] : k \in 1 .. N} = {run[k] : k \in 1 .. N}
  <2>1. ASSUME NEW k \in 1 .. N PROVE \E m \in 1 .. N : down[k] = run[m]
    <3>1. (N - k) + 1 \in 1 .. N
      BY <1>4
    <3>. QED BY <1>3, <3>1
  <2>2. ASSUME NEW k \in 1 .. N PROVE \E m \in 1 .. N : run[k] = down[m]
    <3>1. (N - k) + 1 \in 1 .. N /\ down[(N - k) + 1] = run[k]
      BY <1>4
    <3>. QED BY <3>1
  <2> HIDE DEF N
  <2>3. ASSUME NEW k \in 1 .. N PROVE down[k] \in {run[m] : m \in 1 .. N}
    <3>1. PICK m \in 1 .. N : down[k] = run[m]
      BY <2>1
    <3>. QED BY ONLY <3>1, m \in 1 .. N
  <2>4. ASSUME NEW k \in 1 .. N PROVE run[k] \in {down[m] : m \in 1 .. N}
    <3>1. PICK m \in 1 .. N : run[k] = down[m]
      BY <2>2
    <3>. QED BY ONLY <3>1, m \in 1 .. N
  <2>. QED BY ONLY <2>3, <2>4
<1>. QED
  BY <1>3, <1>5, <1>6 DEF down

\* What a commit writes is a text, and it is the text every queued edit makes.
LEMMA AssembleFacts ==
  ASSUME NEW src \in Seq(Line), NEW queue \in Seq(EditsOf(src)), Compatible(queue), queue # <<>>
  PROVE  LET down == Reverse(Sorted(queue, Len(src)))
             text[n \in 0 .. Len(down)] ==
               IF n = 0 THEN src
               ELSE Splice(text[n - 1], down[n].from, down[n].to, down[n].with)
         IN  /\ ToSet(down) = ToSet(queue)
             /\ Assemble(src, queue) = text[Len(down)]
             /\ Assemble(src, queue) \in Seq(Line)
<1> DEFINE run == Sorted(queue, Len(src))
           N == Len(run)
           down == Reverse(run)
           up == CHOOSE text : IsUp(text, src, run, N)
           dn == CHOOSE text : IsDown(text, src, down, N)
           text[n \in 0 .. Len(down)] ==
               IF n = 0 THEN src
               ELSE Splice(text[n - 1], down[n].from, down[n].to, down[n].with)
<1>1. run \in Seq(EditsOf(src)) /\ InOrder(run) /\ ToSet(run) = ToSet(queue)
  BY SortedFacts
<1>2. Assemble(src, queue)
        = (CHOOSE t : IsUp(t, src, run, Len(run)))[Len(run)] \o SubSeq(src, Last(run).to + 1, Len(src))
  BY DEF Assemble, IsUp, Grown, EndBefore
<1>3. text = (CHOOSE t : IsDown(t, src, down, Len(down)))
  BY DEF IsDown, Spliced
<1> HIDE DEF run, text
<1>4. Len(down) = N /\ ToSet(down) = ToSet(run) /\ N \in Nat
  BY <1>1, ReverseFacts
<1>5. IsUp(up, src, run, N)
  <2>1. \E t : IsUp(t, src, run, N)
    BY <1>4, UpExists
  <2>. QED BY <2>1
<1>6. IsDown(dn, src, down, N)
  <2>1. \E t : IsDown(t, src, down, N)
    BY <1>4, DownExists
  <2>. QED BY <2>1
<1>7. text = dn /\ Assemble(src, queue) = up[N] \o SubSeq(src, Last(run).to + 1, Len(src))
  BY <1>2, <1>3, <1>4
<1> HIDE DEF up, dn
<1>8. N # 0
  <2>1. queue[1] \in ToSet(queue)
    BY DEF ToSet
  <2>2. DOMAIN run = 1 .. N
    BY <1>1
  <2>3. \E k \in 1 .. N : run[k] = queue[1]
    BY <1>1, <2>1, <2>2 DEF ToSet
  <2>. QED BY <1>4, <2>3
<1>9. EndBefore(run, N + 1) = Last(run).to
  BY <1>4, <1>8 DEF EndBefore, Last
<1>10. dn[N] \in Seq(Line) /\ dn[N] = up[N] \o SubSeq(src, EndBefore(run, N + 1) + 1, Len(src))
  BY <1>1, <1>5, <1>6, UpIsDown
<1>11. text[Len(down)] = dn[N]
  BY <1>4, <1>7
<1>12. ToSet(down) = ToSet(queue) /\ Assemble(src, queue) = text[Len(down)] /\ Assemble(src, queue) \in Seq(Line)
  BY <1>1, <1>4, <1>7, <1>9, <1>10, <1>11
<1>. QED
  BY <1>12 DEF text, run

(***************************************************************************)
(* Spelling: texts that load alike.                                        *)
(***************************************************************************)
\* What one line's node loads as, given the nodes of the others.  A text has
\* one such assignment, found by aliases to lines above and items below; the
\* lemmas here compare the equations of two texts and never solve them.
IsBody(body, node, src, items) ==
  body = [j \in 0 .. Len(items) |->
            IF j = 0 THEN <<>>
            ELSE IF src[items[j]].at = "empty" THEN body[j - 1]
            ELSE body[j - 1] \o node[items[j]]]
BodyOf(node, src, items) == (CHOOSE body : IsBody(body, node, src, items))[Len(items)]
NodeOf(node, src, i) ==
  IF src[i].ref # None THEN node[Definition(src, i, src[i].ref)]
  ELSE IF src[i].at = "entry" /\ Items(src, i) # <<>>
       THEN <<"[">> \o BodyOf(node, src, Items(src, i)) \o <<"]">>
  ELSE <<src[i].val>>
IsLoad(node, src) == node = [i \in Lines(src) |-> NodeOf(node, src, i)]

LEMMA LoadedFacts ==
  ASSUME NEW src
  PROVE  Loaded(src) = CHOOSE node : IsLoad(node, src)
BY DEF Loaded, IsLoad, NodeOf, BodyOf, IsBody

\* The same lines with the same keys: only marks and scalars may differ.
SamePlaces(src, new) ==
  /\ src \in Seq(Line) /\ new \in Seq(Line) /\ Lines(new) = Lines(src)
  /\ \A l \in Lines(src) : new[l].at = src[l].at /\ new[l].key = src[l].key

LEMMA PlacesFacts ==
  ASSUME NEW src, NEW new, SamePlaces(src, new)
  PROVE  /\ Entries(new) = Entries(src) /\ NullRoot(new) = NullRoot(src)
         /\ \A k : Winner(new, k) = Winner(src, k)
         /\ \A l : Owner(new, l) = Owner(src, l)
         /\ \A l : Items(new, l) = Items(src, l) /\ IsCollection(new, l) = IsCollection(src, l)
         /\ \A node, l : BodyOf(node, new, Items(src, l)) = BodyOf(node, src, Items(src, l))
<1>1. /\ src \in Seq(Line) /\ new \in Seq(Line) /\ Lines(new) = Lines(src)
      /\ \A l \in Lines(src) : new[l].at = src[l].at /\ new[l].key = src[l].key
  BY DEF SamePlaces
<1>2. Entries(new) = Entries(src)
  BY <1>1 DEF Entries
<1>3. NullRoot(new) = NullRoot(src)
  BY <1>1 DEF NullRoot
<1>4. ASSUME NEW k PROVE Winner(new, k) = Winner(src, k)
  <2>1. \A i \in Entries(src) : new[i].key = src[i].key
    BY <1>1 DEF Entries
  <2>2. {i \in Entries(new) : new[i].key = k} = {i \in Entries(src) : src[i].key = k}
    BY <1>2, <2>1
  <2>. QED BY <2>2 DEF Winner
<1>5. \A l : Owner(new, l) = Owner(src, l)
  BY <1>2 DEF Owner
<1>6. Len(new) = Len(src)
  <2>1. Len(new) \in Nat /\ Len(src) \in Nat /\ Lines(new) = 1 .. Len(new) /\ Lines(src) = 1 .. Len(src)
    BY <1>1, LinesFacts
  <2>2. 1 .. Len(new) = 1 .. Len(src)
    BY <1>1, <2>1
  <2>3. Len(src) # 0 => Len(src) \in 1 .. Len(new)
    BY <2>1, <2>2
  <2>4. Len(new) # 0 => Len(new) \in 1 .. Len(src)
    BY <2>1, <2>2
  <2>. QED BY <2>1, <2>3, <2>4
<1>7. ASSUME NEW l PROVE Items(new, l) = Items(src, l)
  <2>1. {j \in Lines(new) : new[j].at \in {"item", "empty"} /\ j > l /\ Owner(new, j) = l}
          = {j \in Lines(src) : src[j].at \in {"item", "empty"} /\ j > l /\ Owner(src, j) = l}
    BY <1>1, <1>5
  <2>. QED BY <1>6, <2>1 DEF Items
<1>8. \A l : IsCollection(new, l) = IsCollection(src, l)
  BY <1>7 DEF IsCollection
<1>9. ASSUME NEW node, NEW l
      PROVE  BodyOf(node, new, Items(src, l)) = BodyOf(node, src, Items(src, l))
  <2> DEFINE items == Items(src, l)
  <2>1. Len(items) \in Nat /\ \A n \in 1 .. Len(items) : items[n] \in Lines(src)
    BY <1>1, ItemsFacts
  <2> HIDE DEF items
  <2>2. ASSUME NEW body
        PROVE  IsBody(body, node, new, items) <=> IsBody(body, node, src, items)
    <3> DEFINE Next1(text, j) == IF j = 0 THEN <<>>
                                 ELSE IF text[items[j]].at = "empty" THEN body[j - 1]
                                 ELSE body[j - 1] \o node[items[j]]
    <3>1. ASSUME NEW j \in 0 .. Len(items) PROVE Next1(new, j) = Next1(src, j)
      <4>1. j # 0 => j \in 1 .. Len(items)
        BY <2>1
      <4>2. j # 0 => new[items[j]].at = src[items[j]].at
        BY <1>1, <2>1, <4>1
      <4>. QED BY <4>2
    <3>2. /\ IsBody(body, node, new, items) <=> body = [j \in 0 .. Len(items) |-> Next1(new, j)]
          /\ IsBody(body, node, src, items) <=> body = [j \in 0 .. Len(items) |-> Next1(src, j)]
      BY DEF IsBody
    <3> HIDE DEF Next1
    <3>3. [j \in 0 .. Len(items) |-> Next1(new, j)] = [j \in 0 .. Len(items) |-> Next1(src, j)]
      BY <3>1
    <3>. QED BY <3>2, <3>3
  <2>3. (CHOOSE body : IsBody(body, node, new, items)) = (CHOOSE body : IsBody(body, node, src, items))
    BY <2>2, Zenon
  <2>. QED BY <2>3 DEF BodyOf, items
<1>. QED
  BY <1>2, <1>3, <1>4, <1>5, <1>7, <1>8, <1>9

\* Two texts of the same places whose equations have the same solutions load
\* as the same value.
LEMMA SameValue ==
  ASSUME NEW src, NEW new, SamePlaces(src, new), \A node : IsLoad(node, new) <=> IsLoad(node, src)
  PROVE  Value(new) = Value(src)
<1>1. Loaded(new) = Loaded(src)
  <2>1. (CHOOSE node : IsLoad(node, new)) = (CHOOSE node : IsLoad(node, src))
    BY Zenon
  <2>. QED BY <2>1, LoadedFacts
<1>2. /\ Entries(new) = Entries(src) /\ NullRoot(new) = NullRoot(src)
      /\ \A k : Winner(new, k) = Winner(src, k)
  BY PlacesFacts
<1>3. {new[i].key : i \in Entries(new)} = {src[i].key : i \in Entries(src)}
  <2>1. \A i \in Entries(src) : new[i].key = src[i].key
    BY DEF SamePlaces, Entries
  <2>. QED BY <1>2, <2>1
<1>4. [k \in {new[i].key : i \in Entries(new)} |-> Loaded(new)[Winner(new, k)]]
        = [k \in {src[i].key : i \in Entries(src)} |-> Loaded(src)[Winner(src, k)]]
  BY <1>1, <1>2, <1>3
<1>. QED
  BY <1>2, <1>4 DEF Value

\* It is enough that every line's equation is the same.
LEMMA SameEquations ==
  ASSUME NEW src, NEW new, SamePlaces(src, new),
         \A node : \A l \in Lines(src) : NodeOf(node, new, l) = NodeOf(node, src, l)
  PROVE  Value(new) = Value(src)
<1>1. Lines(new) = Lines(src)
  BY DEF SamePlaces
<1>2. ASSUME NEW node PROVE IsLoad(node, new) <=> IsLoad(node, src)
  <2>1. [l \in Lines(new) |-> NodeOf(node, new, l)] = [l \in Lines(src) |-> NodeOf(node, src, l)]
    BY <1>1
  <2>. QED BY <2>1 DEF IsLoad
<1>. QED
  BY <1>2, SameValue

\* A splice that went through leaves the text it made, and its value.
LEMMA ReplacedText ==
  ASSUME NEW d, IsOpen(d), NEW with \in Seq(Line), NEW from \in Nat, NEW to \in Nat
  PROVE  LET r == replace_span(d, from, to, with)
             new == Splice(d.source, from, to, with)
         IN  r = Err(d) \/ (r.doc.source = new /\ r.doc.cache = Value(new))
<1> DEFINE r == replace_span(d, from, to, with)
           new == Splice(d.source, from, to, with)
<1>1. r \in {Err(d), commit_source(d, new)}
  BY DEF replace_span
<1>2. Sound(d, r)
  BY ReplaceSound
<1> HIDE DEF new, r
<1>3. commit_source(d, new) = Err(d) \/ commit_source(d, new).doc.source = new
  BY CommitText
<1>4. r = Err(d) \/ r.doc.source = new
  BY <1>1, <1>3
<1>5. r.doc.cache = Value(r.doc.source)
  BY <1>2 DEF Sound, IsOpen
<1>. QED
  BY <1>4, <1>5 DEF new, r

Respelled(line, old, new) ==
  [line EXCEPT !.anchor = IF @ = old THEN new ELSE @, !.ref = IF @ = old THEN new ELSE @]

\* No anchor has the new name, so no two names become one.
LEMMA RenamedValue ==
  ASSUME NEW src \in Seq(Line), AliasesKnown(src), NEW old \in Names, NEW new \in Names,
         new = old \/ \A i \in Lines(src) : src[i].anchor # new,
         NEW text \in Seq(Line), text = [i \in Lines(src) |-> Respelled(src[i], old, new)]
  PROVE  Value(text) = Value(src)
<1>1. /\ \A l \in Lines(src) : src[l] \in Line /\ l \in Nat /\ l > 0
      /\ Lines(src) = 1 .. Len(src) /\ Len(src) \in Nat
  BY LinesFacts
<1>2. ASSUME NEW l \in Lines(src)
      PROVE  /\ text[l].at = src[l].at /\ text[l].key = src[l].key /\ text[l].val = src[l].val
             /\ text[l].anchor = IF src[l].anchor = old THEN new ELSE src[l].anchor
             /\ text[l].ref = IF src[l].ref = old THEN new ELSE src[l].ref
  <2>1. text[l] = Respelled(src[l], old, new) /\ src[l] \in Line
    BY <1>1
  <2>. QED BY <2>1 DEF Respelled, Line
<1>3. Lines(text) = Lines(src)
  BY DEF Lines
<1>4. SamePlaces(src, text)
  BY <1>2, <1>3 DEF SamePlaces
<1>5. /\ \A l : Owner(text, l) = Owner(src, l)
      /\ \A l : Items(text, l) = Items(src, l) /\ IsCollection(text, l) = IsCollection(src, l)
      /\ \A node, l : BodyOf(node, text, Items(src, l)) = BodyOf(node, src, Items(src, l))
  BY <1>4, PlacesFacts
<1>6. old # None /\ new # None
  BY TextConstants
<1>7. ASSUME NEW l \in Lines(src), src[l].ref # None
      PROVE  Definition(text, l, text[l].ref) = Definition(src, l, src[l].ref)
  <2> DEFINE S(t) == {j \in 1 .. l - 1 : t[j].anchor = t[l].ref
                                          /\ ~(IsCollection(t, j) /\ Owner(t, l) = j)}
  <2>1. \A j \in 1 .. l - 1 : j \in Lines(src)
    BY <1>1
  <2>2. \E j \in Lines(src) : src[j].anchor = src[l].ref
    <3>1. Definition(src, l, src[l].ref) # 0
      BY <1>7 DEF AliasesKnown
    <3>2. S(src) # {}
      BY <3>1 DEF Definition
    <3>. QED BY <2>1, <3>2
  <2>3. new # old => src[l].ref # new /\ \A j \in Lines(src) : src[j].anchor # new
    BY <2>2
  <2>4. ASSUME NEW j \in 1 .. l - 1
        PROVE  text[j].anchor = text[l].ref <=> src[j].anchor = src[l].ref
    BY <1>2, <2>1, <2>3
  <2>5. S(text) = S(src)
    BY <1>5, <2>4
  <2>. QED BY <2>5 DEF Definition
<1>8. ASSUME NEW node, NEW l \in Lines(src) PROVE NodeOf(node, text, l) = NodeOf(node, src, l)
  <2>1. text[l].ref # None <=> src[l].ref # None
    BY <1>2, <1>6
  <2>2. CASE src[l].ref # None
    BY <1>7, <2>1, <2>2 DEF NodeOf
  <2>3. CASE src[l].ref = None
    BY <1>2, <1>5, <2>1, <2>3 DEF NodeOf
  <2>. QED BY <2>2, <2>3
<1>. QED
  BY <1>4, <1>8, SameEquations

LEMMA RenameSpells ==
  ASSUME NEW d, IsOpen(d), NEW old \in Names, NEW new \in Names
  PROVE  rename_anchor(d, old, new).doc.cache = d.cache
<1> DEFINE src == d.source
           with == [i \in Lines(src) |-> Respelled(src[i], old, new)]
           r == replace_span(d, 0, Len(src), with)
           free == new = old \/ \A i \in Lines(src) : src[i].anchor # new
<1>1. rename_anchor(d, old, new) = Err(d) \/ (free /\ rename_anchor(d, old, new) = r)
  BY DEF rename_anchor, Respelled
<1>2. src \in Seq(Line) /\ Len(src) \in Nat /\ Lines(src) = 1 .. Len(src) /\ AliasesKnown(src)
      /\ d.cache = Value(src)
  BY OpenFacts, LinesFacts DEF IsOpen
<1>3. ASSUME NEW line \in Line PROVE Respelled(line, old, new) \in Line
  <2>1. old # None
    BY TextConstants
  <2>. QED BY <2>1 DEF Line, Respelled
<1>4. with \in Seq(Line) /\ Len(with) = Len(src) /\ DOMAIN with = 1 .. Len(src)
  <2>1. \A i \in 1 .. Len(src) : src[i] \in Line
    BY <1>2
  <2>. QED BY <1>2, <1>3, <2>1
<1>5. free => Value(with) = Value(src)
  <2>1. with = [i \in Lines(src) |-> Respelled(src[i], old, new)]
    OBVIOUS
  <2> HIDE DEF with
  <2>2. CASE new = old
    BY <1>2, <1>4, <2>1, <2>2, RenamedValue, SMTT(60)
  <2>3. CASE \A i \in Lines(src) : src[i].anchor # new
    BY <1>2, <1>4, <2>1, <2>3, RenamedValue, SMTT(60)
  <2>. QED BY <2>2, <2>3
<1>6. Splice(src, 0, Len(src), with) = with
  <2> HIDE DEF with
  <2> DEFINE t == Splice(src, 0, Len(src), with)
  <2>1. IsSplice(t, Line, src, 0, Len(src), with)
    BY <1>2, <1>4, SpliceFacts
  <2> HIDE DEF t
  <2>2. t \in Seq(Line) /\ Len(t) = Len(with) /\ \A i \in 1 .. Len(with) : t[i] = with[i]
    BY <1>2, <1>4, <2>1 DEF IsSplice
  <2>3. t = with
    BY <1>4, <2>2, SameSeq
  <2>. QED BY <2>3 DEF t
<1> HIDE DEF with
<1>7. r = Err(d) \/ r.doc.cache = Value(with)
  <2>1. r = Err(d) \/ r.doc.cache = Value(Splice(src, 0, Len(src), with))
    BY <1>2, <1>4, ReplacedText
  <2>. QED BY <1>6, <2>1
<1>8. Err(d).doc = d
  BY DEF Err
<1> HIDE DEF r, free
<1>. QED
  BY <1>1, <1>2, <1>5, <1>7, <1>8

\* Line i of src is an alias, in text it is the scalar of line j.
WrittenOut(src, text, i, j) ==
  /\ text \in Seq(Line) /\ Lines(text) = Lines(src)
  /\ \A l \in Lines(src) : l # i => text[l] = src[l]
  /\ text[i] = [src[i] EXCEPT !.ref = None, !.val = src[j].val]

\* An alias written out: its line loads as the scalar its anchor's line has,
\* and that line is the one the alias named.
LEMMA WrittenValue ==
  ASSUME NEW src \in Seq(Line), AliasesKnown(src), WellFormed(src),
         NEW i \in Lines(src), src[i].ref # None, NEW j, j = anchored_scalar_text(src, src[i].ref, i),
         ~IsCollection(src, j), src[j].val # Null,
         NEW text, WrittenOut(src, text, i, j)
  PROVE  Value(text) = Value(src)
<1> DEFINE name == src[i].ref
           S == {k \in 1 .. i - 1 : src[k].anchor = name}
           T == {k \in 1 .. i - 1 : src[k].anchor = name /\ ~(IsCollection(src, k) /\ Owner(src, i) = k)}
<1>0. /\ text \in Seq(Line) /\ Lines(text) = Lines(src)
      /\ \A l \in Lines(src) : l # i => text[l] = src[l]
      /\ text[i] = [src[i] EXCEPT !.ref = None, !.val = src[j].val]
  BY DEF WrittenOut
<1>1. /\ \A l \in Lines(src) : src[l] \in Line /\ l \in Nat /\ l > 0
      /\ Lines(src) = 1 .. Len(src) /\ Len(src) \in Nat
      /\ \A k \in 1 .. i - 1 : k \in Lines(src) /\ k \in 0 .. Len(src)
  BY LinesFacts
<1>2. Definition(src, i, name) = j /\ j \in Lines(src) /\ j < i
  <2>1. Definition(src, i, name) # 0
    BY DEF AliasesKnown
  <2>2. T # {} /\ Definition(src, i, name) = Largest(T)
    BY <2>1 DEF Definition
  <2>3. S # {} /\ j = Largest(S) /\ (\A k \in S : k \in 0 .. Len(src)) /\ \A k \in T : k \in 0 .. Len(src)
    BY <1>1, <2>2 DEF anchored_scalar_text
  <2> DEFINE a == Largest(S)
             b == Largest(T)
  <2>4. a \in S /\ \A k \in S : k <= a
    <3> HIDE DEF S
    <3>. QED BY <1>1, <2>3, LargestFacts
  <2>5. b \in T /\ \A k \in T : k <= b
    <3> HIDE DEF T
    <3>. QED BY <1>1, <2>2, <2>3, LargestFacts
  <2>6. a = j /\ a \in T
    BY <2>3, <2>4
  <2>7. b \in S
    BY <2>5
  <2> HIDE DEF a, b
  <2>8. a \in Nat /\ b \in Nat /\ b <= a /\ a <= b
    BY <1>1, <2>4, <2>5, <2>6, <2>7
  <2>9. a = b
    BY <2>8
  <2>. QED BY <1>1, <2>2, <2>6, <2>9 DEF b
<1> HIDE DEF S, T
<1>3. src[j] \in Line /\ src[i] \in Line /\ src[j].ref = None
  BY <1>1, <1>2 DEF Line
<1>4. /\ text[i].at = src[i].at /\ text[i].key = src[i].key /\ text[i].anchor = src[i].anchor
      /\ text[i].ref = None /\ text[i].val = src[j].val
  BY <1>0, <1>3 DEF Line
<1>5. \A l \in Lines(src) : /\ text[l].at = src[l].at /\ text[l].key = src[l].key
                            /\ text[l].anchor = src[l].anchor
  BY <1>0, <1>4
<1>6. SamePlaces(src, text)
  BY <1>0, <1>5 DEF SamePlaces
<1>7. /\ \A l : Owner(text, l) = Owner(src, l)
      /\ \A l : Items(text, l) = Items(src, l) /\ IsCollection(text, l) = IsCollection(src, l)
      /\ \A node, l : BodyOf(node, text, Items(src, l)) = BodyOf(node, src, Items(src, l))
  BY <1>6, PlacesFacts
<1>8. ASSUME NEW l \in Lines(src), NEW n PROVE Definition(text, l, n) = Definition(src, l, n)
  <2> DEFINE B(t) == {k \in 1 .. l - 1 : t[k].anchor = n /\ ~(IsCollection(t, k) /\ Owner(t, l) = k)}
  <2>1. \A k \in 1 .. l - 1 : k \in Lines(src)
    BY <1>1
  <2>2. B(text) = B(src)
    BY <1>5, <1>7, <2>1
  <2>. QED BY <2>2 DEF Definition
<1>9. ASSUME NEW node, NEW l \in Lines(src), l # i PROVE NodeOf(node, text, l) = NodeOf(node, src, l)
  BY <1>0, <1>7, <1>8, <1>9 DEF NodeOf
<1>10. Items(src, i) = <<>>
  <2> DEFINE items == Items(src, i)
  <2>1. /\ items \in Seq(Lines(src)) /\ Len(items) \in Nat
        /\ \A n \in 1 .. Len(items) :
             items[n] \in Lines(src) /\ src[items[n]].at \in {"item", "empty"} /\ Owner(src, items[n]) = i
    BY ItemsFacts
  <2>2. ASSUME NEW l \in Lines(src), src[l].at \in {"item", "empty"}, Owner(src, l) = i PROVE FALSE
    <3>1. i # 0
      BY <1>1
    <3>2. src[i].ref = None
      BY <2>2, <3>1 DEF WellFormed
    <3>. QED BY <3>2
  <2> HIDE DEF items
  <2>3. Len(items) = 0
    <3>1. Len(items) # 0 => 1 \in 1 .. Len(items)
      BY <2>1
    <3>. QED BY <2>1, <2>2, <3>1
  <2>4. items = <<>>
    BY <2>1, <2>3
  <2>. QED BY <2>4 DEF items
<1>11. ASSUME NEW node PROVE NodeOf(node, text, i) = <<src[j].val>>
  BY <1>4, <1>7, <1>10 DEF NodeOf
<1>12. ASSUME NEW node PROVE NodeOf(node, src, i) = node[j] /\ NodeOf(node, src, j) = <<src[j].val>>
  BY <1>2, <1>3 DEF NodeOf, IsCollection
<1>13. j # i
  BY <1>1, <1>2
<1>14. ASSUME NEW node PROVE IsLoad(node, text) <=> IsLoad(node, src)
  <2>1. ASSUME IsLoad(node, src) PROVE \A l \in Lines(src) : NodeOf(node, text, l) = NodeOf(node, src, l)
    <3>1. node[j] = <<src[j].val>>
      BY <1>2, <1>12, <2>1 DEF IsLoad
    <3>. QED BY <1>9, <1>11, <1>12, <3>1
  <2>2. ASSUME IsLoad(node, text) PROVE \A l \in Lines(src) : NodeOf(node, text, l) = NodeOf(node, src, l)
    <3>1. node[j] = <<src[j].val>>
      <4>1. node[j] = NodeOf(node, text, j)
        BY <1>0, <1>2, <2>2 DEF IsLoad
      <4>. QED BY <1>2, <1>9, <1>12, <1>13, <4>1
    <3>. QED BY <1>9, <1>11, <1>12, <3>1
  <2>3. ASSUME \A l \in Lines(src) : NodeOf(node, text, l) = NodeOf(node, src, l)
        PROVE  IsLoad(node, text) <=> IsLoad(node, src)
    <3>1. [l \in Lines(text) |-> NodeOf(node, text, l)] = [l \in Lines(src) |-> NodeOf(node, src, l)]
      BY <1>0, <2>3
    <3>. QED BY <3>1 DEF IsLoad
  <2>. QED BY <2>1, <2>2, <2>3
<1>. QED
  BY <1>6, <1>14, SameValue

LEMMA MaterialiseSpells ==
  ASSUME NEW d, IsOpen(d), NEW i \in Lines(d.source), d.source[i].ref # None
  PROVE  materialise_alias_at(d, i).doc.cache = d.cache
<1> DEFINE src == d.source
           j == anchored_scalar_text(src, src[i].ref, i)
           line == [src[i] EXCEPT !.ref = None, !.val = src[j].val]
           with == <<line>>
           r == replace_span(d, i - 1, i, with)
           text == Splice(src, i - 1, i, with)
           done == ~IsCollection(src, j) /\ src[j].val # Null
<1>1. /\ src \in Seq(Line) /\ AliasesKnown(src) /\ WellFormed(src) /\ d.cache = Value(src)
      /\ i \in Nat /\ i > 0 /\ i <= Len(src) /\ src[i] \in Line
      /\ Len(src) \in Nat /\ Lines(src) = 1 .. Len(src) /\ i - 1 \in Nat
  BY OpenFacts, LinesFacts DEF IsOpen
<1>2. materialise_alias_at(d, i) = Err(d) \/ (done /\ materialise_alias_at(d, i) = r)
  BY DEF materialise_alias_at, ReplaceLine
<1>3. j \in Lines(src)
  BY AnchorLine
<1>4. line \in Line
  <2>1. src[j] \in Line
    BY <1>1, <1>3, LinesFacts
  <2> HIDE DEF j
  <2>. QED BY <1>1, <2>1 DEF Line
<1> HIDE DEF line
<1>5. with \in Seq(Line) /\ Len(with) = 1 /\ with[1] = line
  BY <1>4
<1> HIDE DEF with
<1>6. r = Err(d) \/ r.doc.cache = Value(text)
  BY <1>1, <1>5, ReplacedText
<1>7. text \in Seq(Line) /\ Lines(text) = Lines(src) /\ text[i] = line
      /\ \A l \in Lines(src) : l # i => text[l] = src[l]
  BY <1>1, <1>5, OneLine
<1>8. done => Value(text) = Value(src)
  <2>1. j = anchored_scalar_text(src, src[i].ref, i)
    OBVIOUS
  <2> HIDE DEF text, j
  <2>2. text[i] = [src[i] EXCEPT !.ref = None, !.val = src[j].val]
    BY <1>7 DEF line
  <2>3. WrittenOut(src, text, i, j)
    BY <1>7, <2>2 DEF WrittenOut
  <2> SUFFICES ASSUME ~IsCollection(src, j), src[j].val # Null PROVE Value(text) = Value(src)
    OBVIOUS
  <2>. QED BY <1>1, <2>1, <2>3, WrittenValue
<1> HIDE DEF text, j
<1>9. Err(d).doc = d
  BY DEF Err
<1> HIDE DEF done, r
<1>. QED
  BY <1>1, <1>2, <1>6, <1>8, <1>9

\* The batch may stop half way, and the document it leaves agrees all the same, and
\* loads as before.
LEMMA BatchOpen ==
  ASSUME NEW d, IsOpen(d), NEW name \in Names
  PROVE  /\ IsOpen(materialise_aliases_of(d, name).doc)
         /\ materialise_aliases_of(d, name).doc.cache = d.cache
<1> DEFINE src == d.source
           sites == Reverse(Ascending(aliases_of(src, name), Len(src)))
           n == Len(sites)
           batch == CHOOSE b : IsBatch(b, d, sites, n)
           Kept(k) == LET now == batch[k].doc.source
                      IN  /\ Lines(now) = Lines(src)
                          /\ \A l \in Lines(src) :
                               (\A m \in 1 .. k : sites[m] # l) => now[l] = src[l]
           M == {k \in 0 .. n : IsOpen(batch[k].doc) /\ batch[k].doc.cache = d.cache /\ Kept(k)}
<1>1. src \in Seq(Line)
  BY OpenFacts
<1>2. /\ n \in Nat /\ \A k \in 1 .. n : sites[k] \in Lines(src) /\ src[sites[k]].ref = name
      /\ \A k, m \in 1 .. n : k < m => sites[k] # sites[m]
  BY <1>1, SitesFacts
<1>3. materialise_aliases_of(d, name) = (CHOOSE b : IsBatch(b, d, sites, n))[n]
  BY DEF materialise_aliases_of, IsBatch, Written
<1> HIDE DEF sites
<1>4. IsBatch(batch, d, sites, n)
  <2>1. \E b : IsBatch(b, d, sites, n)
    BY <1>2, BatchExists
  <2>. QED BY <2>1
<1>5. materialise_aliases_of(d, name) = batch[n]
  BY <1>3
<1> HIDE DEF batch, n
<1>6. \A k \in 0 .. n : batch[k] = IF k = 0 THEN Ok(d) ELSE Written(batch[k - 1], sites[k])
  BY <1>4 DEF IsBatch
<1>7. 0 \in M
  <2>1. 0 \in 0 .. n /\ batch[0] = Ok(d)
    BY <1>2, <1>6
  <2>2. Ok(d).doc = d
    BY DEF Ok
  <2>. QED BY <2>1, <2>2
<1>8. ASSUME NEW k \in 1 .. n, k - 1 \in M PROVE k \in M
  <2> DEFINE r == batch[k - 1]
             i == sites[k]
             now == r.doc.source
             x == materialise_alias_at(r.doc, i)
  <2>1. IsOpen(r.doc) /\ r.doc.cache = d.cache /\ Kept(k - 1) /\ k \in 0 .. n /\ k # 0
    BY <1>8
  <2>2. batch[k] = IF ~r.ok THEN r ELSE x
    BY <1>6, <2>1 DEF Written
  <2>3. i \in Lines(src) /\ i \in Lines(now) /\ now[i] = src[i] /\ src[i].ref = name
    <3>1. \A m \in 1 .. k - 1 : m \in 1 .. n /\ m < k
      BY <1>2
    <3>2. \A m \in 1 .. k - 1 : sites[m] # i
      BY <1>2, <3>1
    <3>. QED BY <1>2, <2>1, <3>2
  <2>4. now[i].ref # None
    BY <2>3, TextConstants
  <2>5. /\ IsOpen(x.doc) /\ Lines(x.doc.source) = Lines(now)
        /\ \A l \in Lines(now) : l # i => x.doc.source[l] = now[l]
    BY <2>1, <2>3, <2>4, MaterialiseSound DEF Sound
  <2>9. x.doc.cache = d.cache
    BY <2>1, <2>3, <2>4, MaterialiseSpells
  <2> HIDE DEF r, x
  <2>6. \A l \in Lines(src) : (\A m \in 1 .. k : sites[m] # l) => (l # i /\ \A m \in 1 .. k - 1 : sites[m] # l)
    <3>1. k \in 1 .. k /\ \A m \in 1 .. k - 1 : m \in 1 .. k
      OBVIOUS
    <3>. QED BY <3>1
  <2>7. CASE ~r.ok
    BY <2>1, <2>2, <2>6, <2>7 DEF r
  <2>8. CASE r.ok
    <3>1. batch[k] = x
      BY <2>2, <2>8
    <3>2. \A l \in Lines(src) : (\A m \in 1 .. k - 1 : sites[m] # l) => now[l] = src[l]
      BY <2>1 DEF r
    <3>3. Lines(now) = Lines(src)
      BY <2>1 DEF r
    <3>. QED BY <2>1, <2>5, <2>6, <2>9, <3>1, <3>2, <3>3
  <2>. QED BY <2>7, <2>8
<1>9. n \in M
  <2> HIDE DEF M
  <2>. QED BY <1>2, <1>7, <1>8, Upto
<1>. QED
  BY <1>5, <1>9

LEMMA GuardSpells ==
  ASSUME NEW d, NEW r
  PROVE  Guarded(d, r, d.cache).doc.cache = d.cache
BY DEF Guarded, oracle_rejects, Err

LEMMA CommentSpells ==
  ASSUME NEW d, IsOpen(d), NEW key, NEW index \in Nat
  PROVE  /\ set_leading_comment(d, key).doc.cache = d.cache
         /\ remove_leading_comment(d, key).doc.cache = d.cache
         /\ set_comment(d, key, index).doc.cache = d.cache
         /\ remove_comment(d, key, index).doc.cache = d.cache
<1>1. Err(d).doc = d /\ Ok(d).doc = d /\ ~Err(d).ok
  BY DEF Err, Ok
<1>2. /\ set_leading_comment(d, key).doc.cache = d.cache
      /\ remove_leading_comment(d, key).doc.cache = d.cache
  <2>1. ASSUME NEW r PROVE finish_comment_edit(d, r).doc.cache = d.cache
    BY GuardSpells DEF finish_comment_edit
  <2>. QED BY <1>1, <2>1 DEF set_leading_comment, remove_leading_comment
<1>3. ASSUME NEW r, Sound(d, guarded_comment_edit(d, r)) PROVE guarded_comment_edit(d, r).doc.cache = d.cache
  <2> DEFINE g == guarded_comment_edit(d, r)
  <2>1. g = Err(d) \/ ~g.ok \/ Value(g.doc.source) = Value(d.source)
    BY DEF guarded_comment_edit
  <2> HIDE DEF g
  <2>2. d.cache = Value(d.source) /\ g.doc.cache = Value(g.doc.source) /\ (g.ok \/ g.doc = d)
    BY <1>3 DEF Sound, IsOpen, g
  <2>3. g.doc.cache = d.cache
    BY <1>1, <2>1, <2>2
  <2>. QED BY <2>3 DEF g
<1>4. Sound(d, set_comment(d, key, index)) /\ Sound(d, remove_comment(d, key, index))
  BY CommentSound
<1>5. set_comment(d, key, index).doc.cache = d.cache
  BY <1>1, <1>3, <1>4 DEF set_comment
<1>6. remove_comment(d, key, index).doc.cache = d.cache
  BY <1>1, <1>3, <1>4 DEF remove_comment
<1>. QED
  BY <1>2, <1>5, <1>6

(***************************************************************************)
(* The invariant, and what every step keeps.                               *)
(***************************************************************************)

\* The document agrees with itself, and what the session has queued lies in the
\* text the session was opened on, no two edits in conflict.  A call finds no
\* session open, so a queue never outlives the text it was measured against.
SessionFits(s, src) ==
  s \in [open : BOOLEAN, queue : Seq(EditsOf(src))] /\ Compatible(s.queue)
IInv == IsOpen(doc) /\ SessionFits(session, doc.source)

\* What the theorems below need of one step.
FailureChangesNothing == ~last'.ok /\ last'.op # "batch" => doc' = doc
SpellingKept == last'.op \in {"marks", "batch"} => doc'.cache = doc.cache
StepKeeps == IInv' /\ FailureChangesNothing /\ SpellingKept

LEMMA NoSessionFits ==
  ASSUME NEW src
  PROVE  SessionFits(NoSession, src)
<1>1. <<>> \in Seq(EditsOf(src)) /\ DOMAIN <<>> = {}
  OBVIOUS
<1>2. NoSession.queue = <<>> /\ NoSession \in [open : BOOLEAN, queue : Seq(EditsOf(src))]
  BY <1>1 DEF NoSession
<1>. QED
  BY <1>1, <1>2 DEF SessionFits, Compatible

LEMMA CallKeeps ==
  ASSUME IInv, NEW op, NEW key, NEW index, NEW r, Call(op, key, index, r),
         IsOpen(r.doc), op = "batch" \/ r.ok \/ r.doc = doc,
         op \in {"marks", "batch"} => r.doc.cache = doc.cache
  PROVE  StepKeeps
<1>1. session = NoSession /\ session' = session /\ doc' = r.doc
      /\ last' = [op |-> op, key |-> key, index |-> index, ok |-> r.ok]
  BY DEF Call
<1>2. last'.op = op /\ last'.ok = r.ok
  BY <1>1
<1>3. SessionFits(session', doc'.source)
  BY <1>1, NoSessionFits
<1>4. IInv'
  BY <1>1, <1>3 DEF IInv
<1>. QED
  BY <1>1, <1>2, <1>4 DEF StepKeeps, FailureChangesNothing, SpellingKept

LEMMA SoundCallKeeps ==
  ASSUME IInv, NEW op, NEW key, NEW index, NEW r, Call(op, key, index, r), Sound(doc, r),
         op \notin {"marks", "batch"} \/ r.doc.cache = doc.cache
  PROVE  StepKeeps
BY CallKeeps DEF Sound

LEMMA Arguments ==
  /\ \A p \in Paths : p[1] \in Keys /\ p[2] \in Nat
  /\ \A f \in Fragments : f \in Fragment
  /\ \A v, w \in Scalars : <<v, w>> \in Seq(Scalars)
<1>1. \A p \in Paths : p[1] \in Keys /\ p[2] \in Nat
  BY TextConstants DEF Paths
<1>2. \A f \in Fragments : f \in Fragment
  BY DocumentConstants DEF Fragment
<1>. QED
  BY <1>1, <1>2

LEMMA AppendCompatible ==
  ASSUME NEW S, NEW q \in Seq(S), NEW e \in S, Compatible(q),
         \A n \in DOMAIN q : Apart(q[n], e) /\ Apart(e, q[n])
  PROVE  Append(q, e) \in Seq(S) /\ Compatible(Append(q, e))
<1> DEFINE t == Append(q, e)
<1>1. /\ t \in Seq(S) /\ Len(q) \in Nat /\ DOMAIN q = 1 .. Len(q) /\ DOMAIN t = 1 .. Len(q) + 1
      /\ (\A n \in 1 .. Len(q) : t[n] = q[n]) /\ t[Len(q) + 1] = e
  OBVIOUS
<1> HIDE DEF t
<1>2. ASSUME NEW m \in DOMAIN t, NEW n \in DOMAIN t, m # n PROVE Apart(t[m], t[n])
  <2>1. m \in 1 .. Len(q) \/ m = Len(q) + 1
    BY <1>1
  <2>2. n \in 1 .. Len(q) \/ n = Len(q) + 1
    BY <1>1
  <2>3. CASE m \in 1 .. Len(q) /\ n \in 1 .. Len(q)
    BY <1>1, <1>2, <2>3 DEF Compatible
  <2>4. CASE m \in 1 .. Len(q) /\ n = Len(q) + 1
    BY <1>1, <2>4
  <2>5. CASE n \in 1 .. Len(q) /\ m = Len(q) + 1
    BY <1>1, <2>5
  <2>. QED BY <1>2, <2>1, <2>2, <2>3, <2>4, <2>5
<1>. QED
  BY <1>1, <1>2 DEF Compatible, t

LEMMA NextKeeps == IInv /\ Next => StepKeeps
<1>. SUFFICES ASSUME IInv, Next PROVE StepKeeps
  OBVIOUS
<1>0. IsOpen(doc)
  BY DEF IInv
<1>1. ASSUME SetFragment PROVE StepKeeps
  <2>1. PICK p \in Paths, f \in Fragments :
          Call("set", p[1], p[2], set(doc, p[1], p[2], f))
    BY <1>1 DEF SetFragment
  <2>3. Sound(doc, set(doc, p[1], p[2], f))
    BY <1>0, Arguments, SetSound
  <2>. QED BY <2>1, <2>3, SoundCallKeeps
<1>2. ASSUME SetScalar PROVE StepKeeps
  <2>1. PICK p \in Paths, v \in Scalars :
          Call("set_value", p[1], p[2], set_value(doc, p[1], p[2], v))
    BY <1>2 DEF SetScalar
  <2>3. Sound(doc, set_value(doc, p[1], p[2], v))
    BY <1>0, Arguments, SetValueSound
  <2>. QED BY <2>1, <2>3, SoundCallKeeps
<1>3. ASSUME SetSequence PROVE StepKeeps
  <2>1. PICK k \in Keys, v \in Scalars, w \in Scalars :
          Call("set_value", k, 0, replace_collection_value(doc, k, <<v, w>>))
    BY <1>3 DEF SetSequence
  <2>3. Sound(doc, replace_collection_value(doc, k, <<v, w>>))
    BY <1>0, Arguments, SetSequenceSound
  <2>. QED BY <2>1, <2>3, SoundCallKeeps
<1>4. ASSUME SetPath PROVE StepKeeps
  <2>1. PICK k \in Keys, v \in Scalars :
          Call("set_value", k, 0, set_path(doc, k, v))
    BY <1>4 DEF SetPath
  <2>3. Sound(doc, set_path(doc, k, v))
    BY <1>0, Arguments, SetPathSound
  <2>. QED BY <2>1, <2>3, SoundCallKeeps
<1>5. ASSUME InsertEntry PROVE StepKeeps
  <2>1. PICK k \in Keys, f \in Fragments :
          Call("insert_entry", k, 0, insert_entry(doc, k, f))
    BY <1>5 DEF InsertEntry
  <2>3. Sound(doc, insert_entry(doc, k, f))
    BY <1>0, Arguments, InsertEntrySound
  <2>. QED BY <2>1, <2>3, SoundCallKeeps
<1>6. ASSUME InsertEntryValue PROVE StepKeeps
  <2>1. PICK k \in Keys, v \in Scalars :
          Call("set_value", k, 0, insert_entry_value(doc, k, v))
    BY <1>6 DEF InsertEntryValue
  <2>3. Sound(doc, insert_entry_value(doc, k, v))
    BY <1>0, Arguments, InsertEntryValueSound
  <2>. QED BY <2>1, <2>3, SoundCallKeeps
<1>7. ASSUME EntryOrInsert PROVE StepKeeps
  <2>1. PICK p \in Paths, v \in Scalars :
          p[2] <= 1 /\ Call("set_value", p[1], p[2], or_insert(and_modify(doc, p[1], p[2], v), p[1], p[2]))
    BY <1>7 DEF EntryOrInsert
  <2>2. p[2] \in 0 .. 1
    BY <2>1, Arguments
  <2>3. Sound(doc, or_insert(and_modify(doc, p[1], p[2], v), p[1], p[2]))
    BY <1>0, <2>2, EntrySound
  <2>. QED BY <2>1, <2>3, SoundCallKeeps
<1>8. ASSUME RenameKey PROVE StepKeeps
  <2>1. PICK k \in Keys, n \in Keys :
          Call("rename_key", k, 0, rename_key(doc, k, n))
    BY <1>8 DEF RenameKey
  <2>3. Sound(doc, rename_key(doc, k, n))
    BY <1>0, Arguments, RenameKeySound
  <2>. QED BY <2>1, <2>3, SoundCallKeeps
<1>9. ASSUME RemovePath PROVE StepKeeps
  <2>1. PICK p \in Paths :
          Call("remove", p[1], p[2], remove(doc, p[1], p[2]))
    BY <1>9 DEF RemovePath
  <2>3. Sound(doc, remove(doc, p[1], p[2]))
    BY <1>0, Arguments, RemoveSound
  <2>. QED BY <2>1, <2>3, SoundCallKeeps
<1>10. ASSUME PushBack PROVE StepKeeps
  <2>1. PICK k \in Keys, f \in Fragments :
          Call("push_back", k, 0, push_back(doc, k, f))
    BY <1>10 DEF PushBack
  <2>3. Sound(doc, push_back(doc, k, f))
    BY <1>0, Arguments, PushBackSound
  <2>. QED BY <2>1, <2>3, SoundCallKeeps
<1>11. ASSUME InsertAfter PROVE StepKeeps
  <2>1. PICK k \in Keys, f \in Fragments :
          Call("push_back", k, 0, insert_after(doc, k, 1, f))
    BY <1>11 DEF InsertAfter
  <2>3. Sound(doc, insert_after(doc, k, 1, f))
    BY <1>0, Arguments, InsertAfterSound
  <2>. QED BY <2>1, <2>3, SoundCallKeeps
<1>12. ASSUME PushBackValue PROVE StepKeeps
  <2>1. PICK k \in Keys, v \in Scalars :
          Call("set_value", k, 0, push_back_value(doc, k, v))
    BY <1>12 DEF PushBackValue
  <2>3. Sound(doc, push_back_value(doc, k, v))
    BY <1>0, Arguments, PushBackValueSound
  <2>. QED BY <2>1, <2>3, SoundCallKeeps
<1>13. ASSUME InsertAfterValue PROVE StepKeeps
  <2>1. PICK k \in Keys, v \in Scalars :
          Call("set_value", k, 0, insert_after_value(doc, k, 1, v))
    BY <1>13 DEF InsertAfterValue
  <2>3. Sound(doc, insert_after_value(doc, k, 1, v))
    BY <1>0, Arguments, InsertAfterValueSound
  <2>. QED BY <2>1, <2>3, SoundCallKeeps
<1>14. ASSUME SwapItems PROVE StepKeeps
  <2>1. PICK k \in Keys :
          Call("set_value", k, 0, swap_items(doc, k, 1, 2))
    BY <1>14 DEF SwapItems
  <2>3. Sound(doc, swap_items(doc, k, 1, 2))
    BY <1>0, Arguments, SwapSound
  <2>. QED BY <2>1, <2>3, SoundCallKeeps
<1>15. ASSUME MoveItem PROVE StepKeeps
  <2>1. PICK k \in Keys, i \in 1 .. 3, j \in 1 .. 3 :
          Call("set_value", k, 0, move_item(doc, k, i, j))
    BY <1>15 DEF MoveItem
  <2>3. Sound(doc, move_item(doc, k, i, j))
    BY <1>0, Arguments, MoveSound
  <2>. QED BY <2>1, <2>3, SoundCallKeeps
<1>16. ASSUME RenameAnchor PROVE StepKeeps
  <2>1. PICK m \in Names, n \in Names :
          Call("marks", None, 0, rename_anchor(doc, m, n))
    BY <1>16 DEF RenameAnchor
  <2>3. Sound(doc, rename_anchor(doc, m, n))
    BY <1>0, Arguments, RenameAnchorSound
  <2>4. rename_anchor(doc, m, n).doc.cache = doc.cache
    BY <1>0, RenameSpells
  <2>. QED BY <2>1, <2>3, <2>4, SoundCallKeeps
<1>17. ASSUME SetLeadingComment PROVE StepKeeps
  <2>1. PICK k \in Keys :
          Call("marks", k, 0, set_leading_comment(doc, k))
    BY <1>17 DEF SetLeadingComment
  <2>3. Sound(doc, set_leading_comment(doc, k))
    BY <1>0, Arguments, LeadingCommentSound
  <2>4. set_leading_comment(doc, k).doc.cache = doc.cache
    BY <1>0, CommentSpells
  <2>. QED BY <2>1, <2>3, <2>4, SoundCallKeeps
<1>18. ASSUME RemoveLeadingComment PROVE StepKeeps
  <2>1. PICK k \in Keys :
          Call("marks", k, 0, remove_leading_comment(doc, k))
    BY <1>18 DEF RemoveLeadingComment
  <2>3. Sound(doc, remove_leading_comment(doc, k))
    BY <1>0, Arguments, LeadingCommentSound
  <2>4. remove_leading_comment(doc, k).doc.cache = doc.cache
    BY <1>0, CommentSpells
  <2>. QED BY <2>1, <2>3, <2>4, SoundCallKeeps
<1>19. ASSUME SetComment PROVE StepKeeps
  <2>1. PICK p \in Paths :
          Call("marks", p[1], p[2], set_comment(doc, p[1], p[2]))
    BY <1>19 DEF SetComment
  <2>3. Sound(doc, set_comment(doc, p[1], p[2]))
    BY <1>0, Arguments, CommentSound
  <2>4. set_comment(doc, p[1], p[2]).doc.cache = doc.cache
    BY <1>0, Arguments, CommentSpells
  <2>. QED BY <2>1, <2>3, <2>4, SoundCallKeeps
<1>20. ASSUME RemoveComment PROVE StepKeeps
  <2>1. PICK p \in Paths :
          Call("marks", p[1], p[2], remove_comment(doc, p[1], p[2]))
    BY <1>20 DEF RemoveComment
  <2>3. Sound(doc, remove_comment(doc, p[1], p[2]))
    BY <1>0, Arguments, CommentSound
  <2>4. remove_comment(doc, p[1], p[2]).doc.cache = doc.cache
    BY <1>0, Arguments, CommentSpells
  <2>. QED BY <2>1, <2>3, <2>4, SoundCallKeeps
<1>21. ASSUME MaterialiseAlias PROVE StepKeeps
  <2>1. PICK i \in Lines(doc.source) :
          doc.source[i].ref # None /\ Call("marks", None, 0, materialise_alias_at(doc, i))
    BY <1>21 DEF MaterialiseAlias
  <2>2. Sound(doc, materialise_alias_at(doc, i))
    BY <1>0, <2>1, MaterialiseSound
  <2>3. materialise_alias_at(doc, i).doc.cache = doc.cache
    BY <1>0, <2>1, MaterialiseSpells
  <2>. QED BY <2>1, <2>2, <2>3, SoundCallKeeps
<1>22. ASSUME MaterialiseAliases PROVE StepKeeps
  <2>1. PICK n \in Names : Call("batch", None, 0, materialise_aliases_of(doc, n))
    BY <1>22 DEF MaterialiseAliases
  <2>2. /\ IsOpen(materialise_aliases_of(doc, n).doc)
        /\ materialise_aliases_of(doc, n).doc.cache = doc.cache
    BY <1>0, BatchOpen
  <2>. QED BY <2>1, <2>2, CallKeeps
<1>23. ASSUME BeginEdit PROVE StepKeeps
  <2>1. session = NoSession /\ session' = [NoSession EXCEPT !.open = TRUE] /\ doc' = doc
    BY <1>23 DEF BeginEdit
  <2>2. session'.queue = NoSession.queue /\ session' \in [open : BOOLEAN, queue : {NoSession.queue}]
    BY <2>1 DEF NoSession
  <2>3. SessionFits(NoSession, doc.source)
    BY NoSessionFits
  <2>4. NoSession.queue \in Seq(EditsOf(doc.source)) /\ Compatible(NoSession.queue)
    BY <2>3 DEF SessionFits
  <2>5. SessionFits(session', doc'.source)
    BY <2>1, <2>2, <2>4 DEF SessionFits
  <2>. QED BY <1>0, <2>1, <2>5 DEF IInv, StepKeeps, FailureChangesNothing, SpellingKept
<1>24. ASSUME QueueEdit PROVE StepKeeps
  <2> DEFINE src == doc.source
             q == session.queue
             New(k, f) == <<Put(Entry(k, None, None, Null), f)>>
  <2>1. PICK from \in 0 .. Len(src), to \in 0 .. Len(src), f \in Fragments, k \in Keys :
          /\ from <= to /\ ~Conflicts(q, [from |-> from, to |-> to, with |-> New(k, f)])
          /\ session' = [session EXCEPT !.queue =
                           Append(@, [from |-> from, to |-> to, with |-> New(k, f)])]
    BY <1>24 DEF QueueEdit
  <2>2. doc' = doc
    BY <1>24 DEF QueueEdit
  <2> DEFINE w == New(k, f)
             e == [from |-> from, to |-> to, with |-> w]
  <2>3. session \in [open : BOOLEAN, queue : Seq(EditsOf(src))] /\ Compatible(q)
    BY DEF IInv, SessionFits
  <2>4. src \in Seq(Line) /\ Len(src) \in Nat
    BY <1>0, OpenFacts
  <2>5. w \in Seq(Line)
    <3>1. Entry(k, None, None, Null) \in Line
      BY NewLines
    <3>. QED BY <3>1, Arguments, FragmentPut
  <2> HIDE DEF w
  <2>6. e \in EditsOf(src)
    BY <2>1, <2>4, <2>5 DEF EditsOf
  <2>7. ASSUME NEW n \in DOMAIN q PROVE Apart(q[n], e) /\ Apart(e, q[n])
    <3>1. ~(q[n].from = e.from \/ (e.from < q[n].to /\ q[n].from < e.to))
      BY <2>1 DEF Conflicts, w
    <3>. QED BY <3>1 DEF Apart
  <2>8. q \in Seq(EditsOf(src)) /\ session' = [session EXCEPT !.queue = Append(q, e)]
    BY <2>1, <2>3 DEF w
  <2> HIDE DEF e, q
  <2>9. Append(q, e) \in Seq(EditsOf(src)) /\ Compatible(Append(q, e))
    BY <2>3, <2>6, <2>7, <2>8, AppendCompatible
  <2>10. session' \in [open : BOOLEAN, queue : Seq(EditsOf(src))] /\ session'.queue = Append(q, e)
    BY <2>3, <2>8, <2>9
  <2>11. SessionFits(session', doc'.source)
    BY <2>2, <2>9, <2>10 DEF SessionFits
  <2>. QED BY <1>0, <2>2, <2>11 DEF IInv, StepKeeps, FailureChangesNothing, SpellingKept
<1>25. ASSUME CommitEdit PROVE StepKeeps
  <2> DEFINE q == session.queue
             r == IF q = <<>> THEN Ok(doc)
                  ELSE commit_source(doc, Assemble(doc.source, q))
  <2>1. /\ doc' = r.doc /\ session' = NoSession
        /\ last' = [op |-> "commit", key |-> None, index |-> 0, ok |-> r.ok]
    BY <1>25 DEF CommitEdit
  <2>2. q \in Seq(EditsOf(doc.source)) /\ Compatible(q) /\ doc.source \in Seq(Line)
    BY <1>0, OpenFacts DEF IInv, SessionFits
  <2>3. q # <<>> => Assemble(doc.source, q) \in Seq(Line)
    BY <2>2, AssembleFacts
  <2>4. Sound(doc, r)
    BY <1>0, <2>3, CommitSound, ErrSound
  <2>5. SessionFits(session', doc'.source)
    BY <2>1, NoSessionFits
  <2>6. last'.ok = r.ok /\ last'.op = "commit"
    BY <2>1
  <2> HIDE DEF r
  <2>. QED BY <2>1, <2>4, <2>5, <2>6 DEF IInv, StepKeeps, FailureChangesNothing, SpellingKept, Sound
<1>26. ASSUME AbortEdit PROVE StepKeeps
  <2>1. doc' = doc /\ session' = NoSession
    BY <1>26 DEF AbortEdit
  <2>2. SessionFits(session', doc'.source)
    BY <2>1, NoSessionFits
  <2>. QED BY <1>0, <2>1, <2>2 DEF IInv, StepKeeps, FailureChangesNothing, SpellingKept
<1>. QED
  BY <1>1, <1>2, <1>3, <1>4, <1>5, <1>6, <1>7, <1>8, <1>9, <1>10, <1>11, <1>12, <1>13,
     <1>14, <1>15, <1>16, <1>17, <1>18, <1>19, <1>20, <1>21, <1>22, <1>23, <1>24, <1>25, <1>26 DEF Next

LEMMA InitInv == Init => IInv
<1>. SUFFICES ASSUME Init PROVE IInv
  OBVIOUS
<1>1. PICK src \in Openings : parse_full(src) /\ doc = parse_document(src)
  BY DEF Init
<1>2. src \in Seq(Line)
  BY DocumentConstants
<1>3. doc.source = src /\ doc.cache = Value(src)
  BY <1>1 DEF parse_document
<1>4. session = NoSession
  BY DEF Init
<1>. QED
  BY <1>1, <1>2, <1>3, <1>4, NoSessionFits DEF IInv, IsOpen

LEMMA StutterInv == IInv /\ UNCHANGED vars => IInv'
BY DEF IInv, vars

LEMMA Agreement == IInv => SourceStaysValid
<1>. SUFFICES ASSUME IInv PROVE SourceStaysValid
  OBVIOUS
<1>1. /\ doc.source \in Seq(Line) /\ parse_full(doc.source) /\ doc.cache = Value(doc.source)
  BY DEF IInv, IsOpen
<1>2. session.queue \in Seq(EditsOf(doc.source)) /\ Compatible(session.queue)
  BY DEF IInv, SessionFits
<1>3. SessionAssembles
  <2>. SUFFICES ASSUME session.queue # <<>> PROVE SessionAssembles
    BY DEF SessionAssembles
  <2>. QED BY <1>1, <1>2, AssembleFacts DEF SessionAssembles
<1>. QED
  BY <1>1, <1>3 DEF SourceStaysValid

(***************************************************************************)
(* Theorems.                                                               *)
(***************************************************************************)

\* The invariant of every behaviour: after any sequence of calls, kept or rolled
\* back, the text opens, the cached value is its own, and the session's queue fits.
THEOREM Invariant == Spec => []IInv
<1>1. IInv /\ [Next]_vars => IInv'
  BY NextKeeps, StutterInv DEF StepKeeps
<1>. QED
  BY <1>1, InitInv, PTL DEF Spec

\* The text of a document always opens again under its own limits and policies,
\* the cached value is the one the text loads as, and a session commits every
\* queued edit and no other, in any order they were queued.
THEOREM SourceAlwaysValid == Spec => []SourceStaysValid
<1>. QED
  BY Invariant, Agreement, PTL

\* A mutator that returns an error leaves the document as it found it, whatever
\* it had spliced before it failed; materialise_aliases_of alone may stop half way.
THEOREM FailuresChangeNothing == Spec => FailedEditUnchanged
<1>1. IInv /\ [Next]_vars => [FailureChangesNothing]_<<doc, edits, session>>
  BY NextKeeps DEF StepKeeps, vars
<1>2. [][FailureChangesNothing]_<<doc, edits, session>> => FailedEditUnchanged
  BY DEF FailureChangesNothing, FailedEditUnchanged
<1>. QED
  BY <1>1, <1>2, Invariant, PTL DEF Spec

\* Renaming an anchor, writing an alias out and editing a comment never change
\* what the document loads as, not even when a name is anchored twice or the
\* batch stops half way: the alias is written out as the anchor it named.
THEOREM SpellingNeverChangesValue == Spec => SpellingKeepsValue
<1>1. IInv /\ [Next]_vars => [SpellingKept]_<<doc, edits, session>>
  BY NextKeeps DEF StepKeeps, vars
<1>2. [][SpellingKept]_<<doc, edits, session>> => SpellingKeepsValue
  BY DEF SpellingKept, SpellingKeepsValue
<1>. QED
  BY <1>1, <1>2, Invariant, PTL DEF Spec
=============================================================================
