--------------------------- MODULE DocumentText ---------------------------
(***************************************************************************)
(* The text of an editable document (cst/document.rs) as the sequence of   *)
(* its lines, and what the crate reads from it: whether it parses, the     *)
(* value it loads as, and where a path's bytes are.  The green tree is     *)
(* GreenTree's, over cells of text.                                        *)
(*                                                                         *)
(* A document is a block mapping.  An entry line carries its key and, in   *)
(* line, an anchor, an alias or a scalar; the entry whose value is empty   *)
(* may own the lines of a block sequence indented under it.  Byte offsets  *)
(* become line positions 0 .. Len(src): position p is the cut after line   *)
(* p.  Columns, quoting and trailing comments are left out.                *)
(***************************************************************************)
EXTENDS Naturals, Sequences, FiniteSets, SequencesExt

CONSTANTS
  Keys, Names, Scalars,   \* key texts, anchor names, scalar texts (strings)
  MaxLen,                 \* ParseConfig::max_document_length, in lines
  Refused                 \* scalars a configured policy refuses

None == "-"   \* no key, anchor or alias on the line
Null == "~"

ASSUME TextConstants == MaxLen \in Nat /\ Refused \subseteq Scalars /\ None \notin Names

Entry(key, anchor, ref, val) ==
  [at |-> "entry", key |-> key, anchor |-> anchor, ref |-> ref, val |-> val]
Item(anchor, ref, val) ==
  [at |-> "item", key |-> None, anchor |-> anchor, ref |-> ref, val |-> val]
Mark(kind) == [at |-> kind, key |-> None, anchor |-> None, ref |-> None, val |-> Null]
Note  == Mark("note")    \* a comment on a line of its own
Empty == Mark("empty")   \* `{}` for the root, `[]` under an entry
Bad   == Mark("bad")     \* text that is not YAML where it stands

\* A line of text; a document is a sequence of them.  An alias has no scalar.
Line == {line \in [at : {"entry", "item", "note", "empty", "bad"}, key : Keys \cup {None},
                   anchor : Names \cup {None}, ref : Names \cup {None}, val : Scalars \cup {Null}] :
           line.ref # None => line.val = Null}

Lines(src) == DOMAIN src
Entries(src) == {i \in Lines(src) : src[i].at = "entry"}
Largest(S) == CHOOSE m \in S : \A n \in S : n <= m
Smallest(S) == CHOOSE m \in S : \A n \in S : m <= n

\* The entry a line is indented under; 0 for a line before every entry.
Owner(src, i) ==
  LET above == {j \in Entries(src) : j <= i} IN IF above = {} THEN 0 ELSE Largest(above)

\* The members of S, numbers up to n, in increasing order.
Ascending(S, n) ==
  LET run[k \in 0 .. n] ==
        LET below == IF k = 0 THEN <<>> ELSE run[k - 1]
        IN  IF k \in S THEN Append(below, k) ELSE below
  IN  run[n]

\* The lines of the block sequence an entry owns, and its last line.
Items(src, i) ==
  Ascending({j \in Lines(src) : src[j].at \in {"item", "empty"} /\ j > i /\ Owner(src, j) = i},
            Len(src))
LastLine(src, i) == IF Items(src, i) = <<>> THEN i ELSE Last(Items(src, i))
IsCollection(src, i) == Items(src, i) # <<>>

\* The node an alias on line i names: the latest that is complete, so a
\* sequence is not visible from its own items.  0 when there is none.
Definition(src, i, name) ==
  LET before == {j \in 1 .. i - 1 : src[j].anchor = name
                                    /\ ~(IsCollection(src, j) /\ Owner(src, i) = j)}
  IN  IF before = {} THEN 0 ELSE Largest(before)

\* The line whose bytes an alias's span tree points into.
Target(src, i) == IF src[i].ref = None THEN i ELSE Definition(src, i, src[i].ref)

\* What each line's node loads as: a scalar, or a bracketed run of scalars.
Loaded(src) ==
  LET node[i \in Lines(src)] ==
        LET items == Items(src, i)
            body[j \in 0 .. Len(items)] ==
              IF j = 0 THEN <<>>
              ELSE IF src[items[j]].at = "empty" THEN body[j - 1]
              ELSE body[j - 1] \o node[items[j]]
        IN  IF src[i].ref # None THEN node[Definition(src, i, src[i].ref)]
            ELSE IF src[i].at = "entry" /\ items # <<>>
                 THEN <<"[">> \o body[Len(items)] \o <<"]">>
            ELSE <<src[i].val>>
  IN  node

(***************************************************************************)
(* parse_exactly_one: the grammar, the aliases, then the value.            *)
(***************************************************************************)
\* Every line stands where YAML allows it.
WellFormed(src) ==
  /\ \A i \in Lines(src) : src[i].at # "bad"
  /\ \A i \in Lines(src) :
        src[i].at \in {"item", "empty"} =>
          LET o == Owner(src, i)
          IN  IF o = 0 THEN src[i].at = "empty" /\ Entries(src) = {}
              ELSE src[o].val = Null /\ src[o].ref = None
  /\ \A i, j \in Lines(src) :
        src[i].at = "empty" /\ src[j].at \in {"item", "empty"}
          /\ Owner(src, i) = Owner(src, j) => i = j

AliasesKnown(src) ==
  \A i \in Lines(src) : src[i].ref # None => Definition(src, i, src[i].ref) # 0

\* DuplicateKeyPolicy::Last: a key keeps its first place and its last entry.
KeyOrder(src) ==
  LET firsts == Ascending({i \in Entries(src) :
                            \A j \in Entries(src) : src[j].key = src[i].key => i <= j}, Len(src))
  IN  [n \in DOMAIN firsts |-> src[firsts[n]].key]
HasKey(src, key) == \E i \in Entries(src) : src[i].key = key
Winner(src, key) == Largest({i \in Entries(src) : src[i].key = key})
duplicate_keys_present(src) ==
  \E i, j \in Entries(src) : i # j /\ src[i].key = src[j].key

\* A document of comments alone loads as null.
NullRoot(src) == \A i \in Lines(src) : src[i].at = "note"
Value(src) ==
  LET node == Loaded(src)
  IN  IF NullRoot(src) THEN [k \in {None} |-> <<Null>>]
      ELSE [k \in {src[i].key : i \in Entries(src)} |-> node[Winner(src, k)]]

check_document(value) == \A k \in DOMAIN value : \A n \in DOMAIN value[k] : value[k][n] \notin Refused
parse_exactly_one(src) == WellFormed(src) /\ AliasesKnown(src)

(***************************************************************************)
(* Paths: an entry (index 0) or an item of its sequence.                   *)
(***************************************************************************)
\* typed_value_at: the value is reached through an alias as through a key.
SequenceLine(src, key) == Target(src, Winner(src, key))
sequence_len_at(src, key) ==
  Cardinality({n \in DOMAIN Items(src, SequenceLine(src, key)) :
                 src[Items(src, SequenceLine(src, key))[n]].at = "item"})
IsSequence(src, key) == HasKey(src, key) /\ IsCollection(src, SequenceLine(src, key))
HasPath(src, key, index) ==
  HasKey(src, key) /\ (index > 0 => index <= sequence_len_at(src, key))

\* span_at: the line that holds the bytes, through an alias the anchor's.
span_at(src, key, index) ==
  IF index = 0 THEN Winner(src, key) ELSE Items(src, SequenceLine(src, key))[index]
typed_value_at(src, key, index) == Loaded(src)[span_at(src, key, index)]

\* AliasHit::Through: the item is another key's text.
Through(src, key, index) == index > 0 /\ src[Winner(src, key)].ref # None

aliases_of(src, name) == {i \in Lines(src) : src[i].ref = name}

\* aliased_anchor_covering: an anchor's content is what follows its mark, so
\* only a probe past the mark is inside the node of its own line.
aliased_anchor_covering(src, i, past_mark) ==
  \E j \in Lines(src) :
    /\ src[j].anchor # None /\ aliases_of(src, src[j].anchor) # {}
    /\ \/ j = i /\ past_mark
       \/ j # i /\ IsCollection(src, j) /\ Owner(src, i) = j

\* absorb_head_comments: the comment lines right above a line are its own.
absorb_head_comments(src, i) ==
  Smallest({s \in 1 .. i : \A j \in s .. i - 1 : src[j].at = "note"})

\* shape_excluding: keys in order, values reduced to their structure.
Blank(stream) == [n \in DOMAIN stream |-> IF stream[n] \in {"[", "]"} THEN stream[n] ELSE "_"]
shape_excluding(src, key, index) ==
  LET value == Value(src)
      items == Items(src, SequenceLine(src, key))
      Shape(k) ==
        IF k # key THEN <<k>> \o Blank(value[k])
        ELSE IF index = 0 THEN <<k, "target">>
        ELSE LET part[n \in 0 .. sequence_len_at(src, k)] ==
                   IF n = 0 THEN <<>>
                   ELSE part[n - 1] \o (IF n = index THEN <<"target">>
                                        ELSE Blank(Loaded(src)[items[n]]))
             IN  <<k, "[">> \o part[sequence_len_at(src, k)] \o <<"]">>
  IN  IF key # None /\ ~HasPath(src, key, index) THEN <<>>
      ELSE [n \in DOMAIN KeyOrder(src) |-> Shape(KeyOrder(src)[n])]
============================================================================
