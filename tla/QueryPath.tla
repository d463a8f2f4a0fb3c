----------------------------- MODULE QueryPath ------------------------------
(* The query-path grammar of path.rs: spelling a path from literal keys,      *)
(* parsing it into segments, and writing segments back.                       *)
EXTENDS Value

Wildcard == [step |-> "wildcard"]
RecursiveDescent == [step |-> "descent"]

Invalid == [ok |-> FALSE]
Parsed(segments) == [ok |-> TRUE, segments |-> segments]

Digits == <<"0", "1">>
Digit(c) == c \in ToSet(Digits)
DigitValue(c) == CHOOSE n \in 0 .. 1 : Digits[n + 1] = c
Number(s) == FoldLeft(LAMBDA n, c : 10 * n + DigitValue(c), 0, s)
Spelled(n) == IF n < 2 THEN <<Digits[n + 1]>> ELSE <<"1", Digits[n - 9]>>

(* Plain when the grammar reads the key back as itself.                       *)
is_plain_key(k) == k # <<>> /\ ToSet(k) \cap {".", "[", "]", "*"} = {}

\* Mutant: the key is quoted as it stands.
quote_key_raw(k) == <<"[", "\"">> \o k \o <<"\"", "]">>

(* `["key"]`, with `"` and `\` escaped.                                       *)
quote_key(k) ==
    <<"[", "\"">>
    \o FlattenSeq([i \in DOMAIN k |->
          IF k[i] \in {"\"", "\\"} THEN <<"\\", k[i]>> ELSE <<k[i]>>])
    \o <<"\"", "]">>

push_key(path, k) ==
    IF is_plain_key(k) THEN path \o (IF path = <<>> THEN <<>> ELSE <<".">>) \o k
                       ELSE path \o quote_key(k)

join_keys(ks) == FoldLeft(push_key, <<>>, ks)

(* Display: the canonical spelling of parsed segments.                        *)
display(segments) ==
    FoldLeft(
        LAMBDA acc, s :
            [text |-> acc.text \o
                CASE s.step = "key" /\ is_plain_key(s.key) ->
                       (IF acc.text # <<>> /\ ~acc.descent THEN <<".">> ELSE <<>>) \o s.key
                  [] s.step = "key" /\ ~is_plain_key(s.key) -> quote_key(s.key)
                  [] s.step = "index" -> <<"[">> \o Spelled(s.index) \o <<"]">>
                  [] s.step = "wildcard" -> <<"[", "*", "]">>
                  [] s.step = "descent" -> <<".", ".">>,
             descent |-> s.step = "descent"],
        [text |-> <<>>, descent |-> FALSE], segments).text

-----------------------------------------------------------------------------
(* The body of a quoted key from position `i` up to its closing quote: the    *)
(* key and the position after the quote; position 0 when the path ends first. *)
RECURSIVE read_quoted_key(_, _, _, _)
read_quoted_key(path, i, quote, key) ==
    CASE i > Len(path) -> [key |-> key, next |-> 0]
      [] i <= Len(path) /\ path[i] = "\\" ->
           IF i = Len(path) THEN [key |-> key, next |-> 0]
           ELSE read_quoted_key(path, i + 2, quote, Append(key, path[i + 1]))
      [] i <= Len(path) /\ path[i] = quote -> [key |-> key, next |-> i + 1]
      [] OTHER -> read_quoted_key(path, i + 1, quote, Append(key, path[i]))

(* What a bracket that opens at `i` holds, and where it ends; 0 for an error. *)
Bracket(path, i) ==
    IF i < Len(path) /\ path[i + 1] \in {"\"", "'"} THEN
        LET q == read_quoted_key(path, i + 2, path[i + 1], <<>>)
        IN  IF q.next \in 1 .. Len(path) /\ path[q.next] = "]"
            THEN [seg |-> ToKey(q.key), next |-> q.next + 1] ELSE [next |-> 0]
    ELSE LET close == {j \in i + 1 .. Len(path) : path[j] = "]"}
             j == CHOOSE j \in close : \A x \in close : j <= x
             body == SubSeq(path, i + 1, j - 1)
         IN  CASE close = {} -> [next |-> 0]
               [] close # {} /\ body = <<"*">> -> [seg |-> Wildcard, next |-> j + 1]
               [] close # {} /\ body # <<>> /\ \A x \in DOMAIN body : Digit(body[x]) ->
                    [seg |-> ToIndex(Number(body)), next |-> j + 1]
               [] OTHER -> [next |-> 0]

Flush(segments, current) ==
    IF current = <<>> THEN segments ELSE Append(segments, ToKey(current))

(* The character loop: `pending` is separator_pending.                        *)
RECURSIVE ParseFrom(_, _, _, _, _)
ParseFrom(path, i, segments, current, pending) ==
    IF i > Len(path) THEN IF pending THEN Invalid ELSE Parsed(Flush(segments, current))
    ELSE LET c == path[i]
             done == Flush(segments, current)
             twin == i < Len(path) /\ path[i + 1] = "."
         IN  CASE c = "." /\ twin ->
                    IF pending THEN Invalid
                    ELSE ParseFrom(path, i + 2, Append(done, RecursiveDescent), <<>>, FALSE)
               [] c = "." /\ ~twin ->
                    IF done = <<>> \/ pending THEN Invalid
                    ELSE ParseFrom(path, i + 1, done, <<>>, TRUE)
               [] c = "[" ->
                    LET b == Bracket(path, i)
                    IN  IF pending \/ b.next = 0 THEN Invalid
                        ELSE ParseFrom(path, b.next, Append(done, b.seg), <<>>, FALSE)
               [] c = "]" -> Invalid
               [] c = "*" -> ParseFrom(path, i + 1, Append(done, Wildcard), <<>>, FALSE)
               [] OTHER -> ParseFrom(path, i + 1, segments, Append(current, c), FALSE)

parse_query_path_checked(path) == ParseFrom(path, 1, <<>>, <<>>, FALSE)

(* The unchecked readers replace a malformed path by one no document matches. *)
NoSuchKey == ToKey(<<"NUL">>)
parse_query_path(path) ==
    LET p == parse_query_path_checked(path)
    IN  IF p.ok THEN p.segments ELSE <<NoSuchKey>>
=============================================================================
