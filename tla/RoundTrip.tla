----------------------------- MODULE RoundTrip -----------------------------
(***************************************************************************)
(* The serializer and the scanner against each other: a caller serializes  *)
(* one value after another on the same thread, and every text is scanned   *)
(* and composed back before the next call.                                 *)
(***************************************************************************)
EXTENDS Scanner, Serialize

CONSTANT Calls   \* the calls a caller may make: the values, the configuration, the entry point

ASSUME CallsAssumption == \A k \in Calls : k.config \in SerializerConfig

VARIABLES call,     \* the call whose text is being read, or NoCall
          st        \* the thread-local STATE of anchors.rs

rtvars == <<text, s, call, st>>

NoCall == [inputs |-> <<>>, how |-> "none"]
Busy == call # NoCall
Idle == text = <<>> /\ s = New(<<>>) /\ call = NoCall

RTInit == Idle /\ st = Inactive

\* On an error there is no text.
Serialized(k, r) ==
  /\ st' = r.st
  /\ IF r.ok THEN /\ text' = r.text /\ s' = New(r.text)
                  /\ call' = [inputs |-> k.inputs, how |-> k.how]
     ELSE UNCHANGED <<text, s, call>>

Write == ~Busy /\ \E k \in Calls :
  k.how = "plain" /\ Serialized(k, to_string_with_config(k.inputs[1], k.config, st))
WriteTracking == ~Busy /\ \E k \in Calls :
  k.how = "tracking" /\ Serialized(k, to_string_tracking_shared(k.inputs[1], k.config, st))
WriteMulti == ~Busy /\ \E k \in Calls :
  k.how = "multi" /\ Serialized(k, to_string_multi(k.inputs, k.config, st))

Scan == Busy /\ ~Finished /\ Next /\ UNCHANGED <<call, st>>
Return == Busy /\ Finished /\ text' = <<>> /\ s' = New(<<>>) /\ call' = NoCall /\ UNCHANGED st

RTNext == Write \/ WriteTracking \/ WriteMulti \/ Scan \/ Return
RTSpec == RTInit /\ [][RTNext]_rtvars

-----------------------------------------------------------------------------
(* What the tokens say, read by the YAML grammar. *)

Kind(i) == IF i <= Len(s.out) THEN s.out[i].kind ELSE "none"
Bad == [kind |-> "bad"]
Got(v, i, env) == [v |-> v, i |-> i, env |-> env]

\* A plain scalar under the core schema.
Resolved(t) ==
  LET kind == resolve_plain_ext(t, FALSE)
  IN  IF kind = "null" THEN Null ELSE [kind |-> kind, text |-> t]

KeyOf(k, i) ==
  CASE Kind(i) = "Plain" /\ s.out[i].body = <<"<", "<">> -> <<"merge">>
    [] k.kind \in {"str", "num", "bool"} -> k.text
    [] OTHER -> <<"bad">>

RECURSIVE Node(_, _, _)
RECURSIVE Items(_, _, _, _)
RECURSIVE Pairs(_, _, _)

\* The node at token i; a - here opens a sequence only after a key.
Node(i, env, afterKey) ==
  LET b == s.out[i].body
      r == Node(i + 1, env, afterKey)
  IN  CASE Kind(i) = "Anchor" -> [r EXCEPT !.env = [x \in DOMAIN r.env \cup {b} |-> IF x = b THEN r.v ELSE r.env[x]]]
        [] Kind(i) = "Tag" -> [r EXCEPT !.v = [kind |-> "tag", tag |-> b[1] \o b[2], inner |-> r.v]]
        [] Kind(i) = "Alias" -> Got(IF b \in DOMAIN env THEN env[b] ELSE Bad, i + 1, env)
        [] Kind(i) = "Plain" -> Got(Resolved(b), i + 1, env)
        [] Kind(i) \in Scalars -> Got(Str(b), i + 1, env)
        [] Kind(i) \in {"BlockMappingStart", "FlowMappingStart"} -> Pairs(i + 1, <<>>, env)
        [] Kind(i) \in {"BlockSequenceStart", "FlowSequenceStart"} -> Items(i + 1, <<>>, env, TRUE)
        [] Kind(i) = "BlockEntry" /\ afterKey -> Items(i, <<>>, env, FALSE)
        [] OTHER -> Got(Null, i, env)

\* The rest of a sequence; closed tells one that ends with a token of its own.
Items(i, done, env, closed) ==
  LET j == IF Kind(i) = "BlockEntry" THEN i + 1 ELSE i
      r == Node(j, env, FALSE)
  IN  CASE Kind(i) \in {"BlockEnd", "FlowSequenceEnd"} -> Got(Seq1(done), IF closed THEN i + 1 ELSE i, env)
        [] ~closed /\ Kind(i) # "BlockEntry" -> Got(Seq1(done), i, env)
        [] Kind(i) = "FlowEntry" -> Items(i + 1, done, env, closed)
        [] r.i = i -> Got(Bad, i, env)
        [] OTHER -> Items(r.i, Append(done, r.v), r.env, closed)

\* The rest of a mapping.
Pairs(i, done, env) ==
  LET k == Node(i + 1, env, FALSE)
      r == Node(k.i + 1, k.env, TRUE)
  IN  CASE Kind(i) \in {"BlockEnd", "FlowMappingEnd"} -> Got(Map1(done), i + 1, env)
        [] Kind(i) = "FlowEntry" -> Pairs(i + 1, done, env)
        [] Kind(i) = "Key" /\ Kind(k.i) = "Value" ->
             Pairs(r.i, Append(done, <<KeyOf(k.v, i + 1), r.v>>), r.env)
        [] OTHER -> Got(Bad, i, env)

\* The documents of the stream from token i on.
RECURSIVE Documents(_, _)
Documents(i, done) ==
  LET first == IF Kind(i) = "DocumentStart" THEN i + 1 ELSE i
      r     == Node(first, <<>>, FALSE)
      end   == IF Kind(r.i) = "DocumentEnd" THEN r.i + 1 ELSE r.i
  IN  CASE Kind(i) = "StreamEnd" -> done
        [] end = i -> Append(done, Bad)
        [] OTHER -> Documents(end, Append(done, r.v))
ReadBack == Documents(2, <<>>)

\* What a Rust value means: formatting hints and sharing say nothing about it.
RECURSIVE Meaning(_)
Meaning(x) ==
  CASE x.kind \in {"null", "bool", "num", "str"} -> x
    [] x.kind = "dangling" -> Null
    [] x.kind = "bytes" -> [kind |-> "tag", tag |-> <<"!", "!", "b">>, inner |-> Str(x.text)]
    [] x.kind = "seq" -> Seq1([i \in DOMAIN x.items |-> Meaning(x.items[i])])
    [] x.kind = "map" -> Map1([i \in DOMAIN x.entries |-> <<Meaning(x.entries[i][1]).text, Meaning(x.entries[i][2])>>])
    [] x.kind = "variant" -> Map1(<<<<x.name, Meaning(x.inner)>>>>)
    [] x.kind = "tagged" -> IF Unspellable(x.tag) THEN Map1(<<<<x.tag, Meaning(x.inner)>>>>)
                            ELSE [kind |-> "tag", tag |-> x.tag, inner |-> Meaning(x.inner)]
    [] x.kind = "vacant" -> Null
    [] x.kind \in {"rc", "weak", "cell"} -> Meaning(Heap[x.addr])
    [] OTHER -> Meaning(x.inner)

Meant == [i \in DOMAIN call.inputs |-> Meaning(call.inputs[i])]

\* The addresses met, in writing order: below an address met before nothing is written.
RECURSIVE Met(_, _)
Met(x, before) ==
  LET all[i \in Nat] == IF i = 0 THEN before
                        ELSE Met(IF x.kind = "seq" THEN x.items[i] ELSE x.entries[i][2], all[i - 1])
  IN  CASE x.kind \in {"rc", "weak"} /\ x.addr \in ToSet(before) -> Append(before, x.addr)
        [] x.kind = "rc" -> Met(Heap[x.addr], Append(before, x.addr))
        [] x.kind \in {"weak", "cell"} -> Met(Heap[x.addr], before)
        [] x.kind = "seq" -> all[Len(x.items)]
        [] x.kind = "map" -> all[Len(x.entries)]
        [] x.kind \in {"null", "bool", "num", "str", "dangling", "vacant", "bytes"} -> before
        [] OTHER -> Met(x.inner, before)

-----------------------------------------------------------------------------
(* Properties. *)

\* What is written reads back: the scanner accepts every text the serializer
\* writes, and the tokens mean the value that was written (ser.rs, string_style:
\* "Every choice must read back as exactly `s`", and needs_block_layout against the
\* writers).  MCRoundTrip says under which configurations, nesting and hints: the
\* values that README's findings 8, 9, 10 and 12 are about are not written.
RoundTrip == Busy => s.err = "" /\ (Clean => ReadBack = Meant)

\* Under to_string_tracking_shared two places name the same anchor exactly when
\* they hold the same pointer, and the definition is the first of them
\* (anchors.rs, track and peek, after any number of earlier calls, failed or not).
SharingKept ==
  Busy /\ Clean =>
    LET names == SelectSeq(s.out, LAMBDA k : k.kind \in {"Anchor", "Alias"})
        addrs == IF call.how = "tracking" THEN Met(call.inputs[1], <<>>) ELSE <<>>
    IN  /\ Len(names) = Len(addrs)
        /\ \A i, j \in DOMAIN addrs : names[i].body = names[j].body <=> addrs[i] = addrs[j]
        /\ \A i \in DOMAIN addrs : names[i].kind = "Anchor" <=> ~\E j \in 1..(i - 1) : addrs[j] = addrs[i]
=============================================================================
