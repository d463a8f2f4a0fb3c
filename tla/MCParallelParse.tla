-------------------------- MODULE MCParallelParse --------------------------
(***************************************************************************)
(* Streams for ParallelParse.  A document is given by the events of its    *)
(* body, from which the charges of each attempt follow as in               *)
(* Meter::charge_event: every parse of a document is a parse of its own,   *)
(* so it also charges a StreamStart and a StreamEnd event.                 *)
(***************************************************************************)
EXTENDS ParallelParse, SequencesExt

CONSTANTS W1, W2

MCCounter == {"events", "nodes", "documents"}

\* The charges of one event (meter.rs charge_event).
OfEvent(e) ==
  <<[c |-> "events", by |-> 1]>>
    \o (IF e \in {"Scalar", "MappingStart"} THEN <<[c |-> "nodes", by |-> 1]>> ELSE <<>>)
    \o (IF e = "DocumentStart" THEN <<[c |-> "documents", by |-> 1]>> ELSE <<>>)

OfEvents(es) == FlattenSeq([i \in DOMAIN es |-> OfEvent(es[i])])

Body(es) == <<"DocumentStart">> \o es \o <<"DocumentEnd">>
Whole(es) == <<"StreamStart">> \o Body(es) \o <<"StreamEnd">>

\* A document with body es whose streaming attempt reads the first n events
\* and ends as `streams`.
Made(es, streams, n, loads) ==
  [streaming |-> IF streams = "skip" THEN <<>> ELSE OfEvents(SubSeq(Whole(es), 1, n)),
   streams |-> streams, tree |-> OfEvents(Whole(es)), loads |-> loads]

Scalar == <<"Scalar">>
Plain    == Made(Scalar, "skip", 0, "ok")          \* a Value target
Streamed == Made(Scalar, "ok", 5, "ok")
Fallback == Made(Scalar, "fallback", 3, "ok")      \* `<<` after another key
Late     == Made(Scalar, "fallback", 4, "ok")      \* one event later
Untyped  == Made(Scalar, "unlocated", 3, "error")  \* fails to deserialize
Broken   == Made(Scalar, "located", 2, "error")    \* a syntax error

Stream(docs) == [docs |-> docs, too_long |-> FALSE]

MCStreams ==
  {Stream(d) : d \in {<<Plain, Plain>>, <<Streamed, Broken, Plain>>,
                      <<Plain, Plain, Plain, Plain>>,
                      <<Streamed, Fallback, Streamed, Plain>>,
                      <<Streamed, Late, Streamed, Plain>>,
                      <<Streamed, Untyped, Streamed, Broken>>,
                      <<Plain, Streamed, Fallback, Streamed, Plain>>}}
    \cup {[docs |-> <<Plain>>, too_long |-> TRUE]}

\* Limits that one of the streams meets exactly, one exceeds by one event,
\* and others exceed by more.
MCLimit ==
  [c \in MCCounter |-> CASE c = "events" -> 23 [] c = "nodes" -> 5 [] OTHER -> 5]

=============================================================================
