---------------------------- MODULE EventGrammar ----------------------------
(***************************************************************************)
(* What a consumer of parser events may rely on: the grammar of a YAML     *)
(* event stream.  A stream is StreamStart, documents, StreamEnd.  A        *)
(* document is DocumentStart, exactly one root node, DocumentEnd.  A       *)
(* collection is closed by the end event of its own kind, and a mapping    *)
(* only between two entries, so its children come in key/value pairs.      *)
(* The loaders (parser/loader.rs) are written against this contract: a     *)
(* frame popped by the wrong end event is their "unexpected mapping end".  *)
(***************************************************************************)
EXTENDS Naturals, Sequences

CONSTANT Errors   \* the event values that stand for a returned error

VARIABLES
  phase,   \* where in the stream the last event left the consumer
  open,    \* the collections still open, innermost last
  event    \* the event returned by the last call

gvars == <<phase, open, event>>

\* A collection is a sequence, a mapping expecting a key, or one
\* expecting the value of the key just seen.
Turn(c) == CASE c = "key" -> "value" [] c = "value" -> "key" [] OTHER -> c

\* A node was placed in the innermost open collection.
Place(o) == [o EXCEPT ![Len(o)] = Turn(@)]

GInit == phase = "start" /\ open = <<>> /\ event = "none"

StartStream ==
  /\ phase = "start"
  /\ phase' = "between" /\ open' = <<>> /\ event' = "StreamStart"

StartDocument ==
  /\ phase = "between"
  /\ phase' = "root" /\ open' = <<>> /\ event' = "DocumentStart"

Leaf ==
  /\ event' \in {"Scalar", "Alias"}
  /\ \/ phase = "root"   /\ phase' = "rooted" /\ open' = <<>>
     \/ phase = "inside" /\ phase' = "inside" /\ open' = Place(open)

Begin(e, c) ==
  /\ event' = e
  /\ phase' = "inside"
  /\ \/ phase = "root"   /\ open' = <<c>>
     \/ phase = "inside" /\ open' = Append(Place(open), c)

Finish(e, c) ==
  /\ phase = "inside"
  /\ open[Len(open)] = c
  /\ event' = e
  /\ open' = SubSeq(open, 1, Len(open) - 1)
  /\ phase' = IF Len(open) = 1 THEN "rooted" ELSE "inside"

EndDocument ==
  /\ phase = "rooted"
  /\ phase' = "between" /\ open' = <<>> /\ event' = "DocumentEnd"

EndStream ==
  /\ phase = "between"
  /\ phase' = "end" /\ open' = <<>> /\ event' = "StreamEnd"

\* An error may come instead of any event; nothing follows it.
Refuse ==
  /\ phase \notin {"end", "failed"}
  /\ phase' = "failed" /\ open' = <<>> /\ event' \in Errors

GNext ==
  \/ StartStream \/ StartDocument \/ Leaf
  \/ Begin("SequenceStart", "seq") \/ Begin("MappingStart", "key")
  \/ Finish("SequenceEnd", "seq") \/ Finish("MappingEnd", "key")
  \/ EndDocument \/ EndStream \/ Refuse

GSpec == GInit /\ [][GNext]_gvars
=============================================================================
