---------------------------- MODULE EventParser ----------------------------
(***************************************************************************)
(* The event parser of parser/events.rs: a push-down automaton that turns  *)
(* scanner tokens into parser events, one next_event call at a time.       *)
(*                                                                         *)
(* The scanner is an environment here: a fetch may return any token, or a  *)
(* scan error.  That is more than the real scanner can produce, so what    *)
(* holds here holds whatever the scanner does.  Names, spans and text are  *)
(* left out; `marks` and `next_anchor_id` are too, since nothing reads     *)
(* them.  The consumer is a loader loop (loader.rs `load`): it calls       *)
(* next_event until StreamEnd or an error, and gives up when a collection  *)
(* opens deeper than MaxDepth (budget::depth_exceeded).                    *)
(***************************************************************************)
EXTENDS Naturals, Sequences

CONSTANT MaxDepth   \* the loader's effective max_depth

ASSUME MaxDepthAssumption == MaxDepth \in Nat

VARIABLES
  state,                  \* the parser's State
  states,                 \* the stack of states to return to
  current,                \* the peeked token, NoToken when has_current is false
  first_document_ended,   \* a document has ended without an explicit `...`
  event,                  \* what the last next_event returned
  took                    \* ghost: the last call consumed a token

vars == <<state, states, current, first_document_ended, event, took>>

NoToken == "none"
ScanError == "ScanError"

Token == {"StreamEnd", "DocumentStart", "DocumentEnd", "BlockSequenceStart",
          "BlockMappingStart", "BlockEnd", "FlowSequenceStart",
          "FlowSequenceEnd", "FlowMappingStart", "FlowMappingEnd",
          "BlockEntry", "FlowEntry", "Key", "Value", "Anchor", "Alias",
          "Tag", "Scalar"}

\* What scanner.next_token may return.
Fetched == Token \cup {ScanError}

Errors == {ScanError, "UnexpectedToken", "StrayContent"}

Event == {"none", "StreamStart", "StreamEnd", "DocumentStart", "DocumentEnd",
          "Alias", "Scalar", "SequenceStart", "SequenceEnd", "MappingStart",
          "MappingEnd"} \cup Errors

SequenceState == {"BlockSequenceFirstEntry", "BlockSequenceEntry",
                  "IndentlessSequenceEntry", "FlowSequenceFirstEntry",
                  "FlowSequenceEntry"}

\* States of an open mapping with as many values as keys, and of one with
\* a key that still has no value.
MappingKeyState == {"BlockMappingFirstKey", "BlockMappingKey",
                    "FlowMappingFirstKey", "FlowMappingKey",
                    "FlowSequenceEntryMappingKey",
                    "FlowSequenceEntryMappingEnd"}
MappingValueState == {"BlockMappingValue", "FlowMappingValue",
                      "FlowMappingEmptyValue", "FlowSequenceEntryMappingValue"}

ContentState == SequenceState \cup MappingKeyState \cup MappingValueState

DocumentState == {"StreamStart", "ImplicitDocumentStart", "DocumentStart",
                  "DocumentContent", "DocumentEnd", "BlockNode", "End"}

State == ContentState \cup DocumentState

Init ==
  /\ state = "StreamStart"
  /\ states = <<>>
  /\ current = NoToken
  /\ first_document_ended = FALSE
  /\ event = "none"
  /\ took = FALSE

-----------------------------------------------------------------------------
(* The cursor and the stack.                                               *)

\* peek: the token under the cursor, fetched when there is none.
Peek(c) == IF c = NoToken THEN Fetched ELSE {c}

\* pop_state: the state on top, State::End when the stack is empty.
TopState(s) == IF s = <<>> THEN "End" ELSE s[Len(s)]
Pop(s) == IF s = <<>> THEN <<>> ELSE SubSeq(s, 1, Len(s) - 1)

\* One call returns e, leaving the automaton in s with stack stk and the
\* token c under the cursor; n says whether it consumed a token.
Return(e, s, stk, c, n) ==
  /\ event' = e
  /\ state' = s
  /\ states' = stk
  /\ current' = c
  /\ took' = n

\* An error return changes neither the state nor what was pushed already.
Fail(e, stk, c, n) == Return(e, state, stk, c, n)

\* A node was completed: continue in the state it was pushed under.
Complete(e, stk, c, n) == Return(e, TopState(stk), Pop(stk), c, n)

SameDocument == UNCHANGED first_document_ended

-----------------------------------------------------------------------------
(* Nodes.                                                                  *)

\* parse_node_properties: an anchor and a tag in either order.
PropertyRuns ==
  {<<>>, <<"Anchor">>, <<"Tag">>, <<"Anchor", "Tag">>, <<"Tag", "Anchor">>}

\* From cursor c, the properties p are taken and t is the token after them.
ReadsProperties(p, t, c) ==
  /\ c # NoToken => (p \o <<t>>)[1] = c
  /\ p = <<>>         => t \notin {"Anchor", "Tag"}
  /\ p = <<"Anchor">> => t # "Tag"
  /\ p = <<"Tag">>    => t # "Anchor"

\* open_node: enter the collection; its start token is consumed, except
\* for an indentless sequence, which has none.
open_node(e, s, stk, c, n) == Return(e, s, stk, c, n)

\* parse_empty_node: a node without content is an empty scalar when it has
\* properties or stands where it may be empty, an error otherwise.
parse_empty_node(hasProps, indentless, stk, t, n) ==
  IF hasProps \/ indentless THEN Complete("Scalar", stk, t, n)
                            ELSE Fail("UnexpectedToken", stk, t, n)

\* parse_node with stack stk and cursor c; n: a token was taken already.
parse_node(block, indentless, stk, c, n) ==
  \E p \in PropertyRuns, t \in Fetched :
    /\ ReadsProperties(p, t, c)
    /\ LET m == n \/ p # <<>> IN
       CASE t = ScanError -> Fail(ScanError, stk, NoToken, m)
         [] t \in {"Alias", "Scalar"} -> Complete(t, stk, NoToken, TRUE)
         [] t = "FlowSequenceStart" ->
              open_node("SequenceStart", "FlowSequenceFirstEntry", stk, NoToken, TRUE)
         [] t = "FlowMappingStart" ->
              open_node("MappingStart", "FlowMappingFirstKey", stk, NoToken, TRUE)
         [] t = "BlockSequenceStart" /\ block ->
              open_node("SequenceStart", "BlockSequenceFirstEntry", stk, NoToken, TRUE)
         [] t = "BlockMappingStart" /\ block ->
              open_node("MappingStart", "BlockMappingFirstKey", stk, NoToken, TRUE)
         [] t = "BlockEntry" /\ indentless ->
              open_node("SequenceStart", "IndentlessSequenceEntry", stk, t, m)
         [] OTHER -> parse_empty_node(p # <<>>, indentless, stk, t, m)

\* After its indicator was skipped, an entry is an empty scalar when a
\* token of Ends follows, otherwise a node to be continued in state s.
Entry(s, Ends, block, indentless) ==
  \E t \in Fetched :
    CASE t = ScanError -> Fail(ScanError, states, NoToken, TRUE)
      [] t \in Ends -> Return("Scalar", s, states, t, TRUE)
      [] OTHER -> parse_node(block, indentless, Append(states, s), t, TRUE)

-----------------------------------------------------------------------------
(* Stream and documents.                                                   *)

parse_stream_start ==
  /\ state = "StreamStart"
  /\ Return("StreamStart", "ImplicitDocumentStart", states, NoToken, TRUE)
  /\ SameDocument

\* Leading `...` markers are skipped, in any number (`skipped`), then the
\* document opens, the stream ends, or the content is stray.
parse_document_start(implicit) ==
  \E t \in Fetched \ {"DocumentEnd"}, skipped \in BOOLEAN :
    /\ current = "DocumentEnd" => skipped
    /\ current \notin {NoToken, "DocumentEnd"} => t = current /\ ~skipped
    /\ UNCHANGED first_document_ended
    /\ CASE t = ScanError -> Fail(ScanError, states, NoToken, skipped)
         [] t = "StreamEnd" -> Return("StreamEnd", "End", states, NoToken, TRUE)
         [] t = "DocumentStart" ->
              Return("DocumentStart", "DocumentContent", states, NoToken, TRUE)
         [] OTHER ->
              IF first_document_ended
              THEN Fail("StrayContent", states, t, skipped)
              ELSE IF implicit
              THEN Return("DocumentStart", "BlockNode",
                          Append(states, "DocumentEnd"), t, skipped)
              ELSE Return("DocumentStart", "DocumentContent", states, t, skipped)

\* Mutant: the end state is pushed before looking for an empty document.
parse_document_content_pushed ==
  /\ state = "DocumentContent"
  /\ SameDocument
  /\ \E t \in Peek(current) :
       CASE t = ScanError -> Fail(ScanError, states, NoToken, FALSE)
         [] t \in {"DocumentEnd", "DocumentStart", "StreamEnd"} ->
              Return("Scalar", "DocumentEnd", Append(states, "DocumentEnd"), t, FALSE)
         [] OTHER ->
              parse_node(TRUE, FALSE, Append(states, "DocumentEnd"), t, FALSE)

parse_document_content ==
  /\ state = "DocumentContent"
  /\ SameDocument
  /\ \E t \in Peek(current) :
       CASE t = ScanError -> Fail(ScanError, states, NoToken, FALSE)
         [] t \in {"DocumentEnd", "DocumentStart", "StreamEnd"} ->
              Return("Scalar", "DocumentEnd", states, t, FALSE)
         [] OTHER ->
              parse_node(TRUE, FALSE, Append(states, "DocumentEnd"), t, FALSE)

parse_document_end ==
  /\ state = "DocumentEnd"
  /\ \E t \in Peek(current) :
       CASE t = ScanError ->
              Fail(ScanError, states, NoToken, FALSE) /\ SameDocument
         [] t = "DocumentEnd" ->
              /\ Return("DocumentEnd", "DocumentStart", states, NoToken, TRUE)
              /\ UNCHANGED first_document_ended
         [] OTHER ->
              /\ Return("DocumentEnd", "DocumentStart", states, t, FALSE)
              /\ first_document_ended' = TRUE

parse_block_node ==
  /\ state = "BlockNode"
  /\ SameDocument
  /\ parse_node(TRUE, FALSE, states, current, FALSE)

-----------------------------------------------------------------------------
(* Block collections.                                                      *)

parse_block_sequence_entry ==
  /\ state \in {"BlockSequenceFirstEntry", "BlockSequenceEntry"}
  /\ SameDocument
  /\ \E t \in Peek(current) :
       CASE t = ScanError -> Fail(ScanError, states, NoToken, FALSE)
         [] t = "BlockEntry" ->
              Entry("BlockSequenceEntry", {"BlockEntry", "BlockEnd"}, TRUE, FALSE)
         [] t = "BlockEnd" -> Complete("SequenceEnd", states, NoToken, TRUE)
         [] OTHER -> Fail("UnexpectedToken", states, t, FALSE)

\* Mutant: a missing entry is an empty entry instead of the end.
parse_indentless_sequence_entry_endless ==
  /\ state = "IndentlessSequenceEntry"
  /\ SameDocument
  /\ \E t \in Peek(current) :
       CASE t = ScanError -> Fail(ScanError, states, NoToken, FALSE)
         [] t = "BlockEntry" ->
              Entry("IndentlessSequenceEntry",
                    {"BlockEntry", "Key", "Value", "BlockEnd"}, TRUE, FALSE)
         [] OTHER -> Return("Scalar", "IndentlessSequenceEntry", states, t, FALSE)

parse_indentless_sequence_entry ==
  /\ state = "IndentlessSequenceEntry"
  /\ SameDocument
  /\ \E t \in Peek(current) :
       CASE t = ScanError -> Fail(ScanError, states, NoToken, FALSE)
         [] t = "BlockEntry" ->
              Entry("IndentlessSequenceEntry",
                    {"BlockEntry", "Key", "Value", "BlockEnd"}, TRUE, FALSE)
         [] OTHER -> Complete("SequenceEnd", states, t, FALSE)

parse_block_mapping_key ==
  /\ state \in {"BlockMappingFirstKey", "BlockMappingKey"}
  /\ SameDocument
  /\ \E t \in Peek(current) :
       CASE t = ScanError -> Fail(ScanError, states, NoToken, FALSE)
         [] t = "Key" ->
              Entry("BlockMappingValue", {"Key", "Value", "BlockEnd"}, TRUE, TRUE)
         [] t = "BlockEnd" -> Complete("MappingEnd", states, NoToken, TRUE)
         [] t = "Value" -> Return("Scalar", "BlockMappingValue", states, t, FALSE)
         [] t \in {"BlockSequenceStart", "BlockEntry", "BlockMappingStart"} ->
              Complete("MappingEnd", states, t, FALSE)
         [] OTHER -> Fail("UnexpectedToken", states, t, FALSE)

parse_block_mapping_value ==
  /\ state = "BlockMappingValue"
  /\ SameDocument
  /\ \E t \in Peek(current) :
       CASE t = ScanError -> Fail(ScanError, states, NoToken, FALSE)
         [] t = "Value" ->
              Entry("BlockMappingKey", {"Key", "Value", "BlockEnd"}, TRUE, TRUE)
         [] OTHER -> Return("Scalar", "BlockMappingKey", states, t, FALSE)

-----------------------------------------------------------------------------
(* Flow collections.                                                       *)

\* The separator before an entry that is not the first: `,` is consumed,
\* the closing bracket `close` is left.  The cursor c and whether a token
\* was taken are handed to the rest of the handler.
Separated(first, close, Rest(_, _)) ==
  IF first THEN Rest(current, FALSE)
  ELSE \E t \in Peek(current) :
         CASE t = ScanError -> Fail(ScanError, states, NoToken, FALSE)
           [] t = "FlowEntry" -> Rest(NoToken, TRUE)
           [] t = close -> Rest(t, FALSE)
           [] OTHER -> Fail("UnexpectedToken", states, t, FALSE)

\* Mutant: a bare `:` goes straight to the value, without its empty key.
FlowSequenceEntryRest_keyless(c, n) ==
  \E t \in Peek(c) :
    CASE t = ScanError -> Fail(ScanError, states, NoToken, n)
      [] t = "FlowSequenceEnd" -> Complete("SequenceEnd", states, NoToken, TRUE)
      [] t \in {"Key", "Value"} ->
           Return("MappingStart",
                  IF t = "Key" THEN "FlowSequenceEntryMappingKey"
                               ELSE "FlowSequenceEntryMappingValue",
                  Append(states, "FlowSequenceEntry"),
                  IF t = "Key" THEN NoToken ELSE t, n \/ t = "Key")
      [] OTHER -> parse_node(FALSE, FALSE, Append(states, "FlowSequenceEntry"), t, n)

FlowSequenceEntryRest(c, n) ==
  \E t \in Peek(c) :
    CASE t = ScanError -> Fail(ScanError, states, NoToken, n)
      [] t = "FlowSequenceEnd" -> Complete("SequenceEnd", states, NoToken, TRUE)
      [] t \in {"Key", "Value"} ->
           Return("MappingStart", "FlowSequenceEntryMappingKey",
                  Append(states, "FlowSequenceEntry"),
                  IF t = "Key" THEN NoToken ELSE t, n \/ t = "Key")
      [] OTHER -> parse_node(FALSE, FALSE, Append(states, "FlowSequenceEntry"), t, n)

parse_flow_sequence_entry ==
  /\ state \in {"FlowSequenceFirstEntry", "FlowSequenceEntry"}
  /\ SameDocument
  /\ Separated(state = "FlowSequenceFirstEntry", "FlowSequenceEnd",
               FlowSequenceEntryRest)

parse_flow_sequence_entry_mapping_key ==
  /\ state = "FlowSequenceEntryMappingKey"
  /\ SameDocument
  /\ \E t \in Peek(current) :
       CASE t = ScanError -> Fail(ScanError, states, NoToken, FALSE)
         [] t \in {"Value", "FlowEntry", "FlowSequenceEnd"} ->
              Return("Scalar", "FlowSequenceEntryMappingValue", states, t, FALSE)
         [] OTHER ->
              parse_node(FALSE, FALSE,
                         Append(states, "FlowSequenceEntryMappingValue"), t, FALSE)

parse_flow_sequence_entry_mapping_value ==
  /\ state = "FlowSequenceEntryMappingValue"
  /\ SameDocument
  /\ \E t \in Peek(current) :
       CASE t = ScanError -> Fail(ScanError, states, NoToken, FALSE)
         [] t = "Value" ->
              Entry("FlowSequenceEntryMappingEnd",
                    {"FlowEntry", "FlowSequenceEnd"}, FALSE, FALSE)
         [] OTHER ->
              Return("Scalar", "FlowSequenceEntryMappingEnd", states, t, FALSE)

parse_flow_sequence_entry_mapping_end ==
  /\ state = "FlowSequenceEntryMappingEnd"
  /\ SameDocument
  /\ \E t \in Peek(current) :
       IF t = ScanError THEN Fail(ScanError, states, NoToken, FALSE)
                        ELSE Complete("MappingEnd", states, t, FALSE)

FlowMappingKeyRest(c, n) ==
  \E t \in Peek(c) :
    CASE t = ScanError -> Fail(ScanError, states, NoToken, n)
      [] t = "FlowMappingEnd" -> Complete("MappingEnd", states, NoToken, TRUE)
      [] t = "Key" ->
           Entry("FlowMappingValue", {"Value", "FlowEntry", "FlowMappingEnd"},
                 FALSE, FALSE)
      [] t = "Value" -> Return("Scalar", "FlowMappingValue", states, t, n)
      [] OTHER ->
           parse_node(FALSE, FALSE, Append(states, "FlowMappingEmptyValue"), t, n)

parse_flow_mapping_key ==
  /\ state \in {"FlowMappingFirstKey", "FlowMappingKey"}
  /\ SameDocument
  /\ Separated(state = "FlowMappingFirstKey", "FlowMappingEnd", FlowMappingKeyRest)

parse_flow_mapping_value ==
  /\ state \in {"FlowMappingValue", "FlowMappingEmptyValue"}
  /\ SameDocument
  /\ \E t \in Peek(current) :
       CASE t = ScanError -> Fail(ScanError, states, NoToken, FALSE)
         [] t = "Value" /\ state = "FlowMappingValue" ->
              Entry("FlowMappingKey", {"FlowEntry", "FlowMappingEnd"}, FALSE, FALSE)
         [] OTHER -> Return("Scalar", "FlowMappingKey", states, t, FALSE)

-----------------------------------------------------------------------------
\* The loader's depth: the collections that are open.  Under an open
\* collection the stack holds one state per level.
Depth == IF state \in ContentState THEN Len(states) ELSE 0

\* The loader asks for another event: it has seen neither StreamEnd nor an
\* error, and no collection is open deeper than MaxDepth.
Asked ==
  /\ state # "End"
  /\ event \notin Errors
  /\ Depth <= MaxDepth

\* Dispatch on the state.
next_event ==
  \/ parse_stream_start
  \/ state = "ImplicitDocumentStart" /\ parse_document_start(TRUE)
  \/ state = "DocumentStart" /\ parse_document_start(FALSE)
  \/ parse_document_content
  \/ parse_document_end
  \/ parse_block_node
  \/ parse_block_sequence_entry
  \/ parse_indentless_sequence_entry
  \/ parse_block_mapping_key
  \/ parse_block_mapping_value
  \/ parse_flow_sequence_entry
  \/ parse_flow_sequence_entry_mapping_key
  \/ parse_flow_sequence_entry_mapping_value
  \/ parse_flow_sequence_entry_mapping_end
  \/ parse_flow_mapping_key
  \/ parse_flow_mapping_value

Next == Asked /\ next_event

Spec == Init /\ [][Next]_vars

\* The loader loop is an ordinary loop on one thread: while it may ask for
\* another event it does.
FairSpec == Spec /\ WF_vars(Next)

-----------------------------------------------------------------------------
(* Properties.                                                             *)

\* Every variable has its type.
TypeOK ==
  /\ state \in State
  /\ states \in Seq(State)
  /\ current \in Token \cup {NoToken}
  /\ first_document_ended \in BOOLEAN
  /\ event \in Event
  /\ took \in BOOLEAN

\* The states pushed while collections nest: below them all is the state
\* that closes the document, above it the states of enclosing collections.
Nested(stk) ==
  /\ stk # <<>>
  /\ stk[1] = "DocumentEnd"
  /\ \A i \in 2 .. Len(stk) : stk[i] \in ContentState

\* The stack discipline of next_event: inside a node the stack is a
\* document-end state under collection states, between nodes it is empty.
\* So no document's leftovers are ever popped by the next document, and
\* a pop_state inside a node never falls off the stack.
StackDiscipline ==
  event \notin Errors =>
    /\ state \in ContentState => Nested(states)
    /\ state = "BlockNode" => states = <<"DocumentEnd">>
    /\ state \in DocumentState \ {"BlockNode"} => states = <<>>

\* pop_state turns an empty stack into State::End, which would end the
\* parse in the middle of a document: the parser is in End only after the
\* StreamEnd event, whatever tokens the scanner produced.
EndMeansStreamEnd == state = "End" => event = "StreamEnd"

\* What the automaton's configuration means to a consumer: the frame an
\* open collection's state stands for, the frames that are open, and the
\* place in the stream.
FrameOf(s) == CASE s \in SequenceState     -> "seq"
                [] s \in MappingKeyState   -> "key"
                [] s \in MappingValueState -> "value"
                [] OTHER                   -> "none"

FramesOf(stk, s) ==
  [i \in 1 .. Len(stk) |-> FrameOf(IF i < Len(stk) THEN stk[i + 1] ELSE s)]

OpenBar ==
  IF event \in Errors \/ state \notin ContentState THEN <<>>
  ELSE FramesOf(states, state)

PhaseBar ==
  CASE event \in Errors -> "failed"
    [] event \notin Errors /\ state = "StreamStart" -> "start"
    [] event \notin Errors /\ state \in {"ImplicitDocumentStart", "DocumentStart"} -> "between"
    [] event \notin Errors /\ state \in {"DocumentContent", "BlockNode"} -> "root"
    [] event \notin Errors /\ state \in ContentState -> "inside"
    [] event \notin Errors /\ state = "DocumentEnd" -> "rooted"
    [] event \notin Errors /\ state = "End" -> "end"

Grammar == INSTANCE EventGrammar WITH phase <- PhaseBar, open <- OpenBar

\* Whatever tokens arrive, the events of next_event form a well-formed
\* stream: one root node per document, collections closed by their own end
\* event, mappings closed only between entries.
WellFormedEvents == Grammar!GSpec

\* next_event may return an event without consuming a token (empty nodes,
\* indentless ends, implicit document ends), but not for ever: a parse
\* that has not finished always gets to the next token.
AlwaysConsumes == []<>(took \/ ~Asked)
=============================================================================
