------------------------- MODULE EventParser_proofs -------------------------
(***************************************************************************)
(* Proofs about the event parser, for every MaxDepth and every token       *)
(* stream: its types, its stack discipline, and that the events it returns *)
(* are a well-formed stream (it implements EventGrammar).                  *)
(*                                                                         *)
(* The handlers differ in the tokens they look at, not in what they do to  *)
(* the automaton.  Each is first reduced to one of four shapes (it fails,  *)
(* returns a leaf, opens a collection, or closes one); the invariant and   *)
(* the refinement are then proved shape by shape.                          *)
(***************************************************************************)
EXTENDS EventParser, TLAPS

-----------------------------------------------------------------------------
(* The shapes of a step.                                                   *)

Fails == event' \in Errors /\ state' = state

Leafs(s) ==
  event' \in {"Scalar", "Alias"} /\ state' = s /\ states' = states

Opens(s) ==
  /\ \/ event' = "SequenceStart" /\ state' \in SequenceState
     \/ event' = "MappingStart" /\ state' \in MappingKeyState
  /\ states' = Append(states, s)

Closes(e) ==
  event' = e /\ state' = TopState(states) /\ states' = Pop(states)

\* What parse_node does with the stack stk it was given.
NodeShape(stk) ==
  \/ Fails
  \/ event' \in {"Scalar", "Alias"} /\ state' = TopState(stk) /\ states' = Pop(stk)
  \/ /\ \/ event' = "SequenceStart" /\ state' \in SequenceState
        \/ event' = "MappingStart" /\ state' \in MappingKeyState
     /\ states' = stk

\* parse_node has one of the three outcomes of a node.
LEMMA ParseNodeShape ==
  ASSUME NEW block, NEW indentless, NEW stk, NEW c, NEW n,
         parse_node(block, indentless, stk, c, n)
  PROVE  NodeShape(stk)
<1>1. PICK p \in PropertyRuns, t \in Fetched :
        LET m == n \/ p # <<>> IN
        CASE t = ScanError -> Fail(ScanError, stk, NoToken, m)
         [] t \in {"Alias", "Scalar"} -> Complete(t, stk, NoToken, TRUE)
         [] t = "FlowSequenceStart" ->
              open_node("SequenceStart", "FlowSequenceFirstEntry", stk, NoToken, TRUE)
         [] t = "FlowMappingStart" ->
              open_node("MappingStart", "FlowMappingFirstKey", stk, NoToken, TRUE)
         [] t = "BlockSequenceStart" /\ block ->
              open_node("SequenceStart", "BlockSequenceFirstEntry", stk, NoToken, TRUE)
         [] t = "BlockMappingStart" /\ block ->
              open_node("MappingStart", "BlockMappingFirstKey", stk, NoToken, TRUE)
         [] t = "BlockEntry" /\ indentless ->
              open_node("SequenceStart", "IndentlessSequenceEntry", stk, t, m)
         [] OTHER -> parse_empty_node(p # <<>>, indentless, stk, t, m)
  BY DEF parse_node
<1>. QED
  BY <1>1 DEF NodeShape, Fails, Fail, Complete, Return, open_node, parse_empty_node,
     Errors, ScanError, SequenceState, MappingKeyState

\* Popping gives back what was pushed.
LEMMA PushPop ==
  ASSUME NEW stk \in Seq(State), NEW s \in State
  PROVE  TopState(Append(stk, s)) = s /\ Pop(Append(stk, s)) = stk
<1>1. /\ Append(stk, s) \in Seq(State)
      /\ Len(Append(stk, s)) = Len(stk) + 1
      /\ Append(stk, s)[Len(stk) + 1] = s
  OBVIOUS
<1>2. Append(stk, s) # <<>>
  BY <1>1
<1>3. SubSeq(Append(stk, s), 1, Len(Append(stk, s)) - 1) = stk
  OBVIOUS
<1>. QED
  BY <1>1, <1>2, <1>3 DEF TopState, Pop

\* A node parsed under a pushed continuation s ends in s or opens above it.
LEMMA PushedNode ==
  ASSUME states \in Seq(State), NEW s \in State,
         NEW block, NEW indentless, NEW c, NEW n,
         parse_node(block, indentless, Append(states, s), c, n)
  PROVE  Fails \/ Leafs(s) \/ Opens(s)
<1>1. NodeShape(Append(states, s))
  BY ParseNodeShape
<1>2. TopState(Append(states, s)) = s /\ Pop(Append(states, s)) = states
  BY PushPop
<1>. QED
  BY <1>1, <1>2 DEF NodeShape, Leafs, Opens

\* An entry after its indicator is a leaf or a node continued in s.
LEMMA EntryShape ==
  ASSUME states \in Seq(State), NEW s \in State, NEW Ends,
         NEW block, NEW indentless, Entry(s, Ends, block, indentless)
  PROVE  Fails \/ Leafs(s) \/ Opens(s)
<1>1. PICK t \in Fetched :
        \/ Fail(ScanError, states, NoToken, TRUE)
        \/ Return("Scalar", s, states, t, TRUE)
        \/ parse_node(block, indentless, Append(states, s), t, TRUE)
  BY Zenon DEF Entry
<1>2. CASE Fail(ScanError, states, NoToken, TRUE)
  BY <1>2 DEF Fail, Return, Fails, Errors
<1>3. CASE Return("Scalar", s, states, t, TRUE)
  BY <1>3 DEF Return, Leafs
<1>4. CASE parse_node(block, indentless, Append(states, s), t, TRUE)
  BY <1>4, PushedNode
<1>. QED
  BY <1>1, <1>2, <1>3, <1>4

\* The frames that a node placed in the innermost collection leaves behind.
Successor(s) == s \in ContentState /\ FrameOf(s) = Grammar!Turn(FrameOf(state))

ContentShape ==
  \/ Fails
  \/ \E s \in ContentState : Successor(s) /\ (Leafs(s) \/ Opens(s))
  \/ state \in SequenceState /\ Closes("SequenceEnd")
  \/ state \in MappingKeyState /\ Closes("MappingEnd")

\* The handlers of block sequences take a step of one of the shapes.
LEMMA BlockSequenceShape ==
  ASSUME states \in Seq(State),
         parse_block_sequence_entry \/ parse_indentless_sequence_entry
  PROVE  ContentShape
<1>1. CASE parse_block_sequence_entry
  <2>1. Successor("BlockSequenceEntry")
    BY <1>1 DEF parse_block_sequence_entry, Successor, FrameOf, Grammar!Turn,
       ContentState, SequenceState, MappingKeyState, MappingValueState
  <2>2. PICK t \in Peek(current) :
          \/ Fail(ScanError, states, NoToken, FALSE)
          \/ Entry("BlockSequenceEntry", {"BlockEntry", "BlockEnd"}, TRUE, FALSE)
          \/ Complete("SequenceEnd", states, NoToken, TRUE)
          \/ Fail("UnexpectedToken", states, t, FALSE)
    BY <1>1, Zenon DEF parse_block_sequence_entry
  <2>3. CASE Entry("BlockSequenceEntry", {"BlockEntry", "BlockEnd"}, TRUE, FALSE)
    BY <2>1, <2>3, EntryShape DEF ContentShape, Successor, State
  <2>4. CASE Complete("SequenceEnd", states, NoToken, TRUE)
    BY <1>1, <2>4 DEF parse_block_sequence_entry, SequenceState, Complete, Return, Closes, ContentShape
  <2>5. CASE \/ Fail(ScanError, states, NoToken, FALSE)
             \/ Fail("UnexpectedToken", states, t, FALSE)
    BY <2>5 DEF Fail, Return, Fails, Errors, ContentShape
  <2>. QED
    BY <2>2, <2>3, <2>4, <2>5
<1>2. CASE parse_indentless_sequence_entry
  <2>1. Successor("IndentlessSequenceEntry")
    BY <1>2 DEF parse_indentless_sequence_entry, Successor, FrameOf, Grammar!Turn,
       ContentState, SequenceState, MappingKeyState, MappingValueState
  <2>2. PICK t \in Peek(current) :
          \/ Fail(ScanError, states, NoToken, FALSE)
          \/ Entry("IndentlessSequenceEntry",
                   {"BlockEntry", "Key", "Value", "BlockEnd"}, TRUE, FALSE)
          \/ Complete("SequenceEnd", states, t, FALSE)
    BY <1>2, Zenon DEF parse_indentless_sequence_entry
  <2>3. CASE Entry("IndentlessSequenceEntry",
                   {"BlockEntry", "Key", "Value", "BlockEnd"}, TRUE, FALSE)
    BY <2>1, <2>3, EntryShape DEF ContentShape, Successor, State
  <2>4. CASE Complete("SequenceEnd", states, t, FALSE)
    BY <1>2, <2>4 DEF parse_indentless_sequence_entry, SequenceState, Complete, Return, Closes, ContentShape
  <2>5. CASE Fail(ScanError, states, NoToken, FALSE)
    BY <2>5 DEF Fail, Return, Fails, Errors, ContentShape
  <2>. QED
    BY <2>2, <2>3, <2>4, <2>5
<1>. QED
  BY <1>1, <1>2

\* So do those of block mappings,
LEMMA BlockMappingShape ==
  ASSUME states \in Seq(State),
         parse_block_mapping_key \/ parse_block_mapping_value
  PROVE  ContentShape
<1>1. CASE parse_block_mapping_key
  <2>1. Successor("BlockMappingValue")
    BY <1>1 DEF parse_block_mapping_key, Successor, FrameOf, Grammar!Turn,
       ContentState, SequenceState, MappingKeyState, MappingValueState
  <2>2. PICK t \in Peek(current) :
          \/ Fail(ScanError, states, NoToken, FALSE)
          \/ Entry("BlockMappingValue", {"Key", "Value", "BlockEnd"}, TRUE, TRUE)
          \/ Complete("MappingEnd", states, NoToken, TRUE)
          \/ Return("Scalar", "BlockMappingValue", states, t, FALSE)
          \/ Complete("MappingEnd", states, t, FALSE)
          \/ Fail("UnexpectedToken", states, t, FALSE)
    BY <1>1, Zenon DEF parse_block_mapping_key
  <2>3. CASE \/ Entry("BlockMappingValue", {"Key", "Value", "BlockEnd"}, TRUE, TRUE)
             \/ Return("Scalar", "BlockMappingValue", states, t, FALSE)
    BY <2>1, <2>3, EntryShape DEF ContentShape, Successor, State, Return, Leafs
  <2>4. CASE \/ Complete("MappingEnd", states, NoToken, TRUE)
             \/ Complete("MappingEnd", states, t, FALSE)
    BY <1>1, <2>4 DEF parse_block_mapping_key, MappingKeyState, Complete, Return, Closes, ContentShape
  <2>5. CASE \/ Fail(ScanError, states, NoToken, FALSE)
             \/ Fail("UnexpectedToken", states, t, FALSE)
    BY <2>5 DEF Fail, Return, Fails, Errors, ContentShape
  <2>. QED
    BY <2>2, <2>3, <2>4, <2>5
<1>2. CASE parse_block_mapping_value
  <2>1. Successor("BlockMappingKey")
    BY <1>2 DEF parse_block_mapping_value, Successor, FrameOf, Grammar!Turn,
       ContentState, SequenceState, MappingKeyState, MappingValueState
  <2>2. PICK t \in Peek(current) :
          \/ Fail(ScanError, states, NoToken, FALSE)
          \/ Entry("BlockMappingKey", {"Key", "Value", "BlockEnd"}, TRUE, TRUE)
          \/ Return("Scalar", "BlockMappingKey", states, t, FALSE)
    BY <1>2, Zenon DEF parse_block_mapping_value
  <2>3. CASE \/ Entry("BlockMappingKey", {"Key", "Value", "BlockEnd"}, TRUE, TRUE)
             \/ Return("Scalar", "BlockMappingKey", states, t, FALSE)
    BY <2>1, <2>3, EntryShape DEF ContentShape, Successor, State, Return, Leafs
  <2>4. CASE Fail(ScanError, states, NoToken, FALSE)
    BY <2>4 DEF Fail, Return, Fails, Errors, ContentShape
  <2>. QED
    BY <2>2, <2>3, <2>4
<1>. QED
  BY <1>1, <1>2

\* The part of parse_flow_sequence_entry after the separator.
LEMMA FlowSequenceRestShape ==
  ASSUME states \in Seq(State), NEW c, NEW n, FlowSequenceEntryRest(c, n),
         state \in {"FlowSequenceFirstEntry", "FlowSequenceEntry"}
  PROVE  ContentShape
<1>1. Successor("FlowSequenceEntry")
  BY DEF Successor, FrameOf, Grammar!Turn,
     ContentState, SequenceState, MappingKeyState, MappingValueState
<1>2. PICK t \in Peek(c) :
        \/ Fail(ScanError, states, NoToken, n)
        \/ Complete("SequenceEnd", states, NoToken, TRUE)
        \/ Return("MappingStart", "FlowSequenceEntryMappingKey",
                  Append(states, "FlowSequenceEntry"),
                  IF t = "Key" THEN NoToken ELSE t, n \/ t = "Key")
        \/ parse_node(FALSE, FALSE, Append(states, "FlowSequenceEntry"), t, n)
  BY Zenon DEF FlowSequenceEntryRest
<1>3. CASE Fail(ScanError, states, NoToken, n)
  BY <1>3 DEF Fail, Return, Fails, Errors, ContentShape
<1>4. CASE Complete("SequenceEnd", states, NoToken, TRUE)
  BY <1>4 DEF SequenceState, Complete, Return, Closes, ContentShape
<1>5. CASE Return("MappingStart", "FlowSequenceEntryMappingKey",
                  Append(states, "FlowSequenceEntry"),
                  IF t = "Key" THEN NoToken ELSE t, n \/ t = "Key")
  BY <1>1, <1>5 DEF Return, Opens, MappingKeyState, ContentShape, Successor
<1>6. CASE parse_node(FALSE, FALSE, Append(states, "FlowSequenceEntry"), t, n)
  BY <1>1, <1>6, PushedNode DEF ContentShape, Successor, State
<1>. QED
  BY <1>2, <1>3, <1>4, <1>5, <1>6

\* The part of parse_flow_mapping_key after the separator.
LEMMA FlowMappingRestShape ==
  ASSUME states \in Seq(State), NEW c, NEW n, FlowMappingKeyRest(c, n),
         state \in {"FlowMappingFirstKey", "FlowMappingKey"}
  PROVE  ContentShape
<1>1. Successor("FlowMappingValue") /\ Successor("FlowMappingEmptyValue")
  BY DEF Successor, FrameOf, Grammar!Turn,
     ContentState, SequenceState, MappingKeyState, MappingValueState
<1>2. PICK t \in Peek(c) :
        \/ Fail(ScanError, states, NoToken, n)
        \/ Complete("MappingEnd", states, NoToken, TRUE)
        \/ Entry("FlowMappingValue", {"Value", "FlowEntry", "FlowMappingEnd"}, FALSE, FALSE)
        \/ Return("Scalar", "FlowMappingValue", states, t, n)
        \/ parse_node(FALSE, FALSE, Append(states, "FlowMappingEmptyValue"), t, n)
  BY Zenon DEF FlowMappingKeyRest
<1>3. CASE Fail(ScanError, states, NoToken, n)
  BY <1>3 DEF Fail, Return, Fails, Errors, ContentShape
<1>4. CASE Complete("MappingEnd", states, NoToken, TRUE)
  BY <1>4 DEF MappingKeyState, Complete, Return, Closes, ContentShape
<1>5. CASE \/ Entry("FlowMappingValue", {"Value", "FlowEntry", "FlowMappingEnd"}, FALSE, FALSE)
           \/ Return("Scalar", "FlowMappingValue", states, t, n)
  BY <1>1, <1>5, EntryShape DEF ContentShape, Successor, State, Return, Leafs
<1>6. CASE parse_node(FALSE, FALSE, Append(states, "FlowMappingEmptyValue"), t, n)
  BY <1>1, <1>6, PushedNode DEF ContentShape, Successor, State
<1>. QED
  BY <1>2, <1>3, <1>4, <1>5, <1>6

\* of flow collections,
LEMMA FlowEntryShape ==
  ASSUME states \in Seq(State),
         parse_flow_sequence_entry \/ parse_flow_mapping_key
  PROVE  ContentShape
<1>1. CASE parse_flow_sequence_entry
  <2>1. \/ \E c, n : FlowSequenceEntryRest(c, n)
        \/ Fail(ScanError, states, NoToken, FALSE)
        \/ \E t : Fail("UnexpectedToken", states, t, FALSE)
    BY <1>1, Zenon DEF parse_flow_sequence_entry, Separated
  <2>2. CASE \E c, n : FlowSequenceEntryRest(c, n)
    BY <1>1, <2>2, FlowSequenceRestShape DEF parse_flow_sequence_entry
  <2>3. CASE \/ Fail(ScanError, states, NoToken, FALSE)
             \/ \E t : Fail("UnexpectedToken", states, t, FALSE)
    BY <2>3 DEF Fail, Return, Fails, Errors, ContentShape
  <2>. QED
    BY <2>1, <2>2, <2>3
<1>2. CASE parse_flow_mapping_key
  <2>1. \/ \E c, n : FlowMappingKeyRest(c, n)
        \/ Fail(ScanError, states, NoToken, FALSE)
        \/ \E t : Fail("UnexpectedToken", states, t, FALSE)
    BY <1>2, Zenon DEF parse_flow_mapping_key, Separated
  <2>2. CASE \E c, n : FlowMappingKeyRest(c, n)
    BY <1>2, <2>2, FlowMappingRestShape DEF parse_flow_mapping_key
  <2>3. CASE \/ Fail(ScanError, states, NoToken, FALSE)
             \/ \E t : Fail("UnexpectedToken", states, t, FALSE)
    BY <2>3 DEF Fail, Return, Fails, Errors, ContentShape
  <2>. QED
    BY <2>1, <2>2, <2>3
<1>. QED
  BY <1>1, <1>2

\* of the single-pair mappings inside flow sequences,
LEMMA FlowPairShape ==
  ASSUME states \in Seq(State),
         \/ parse_flow_sequence_entry_mapping_key
         \/ parse_flow_sequence_entry_mapping_value
         \/ parse_flow_sequence_entry_mapping_end
  PROVE  ContentShape
<1>1. CASE parse_flow_sequence_entry_mapping_key
  <2>1. Successor("FlowSequenceEntryMappingValue")
    BY <1>1 DEF parse_flow_sequence_entry_mapping_key, Successor, FrameOf, Grammar!Turn,
       ContentState, SequenceState, MappingKeyState, MappingValueState
  <2>2. PICK t \in Peek(current) :
          \/ Fail(ScanError, states, NoToken, FALSE)
          \/ Return("Scalar", "FlowSequenceEntryMappingValue", states, t, FALSE)
          \/ parse_node(FALSE, FALSE,
                        Append(states, "FlowSequenceEntryMappingValue"), t, FALSE)
    BY <1>1, Zenon DEF parse_flow_sequence_entry_mapping_key
  <2>3. CASE Fail(ScanError, states, NoToken, FALSE)
    BY <2>3 DEF Fail, Return, Fails, Errors, ContentShape
  <2>4. CASE Return("Scalar", "FlowSequenceEntryMappingValue", states, t, FALSE)
    BY <2>1, <2>4 DEF ContentShape, Successor, Return, Leafs
  <2>5. CASE parse_node(FALSE, FALSE,
                        Append(states, "FlowSequenceEntryMappingValue"), t, FALSE)
    BY <2>1, <2>5, PushedNode DEF ContentShape, Successor, State
  <2>. QED
    BY <2>2, <2>3, <2>4, <2>5
<1>2. CASE parse_flow_sequence_entry_mapping_value
  <2>1. Successor("FlowSequenceEntryMappingEnd")
    BY <1>2 DEF parse_flow_sequence_entry_mapping_value, Successor, FrameOf, Grammar!Turn,
       ContentState, SequenceState, MappingKeyState, MappingValueState
  <2>2. PICK t \in Peek(current) :
          \/ Fail(ScanError, states, NoToken, FALSE)
          \/ Entry("FlowSequenceEntryMappingEnd",
                   {"FlowEntry", "FlowSequenceEnd"}, FALSE, FALSE)
          \/ Return("Scalar", "FlowSequenceEntryMappingEnd", states, t, FALSE)
    BY <1>2, Zenon DEF parse_flow_sequence_entry_mapping_value
  <2>3. CASE Fail(ScanError, states, NoToken, FALSE)
    BY <2>3 DEF Fail, Return, Fails, Errors, ContentShape
  <2>4. CASE \/ Entry("FlowSequenceEntryMappingEnd",
                      {"FlowEntry", "FlowSequenceEnd"}, FALSE, FALSE)
             \/ Return("Scalar", "FlowSequenceEntryMappingEnd", states, t, FALSE)
    BY <2>1, <2>4, EntryShape DEF ContentShape, Successor, State, Return, Leafs
  <2>. QED
    BY <2>2, <2>3, <2>4
<1>3. CASE parse_flow_sequence_entry_mapping_end
  <2>1. \/ Fail(ScanError, states, NoToken, FALSE)
        \/ \E t : Complete("MappingEnd", states, t, FALSE)
    BY <1>3, Zenon DEF parse_flow_sequence_entry_mapping_end
  <2>. QED
    BY <1>3, <2>1 DEF parse_flow_sequence_entry_mapping_end, Fail, Return, Fails,
       Errors, MappingKeyState, Complete, Closes, ContentShape
<1>. QED
  BY <1>1, <1>2, <1>3

\* and of the values of flow mappings.
LEMMA FlowValueShape ==
  ASSUME states \in Seq(State), parse_flow_mapping_value
  PROVE  ContentShape
<1>1. Successor("FlowMappingKey")
  BY DEF parse_flow_mapping_value, Successor, FrameOf, Grammar!Turn,
     ContentState, SequenceState, MappingKeyState, MappingValueState
<1>2. PICK t \in Peek(current) :
        \/ Fail(ScanError, states, NoToken, FALSE)
        \/ Entry("FlowMappingKey", {"FlowEntry", "FlowMappingEnd"}, FALSE, FALSE)
        \/ Return("Scalar", "FlowMappingKey", states, t, FALSE)
  BY Zenon DEF parse_flow_mapping_value
<1>3. CASE Fail(ScanError, states, NoToken, FALSE)
  BY <1>3 DEF Fail, Return, Fails, Errors, ContentShape
<1>4. CASE \/ Entry("FlowMappingKey", {"FlowEntry", "FlowMappingEnd"}, FALSE, FALSE)
           \/ Return("Scalar", "FlowMappingKey", states, t, FALSE)
  BY <1>1, <1>4, EntryShape DEF ContentShape, Successor, State, Return, Leafs
<1>. QED
  BY <1>2, <1>3, <1>4

-----------------------------------------------------------------------------
(* Types.                                                                  *)

Cursor == Token \cup {NoToken}

\* What a returning call leaves, as far as types go.
Typed ==
  event \in Event /\ state \in State /\ states \in Seq(State)
    /\ current \in Cursor /\ took \in BOOLEAN

\* pop_state returns a state and leaves a stack of states.
LEMMA StackTypes ==
  ASSUME NEW stk \in Seq(State)
  PROVE  TopState(stk) \in State /\ Pop(stk) \in Seq(State)
<1>1. CASE stk = <<>>
  BY <1>1 DEF TopState, Pop, State, DocumentState
<1>2. CASE stk # <<>>
  <2>1. Len(stk) \in Nat /\ Len(stk) > 0
    BY <1>2
  <2>2. stk[Len(stk)] \in State
    BY <2>1
  <2>3. SubSeq(stk, 1, Len(stk) - 1) \in Seq(State)
    BY <2>1
  <2>. QED
    BY <1>2, <2>2, <2>3 DEF TopState, Pop
<1>. QED
  BY <1>1, <1>2

\* A handler that returns an event keeps the types,
LEMMA ReturnTyped ==
  ASSUME NEW e \in Event, NEW s \in State, NEW stk \in Seq(State),
         NEW c \in Cursor, NEW n \in BOOLEAN, Return(e, s, stk, c, n)
  PROVE  Typed'
BY DEF Return, Typed

\* one that completes a node and pops does,
LEMMA CompleteTyped ==
  ASSUME NEW e \in Event, NEW stk \in Seq(State),
         NEW c \in Cursor, NEW n \in BOOLEAN, Complete(e, stk, c, n)
  PROVE  Typed'
BY StackTypes, ReturnTyped DEF Complete

\* and one that reports an error does.
LEMMA FailTyped ==
  ASSUME NEW e \in Errors, NEW stk \in Seq(State), state \in State,
         NEW c \in Cursor, NEW n \in BOOLEAN, Fail(e, stk, c, n)
  PROVE  Typed'
BY ReturnTyped DEF Fail, Event

\* The cursor holds a token, or nothing after a failed fetch.
LEMMA CursorTyped ==
  ASSUME NEW t \in Fetched
  PROVE  NoToken \in Cursor /\ (t # ScanError => t \in Cursor)
BY DEF Fetched, Cursor

\* What peek_token shows is what the scanner fetched.
LEMMA PeekTyped ==
  ASSUME NEW c \in Cursor, NEW t \in Peek(c)
  PROVE  t \in Fetched
BY DEF Peek, Cursor, Fetched

\* parse_node keeps the types,
LEMMA ParseNodeTyped ==
  ASSUME state \in State, NEW block, NEW indentless, NEW stk \in Seq(State),
         NEW c, NEW n \in BOOLEAN, parse_node(block, indentless, stk, c, n)
  PROVE  Typed'
<1>1. PICK p \in PropertyRuns, t \in Fetched :
        LET m == n \/ p # <<>> IN
        \/ Fail(ScanError, stk, NoToken, m)
        \/ t \in {"Alias", "Scalar"} /\ Complete(t, stk, NoToken, TRUE)
        \/ open_node("SequenceStart", "FlowSequenceFirstEntry", stk, NoToken, TRUE)
        \/ open_node("MappingStart", "FlowMappingFirstKey", stk, NoToken, TRUE)
        \/ open_node("SequenceStart", "BlockSequenceFirstEntry", stk, NoToken, TRUE)
        \/ open_node("MappingStart", "BlockMappingFirstKey", stk, NoToken, TRUE)
        \/ t # ScanError /\ open_node("SequenceStart", "IndentlessSequenceEntry", stk, t, m)
        \/ t # ScanError /\ parse_empty_node(p # <<>>, indentless, stk, t, m)
  BY Zenon DEF parse_node, ScanError
<1>. DEFINE m == n \/ p # <<>>
<1>2. m \in BOOLEAN /\ NoToken \in Cursor /\ (t # ScanError => t \in Cursor)
  BY CursorTyped
<1>3. CASE Fail(ScanError, stk, NoToken, m)
  BY <1>2, <1>3, FailTyped DEF Errors
<1>4. CASE t \in {"Alias", "Scalar"} /\ Complete(t, stk, NoToken, TRUE)
  <2>1. t \in Event
    BY <1>4 DEF Event
  <2>. QED
    BY <1>2, <1>4, <2>1, CompleteTyped
<1>5. CASE \/ open_node("SequenceStart", "FlowSequenceFirstEntry", stk, NoToken, TRUE)
           \/ open_node("MappingStart", "FlowMappingFirstKey", stk, NoToken, TRUE)
           \/ open_node("SequenceStart", "BlockSequenceFirstEntry", stk, NoToken, TRUE)
           \/ open_node("MappingStart", "BlockMappingFirstKey", stk, NoToken, TRUE)
           \/ t # ScanError /\ open_node("SequenceStart", "IndentlessSequenceEntry", stk, t, m)
  BY <1>2, <1>5 DEF open_node, Return, Typed, Event, State, ContentState,
     SequenceState, MappingKeyState
<1>6. CASE t # ScanError /\ parse_empty_node(p # <<>>, indentless, stk, t, m)
  <2>1. \/ Complete("Scalar", stk, t, m)
        \/ Fail("UnexpectedToken", stk, t, m)
    BY <1>6 DEF parse_empty_node
  <2>2. "Scalar" \in Event /\ "UnexpectedToken" \in Errors
    BY DEF Event, Errors
  <2>. QED
    BY <1>2, <1>6, <2>1, <2>2, CompleteTyped, FailTyped
<1>. QED
  BY <1>1, <1>3, <1>4, <1>5, <1>6

\* also under a pushed continuation,
LEMMA PushedNodeTyped ==
  ASSUME Typed, NEW s \in State, NEW block, NEW indentless, NEW c, NEW n \in BOOLEAN,
         parse_node(block, indentless, Append(states, s), c, n)
  PROVE  Typed'
<1>1. Append(states, s) \in Seq(State)
  BY DEF Typed
<1>. QED
  BY <1>1, ParseNodeTyped DEF Typed

\* and so does an entry after its indicator.
LEMMA EntryTyped ==
  ASSUME Typed, NEW s \in State, NEW Ends, ScanError \notin Ends,
         NEW block, NEW indentless, Entry(s, Ends, block, indentless)
  PROVE  Typed'
<1>1. PICK t \in Fetched :
        \/ Fail(ScanError, states, NoToken, TRUE)
        \/ t # ScanError /\ Return("Scalar", s, states, t, TRUE)
        \/ parse_node(block, indentless, Append(states, s), t, TRUE)
  BY Zenon DEF Entry
<1>2. CASE Fail(ScanError, states, NoToken, TRUE)
  BY <1>2, FailTyped, CursorTyped DEF Typed, Errors
<1>3. CASE t # ScanError /\ Return("Scalar", s, states, t, TRUE)
  BY <1>3, ReturnTyped, CursorTyped DEF Typed, Event
<1>4. CASE parse_node(block, indentless, Append(states, s), t, TRUE)
  BY <1>4, PushedNodeTyped
<1>. QED
  BY <1>1, <1>2, <1>3, <1>4

\* The block handlers keep the types.
LEMMA BlockTyped ==
  ASSUME Typed,
         \/ parse_block_sequence_entry \/ parse_indentless_sequence_entry
         \/ parse_block_mapping_key \/ parse_block_mapping_value
  PROVE  Typed'
<1>1. CASE parse_block_sequence_entry
  <2>1. PICK t \in Peek(current) :
          \/ Fail(ScanError, states, NoToken, FALSE)
          \/ Entry("BlockSequenceEntry", {"BlockEntry", "BlockEnd"}, TRUE, FALSE)
          \/ Complete("SequenceEnd", states, NoToken, TRUE)
          \/ t # ScanError /\ Fail("UnexpectedToken", states, t, FALSE)
    BY <1>1, Zenon DEF parse_block_sequence_entry, ScanError
  <2>2. NoToken \in Cursor /\ (t # ScanError => t \in Cursor)
    BY PeekTyped, CursorTyped DEF Typed
  <2>3. CASE \/ Fail(ScanError, states, NoToken, FALSE)
             \/ t # ScanError /\ Fail("UnexpectedToken", states, t, FALSE)
    BY <2>2, <2>3, FailTyped DEF Typed, Errors
  <2>4. CASE Entry("BlockSequenceEntry", {"BlockEntry", "BlockEnd"}, TRUE, FALSE)
    BY <2>2, <2>4, EntryTyped DEF State, ContentState, SequenceState, MappingKeyState, MappingValueState, DocumentState, ScanError
  <2>5. CASE Complete("SequenceEnd", states, NoToken, TRUE)
    BY <2>2, <2>5, CompleteTyped DEF Typed, Event
  <2>. QED
    BY <2>1, <2>3, <2>4, <2>5
<1>2. CASE parse_indentless_sequence_entry
  <2>1. PICK t \in Peek(current) :
          \/ Fail(ScanError, states, NoToken, FALSE)
          \/ Entry("IndentlessSequenceEntry",
                   {"BlockEntry", "Key", "Value", "BlockEnd"}, TRUE, FALSE)
          \/ t # ScanError /\ Complete("SequenceEnd", states, t, FALSE)
    BY <1>2, Zenon DEF parse_indentless_sequence_entry, ScanError
  <2>2. NoToken \in Cursor /\ (t # ScanError => t \in Cursor)
    BY PeekTyped, CursorTyped DEF Typed
  <2>3. CASE Fail(ScanError, states, NoToken, FALSE)
    BY <2>2, <2>3, FailTyped DEF Typed, Errors
  <2>4. CASE Entry("IndentlessSequenceEntry",
                   {"BlockEntry", "Key", "Value", "BlockEnd"}, TRUE, FALSE)
    BY <2>2, <2>4, EntryTyped DEF State, ContentState, SequenceState, MappingKeyState, MappingValueState, DocumentState, ScanError
  <2>5. CASE t # ScanError /\ Complete("SequenceEnd", states, t, FALSE)
    BY <2>2, <2>5, CompleteTyped DEF Typed, Event
  <2>. QED
    BY <2>1, <2>3, <2>4, <2>5
<1>3. CASE parse_block_mapping_key
  <2>1. PICK t \in Peek(current) :
          \/ Fail(ScanError, states, NoToken, FALSE)
          \/ Entry("BlockMappingValue", {"Key", "Value", "BlockEnd"}, TRUE, TRUE)
          \/ Complete("MappingEnd", states, NoToken, TRUE)
          \/ t # ScanError /\ Return("Scalar", "BlockMappingValue", states, t, FALSE)
          \/ t # ScanError /\ Complete("MappingEnd", states, t, FALSE)
          \/ t # ScanError /\ Fail("UnexpectedToken", states, t, FALSE)
    BY <1>3, Zenon DEF parse_block_mapping_key, ScanError
  <2>2. NoToken \in Cursor /\ (t # ScanError => t \in Cursor)
    BY PeekTyped, CursorTyped DEF Typed
  <2>3. CASE \/ Fail(ScanError, states, NoToken, FALSE)
             \/ t # ScanError /\ Fail("UnexpectedToken", states, t, FALSE)
    BY <2>2, <2>3, FailTyped DEF Typed, Errors
  <2>4. CASE Entry("BlockMappingValue", {"Key", "Value", "BlockEnd"}, TRUE, TRUE)
    BY <2>2, <2>4, EntryTyped DEF State, ContentState, SequenceState, MappingKeyState, MappingValueState, DocumentState, ScanError
  <2>5. CASE \/ Complete("MappingEnd", states, NoToken, TRUE)
             \/ t # ScanError /\ Complete("MappingEnd", states, t, FALSE)
    BY <2>2, <2>5, CompleteTyped DEF Typed, Event
  <2>6. CASE t # ScanError /\ Return("Scalar", "BlockMappingValue", states, t, FALSE)
    BY <2>2, <2>6, ReturnTyped DEF Typed, Event, State, ContentState, SequenceState, MappingKeyState, MappingValueState, DocumentState
  <2>. QED
    BY <2>1, <2>3, <2>4, <2>5, <2>6
<1>4. CASE parse_block_mapping_value
  <2>1. PICK t \in Peek(current) :
          \/ Fail(ScanError, states, NoToken, FALSE)
          \/ Entry("BlockMappingKey", {"Key", "Value", "BlockEnd"}, TRUE, TRUE)
          \/ t # ScanError /\ Return("Scalar", "BlockMappingKey", states, t, FALSE)
    BY <1>4, Zenon DEF parse_block_mapping_value, ScanError
  <2>2. NoToken \in Cursor /\ (t # ScanError => t \in Cursor)
    BY PeekTyped, CursorTyped DEF Typed
  <2>3. CASE Fail(ScanError, states, NoToken, FALSE)
    BY <2>2, <2>3, FailTyped DEF Typed, Errors
  <2>4. CASE Entry("BlockMappingKey", {"Key", "Value", "BlockEnd"}, TRUE, TRUE)
    BY <2>2, <2>4, EntryTyped DEF State, ContentState, SequenceState, MappingKeyState, MappingValueState, DocumentState, ScanError
  <2>5. CASE t # ScanError /\ Return("Scalar", "BlockMappingKey", states, t, FALSE)
    BY <2>2, <2>5, ReturnTyped DEF Typed, Event, State, ContentState, SequenceState, MappingKeyState, MappingValueState, DocumentState
  <2>. QED
    BY <2>1, <2>3, <2>4, <2>5
<1>. QED
  BY <1>1, <1>2, <1>3, <1>4

\* The flow handlers, after the separator, keep the types.
LEMMA FlowRestTyped ==
  ASSUME Typed, NEW c \in Cursor, NEW n \in BOOLEAN,
         FlowSequenceEntryRest(c, n) \/ FlowMappingKeyRest(c, n)
  PROVE  Typed'
<1>1. CASE FlowSequenceEntryRest(c, n)
  <2>1. PICK t \in Peek(c) :
          \/ Fail(ScanError, states, NoToken, n)
          \/ Complete("SequenceEnd", states, NoToken, TRUE)
          \/ t # ScanError /\ Return("MappingStart", "FlowSequenceEntryMappingKey",
                                     Append(states, "FlowSequenceEntry"),
                                     IF t = "Key" THEN NoToken ELSE t, n \/ t = "Key")
          \/ parse_node(FALSE, FALSE, Append(states, "FlowSequenceEntry"), t, n)
    BY <1>1, Zenon DEF FlowSequenceEntryRest, ScanError
  <2>2. NoToken \in Cursor /\ (t # ScanError => t \in Cursor)
    BY PeekTyped, CursorTyped
  <2>3. CASE Fail(ScanError, states, NoToken, n)
    BY <2>2, <2>3, FailTyped DEF Typed, Errors
  <2>4. CASE Complete("SequenceEnd", states, NoToken, TRUE)
    BY <2>2, <2>4, CompleteTyped DEF Typed, Event
  <2>5. CASE t # ScanError /\ Return("MappingStart", "FlowSequenceEntryMappingKey",
                                     Append(states, "FlowSequenceEntry"),
                                     IF t = "Key" THEN NoToken ELSE t, n \/ t = "Key")
    <3>1. Append(states, "FlowSequenceEntry") \in Seq(State)
      BY DEF Typed, State, ContentState, SequenceState
    <3>. QED
      BY <2>2, <2>5, <3>1 DEF Return, Typed, Event, State, ContentState, MappingKeyState
  <2>6. CASE parse_node(FALSE, FALSE, Append(states, "FlowSequenceEntry"), t, n)
    BY <2>6, PushedNodeTyped DEF State, ContentState, SequenceState
  <2>. QED
    BY <2>1, <2>3, <2>4, <2>5, <2>6
<1>2. CASE FlowMappingKeyRest(c, n)
  <2>1. PICK t \in Peek(c) :
          \/ Fail(ScanError, states, NoToken, n)
          \/ Complete("MappingEnd", states, NoToken, TRUE)
          \/ Entry("FlowMappingValue", {"Value", "FlowEntry", "FlowMappingEnd"}, FALSE, FALSE)
          \/ t # ScanError /\ Return("Scalar", "FlowMappingValue", states, t, n)
          \/ parse_node(FALSE, FALSE, Append(states, "FlowMappingEmptyValue"), t, n)
    BY <1>2, Zenon DEF FlowMappingKeyRest, ScanError
  <2>2. NoToken \in Cursor /\ (t # ScanError => t \in Cursor)
    BY PeekTyped, CursorTyped
  <2>3. CASE Fail(ScanError, states, NoToken, n)
    BY <2>2, <2>3, FailTyped DEF Typed, Errors
  <2>4. CASE Complete("MappingEnd", states, NoToken, TRUE)
    BY <2>2, <2>4, CompleteTyped DEF Typed, Event
  <2>5. CASE Entry("FlowMappingValue", {"Value", "FlowEntry", "FlowMappingEnd"}, FALSE, FALSE)
    BY <2>5, EntryTyped DEF ScanError, State, ContentState, MappingValueState
  <2>6. CASE t # ScanError /\ Return("Scalar", "FlowMappingValue", states, t, n)
    BY <2>2, <2>6, ReturnTyped DEF Typed, Event, State, ContentState, MappingValueState
  <2>7. CASE parse_node(FALSE, FALSE, Append(states, "FlowMappingEmptyValue"), t, n)
    BY <2>7, PushedNodeTyped DEF State, ContentState, MappingValueState
  <2>. QED
    BY <2>1, <2>3, <2>4, <2>5, <2>6, <2>7
<1>. QED
  BY <1>1, <1>2

\* The other flow handlers keep the types.
LEMMA FlowTyped ==
  ASSUME Typed,
         \/ parse_flow_sequence_entry \/ parse_flow_mapping_key
         \/ parse_flow_sequence_entry_mapping_key
         \/ parse_flow_sequence_entry_mapping_value
         \/ parse_flow_sequence_entry_mapping_end
         \/ parse_flow_mapping_value
  PROVE  Typed'
<1>1. CASE parse_flow_sequence_entry \/ parse_flow_mapping_key
  <2>1. \/ FlowSequenceEntryRest(current, FALSE) \/ FlowMappingKeyRest(current, FALSE)
        \/ FlowSequenceEntryRest(NoToken, TRUE)  \/ FlowMappingKeyRest(NoToken, TRUE)
        \/ Fail(ScanError, states, NoToken, FALSE)
        \/ \E t \in Peek(current) :
              /\ t # ScanError
              /\ \/ FlowSequenceEntryRest(t, FALSE) \/ FlowMappingKeyRest(t, FALSE)
                 \/ Fail("UnexpectedToken", states, t, FALSE)
    BY <1>1, Zenon DEF parse_flow_sequence_entry, parse_flow_mapping_key, Separated, ScanError
  <2>2. current \in Cursor /\ NoToken \in Cursor
    BY DEF Typed, Cursor
  <2>3. CASE \E t \in Peek(current) :
               /\ t # ScanError
               /\ \/ FlowSequenceEntryRest(t, FALSE) \/ FlowMappingKeyRest(t, FALSE)
                  \/ Fail("UnexpectedToken", states, t, FALSE)
    <3>1. PICK t \in Peek(current) :
               /\ t # ScanError
               /\ \/ FlowSequenceEntryRest(t, FALSE) \/ FlowMappingKeyRest(t, FALSE)
                  \/ Fail("UnexpectedToken", states, t, FALSE)
      BY <2>3
    <3>2. t \in Cursor
      BY <2>2, <3>1, PeekTyped, CursorTyped
    <3>3. "UnexpectedToken" \in Errors
      BY DEF Errors
    <3>. QED
      BY <3>1, <3>2, <3>3, FlowRestTyped, FailTyped DEF Typed
  <2>4. CASE Fail(ScanError, states, NoToken, FALSE)
    BY <2>2, <2>4, FailTyped DEF Typed, Errors
  <2>. QED
    BY <2>1, <2>2, <2>3, <2>4, FlowRestTyped
<1>2. CASE parse_flow_sequence_entry_mapping_key
  <2>1. PICK t \in Peek(current) :
          \/ Fail(ScanError, states, NoToken, FALSE)
          \/ t # ScanError /\ Return("Scalar", "FlowSequenceEntryMappingValue", states, t, FALSE)
          \/ parse_node(FALSE, FALSE,
                        Append(states, "FlowSequenceEntryMappingValue"), t, FALSE)
    BY <1>2, Zenon DEF parse_flow_sequence_entry_mapping_key, ScanError
  <2>2. NoToken \in Cursor /\ (t # ScanError => t \in Cursor)
    BY PeekTyped, CursorTyped DEF Typed
  <2>3. CASE Fail(ScanError, states, NoToken, FALSE)
    BY <2>2, <2>3, FailTyped DEF Typed, Errors
  <2>4. CASE t # ScanError /\ Return("Scalar", "FlowSequenceEntryMappingValue", states, t, FALSE)
    BY <2>2, <2>4, ReturnTyped DEF Typed, Event, State, ContentState, SequenceState, MappingKeyState, MappingValueState, DocumentState
  <2>5. CASE parse_node(FALSE, FALSE,
                        Append(states, "FlowSequenceEntryMappingValue"), t, FALSE)
    BY <2>2, <2>5, PushedNodeTyped DEF State, ContentState, SequenceState, MappingKeyState, MappingValueState, DocumentState
  <2>. QED
    BY <2>1, <2>3, <2>4, <2>5
<1>3. CASE parse_flow_sequence_entry_mapping_value
  <2>1. PICK t \in Peek(current) :
          \/ Fail(ScanError, states, NoToken, FALSE)
          \/ Entry("FlowSequenceEntryMappingEnd",
                   {"FlowEntry", "FlowSequenceEnd"}, FALSE, FALSE)
          \/ t # ScanError /\ Return("Scalar", "FlowSequenceEntryMappingEnd", states, t, FALSE)
    BY <1>3, Zenon DEF parse_flow_sequence_entry_mapping_value, ScanError
  <2>2. NoToken \in Cursor /\ (t # ScanError => t \in Cursor)
    BY PeekTyped, CursorTyped DEF Typed
  <2>3. CASE Fail(ScanError, states, NoToken, FALSE)
    BY <2>2, <2>3, FailTyped DEF Typed, Errors
  <2>4. CASE Entry("FlowSequenceEntryMappingEnd",
                   {"FlowEntry", "FlowSequenceEnd"}, FALSE, FALSE)
    BY <2>2, <2>4, EntryTyped DEF State, ContentState, SequenceState, MappingKeyState, MappingValueState, DocumentState, ScanError
  <2>5. CASE t # ScanError /\ Return("Scalar", "FlowSequenceEntryMappingEnd", states, t, FALSE)
    BY <2>2, <2>5, ReturnTyped DEF Typed, Event, State, ContentState, SequenceState, MappingKeyState, MappingValueState, DocumentState
  <2>. QED
    BY <2>1, <2>3, <2>4, <2>5
<1>4. CASE parse_flow_sequence_entry_mapping_end
  <2>1. PICK t \in Peek(current) :
          \/ Fail(ScanError, states, NoToken, FALSE)
          \/ t # ScanError /\ Complete("MappingEnd", states, t, FALSE)
    BY <1>4, Zenon DEF parse_flow_sequence_entry_mapping_end, ScanError
  <2>2. NoToken \in Cursor /\ (t # ScanError => t \in Cursor)
    BY PeekTyped, CursorTyped DEF Typed
  <2>3. CASE Fail(ScanError, states, NoToken, FALSE)
    BY <2>2, <2>3, FailTyped DEF Typed, Errors
  <2>4. CASE t # ScanError /\ Complete("MappingEnd", states, t, FALSE)
    BY <2>2, <2>4, CompleteTyped DEF Typed, Event
  <2>. QED
    BY <2>1, <2>3, <2>4
<1>5. CASE parse_flow_mapping_value
  <2>1. PICK t \in Peek(current) :
          \/ Fail(ScanError, states, NoToken, FALSE)
          \/ Entry("FlowMappingKey", {"FlowEntry", "FlowMappingEnd"}, FALSE, FALSE)
          \/ t # ScanError /\ Return("Scalar", "FlowMappingKey", states, t, FALSE)
    BY <1>5, Zenon DEF parse_flow_mapping_value, ScanError
  <2>2. NoToken \in Cursor /\ (t # ScanError => t \in Cursor)
    BY PeekTyped, CursorTyped DEF Typed
  <2>3. CASE Fail(ScanError, states, NoToken, FALSE)
    BY <2>2, <2>3, FailTyped DEF Typed, Errors
  <2>4. CASE Entry("FlowMappingKey", {"FlowEntry", "FlowMappingEnd"}, FALSE, FALSE)
    BY <2>2, <2>4, EntryTyped DEF State, ContentState, SequenceState, MappingKeyState, MappingValueState, DocumentState, ScanError
  <2>5. CASE t # ScanError /\ Return("Scalar", "FlowMappingKey", states, t, FALSE)
    BY <2>2, <2>5, ReturnTyped DEF Typed, Event, State, ContentState, SequenceState, MappingKeyState, MappingValueState, DocumentState
  <2>. QED
    BY <2>1, <2>3, <2>4, <2>5
<1>. QED
  BY <1>1, <1>2, <1>3, <1>4, <1>5

-----------------------------------------------------------------------------
(* The document handlers.                                                  *)

DocumentShape ==
  \/ Fails /\ states' = states
  \/ /\ state = "StreamStart"
     /\ event' = "StreamStart" /\ state' = "ImplicitDocumentStart" /\ states' = states
  \/ /\ state \in {"ImplicitDocumentStart", "DocumentStart"}
     /\ \/ event' = "StreamEnd" /\ state' = "End" /\ states' = states
        \/ event' = "DocumentStart" /\ state' = "DocumentContent" /\ states' = states
        \/ /\ event' = "DocumentStart" /\ state' = "BlockNode"
           /\ states' = Append(states, "DocumentEnd")
  \/ /\ state = "DocumentContent"
     /\ Fails \/ Leafs("DocumentEnd") \/ Opens("DocumentEnd")
  \/ /\ state = "DocumentEnd"
     /\ event' = "DocumentEnd" /\ state' = "DocumentStart" /\ states' = states
  \/ state = "BlockNode" /\ NodeShape(states)

DocumentStep ==
  \/ parse_stream_start
  \/ state = "ImplicitDocumentStart" /\ parse_document_start(TRUE)
  \/ state = "DocumentStart" /\ parse_document_start(FALSE)
  \/ parse_document_content
  \/ parse_document_end
  \/ parse_block_node

\* The outcomes of parse_document_start.
LEMMA StartAlternatives ==
  ASSUME Typed, NEW implicit \in BOOLEAN, parse_document_start(implicit)
  PROVE  \E t \in Fetched, skipped \in BOOLEAN :
           \/ Fail(ScanError, states, NoToken, skipped)
           \/ Return("StreamEnd", "End", states, NoToken, TRUE)
           \/ Return("DocumentStart", "DocumentContent", states, NoToken, TRUE)
           \/ /\ t # ScanError
              /\ \/ Fail("StrayContent", states, t, skipped)
                 \/ Return("DocumentStart", "BlockNode",
                           Append(states, "DocumentEnd"), t, skipped)
                 \/ Return("DocumentStart", "DocumentContent", states, t, skipped)
BY Zenon DEF parse_document_start

\* The document-level handlers take a step of one of their shapes,
LEMMA DocumentShapes ==
  ASSUME Typed, DocumentStep
  PROVE  DocumentShape
<1>1. CASE parse_stream_start
  BY <1>1 DEF parse_stream_start, Return, DocumentShape
<1>2. ASSUME NEW implicit \in BOOLEAN, parse_document_start(implicit),
             state \in {"ImplicitDocumentStart", "DocumentStart"}
      PROVE  DocumentShape
  <2>1. PICK t \in Fetched, skipped \in BOOLEAN :
           \/ Fail(ScanError, states, NoToken, skipped)
           \/ Return("StreamEnd", "End", states, NoToken, TRUE)
           \/ Return("DocumentStart", "DocumentContent", states, NoToken, TRUE)
           \/ /\ t # ScanError
              /\ \/ Fail("StrayContent", states, t, skipped)
                 \/ Return("DocumentStart", "BlockNode",
                           Append(states, "DocumentEnd"), t, skipped)
                 \/ Return("DocumentStart", "DocumentContent", states, t, skipped)
    BY <1>2, StartAlternatives
  <2>. QED
    BY <1>2, <2>1 DEF Fail, Return, Fails, Errors, DocumentShape
<1>3. CASE parse_document_content
  <2>1. PICK t \in Peek(current) :
          \/ Fail(ScanError, states, NoToken, FALSE)
          \/ Return("Scalar", "DocumentEnd", states, t, FALSE)
          \/ parse_node(TRUE, FALSE, Append(states, "DocumentEnd"), t, FALSE)
    BY <1>3, Zenon DEF parse_document_content
  <2>2. CASE parse_node(TRUE, FALSE, Append(states, "DocumentEnd"), t, FALSE)
    BY <1>3, <2>2, PushedNode DEF parse_document_content, DocumentShape, Typed, State, DocumentState
  <2>3. CASE \/ Fail(ScanError, states, NoToken, FALSE)
             \/ Return("Scalar", "DocumentEnd", states, t, FALSE)
    BY <1>3, <2>3 DEF parse_document_content, Fail, Return, Fails, Errors, Leafs, DocumentShape
  <2>. QED
    BY <2>1, <2>2, <2>3
<1>4. CASE parse_document_end
  <2>1. \/ Fail(ScanError, states, NoToken, FALSE)
        \/ \E c, n : Return("DocumentEnd", "DocumentStart", states, c, n)
    BY <1>4, Zenon DEF parse_document_end
  <2>. QED
    BY <1>4, <2>1 DEF parse_document_end, Fail, Return, Fails, Errors, DocumentShape
<1>5. CASE parse_block_node
  BY <1>5, ParseNodeShape DEF parse_block_node, DocumentShape
<1>. QED
  BY <1>1, <1>2, <1>3, <1>4, <1>5 DEF DocumentStep

\* and keep the types.
LEMMA DocumentTyped ==
  ASSUME Typed, DocumentStep
  PROVE  Typed'
<1>. USE DEF State, DocumentState
<1>1. CASE parse_stream_start
  BY <1>1 DEF parse_stream_start, Return, Typed, Event, Cursor
<1>2. ASSUME NEW implicit \in BOOLEAN, parse_document_start(implicit)
      PROVE  Typed'
  <2>1. PICK t \in Fetched, skipped \in BOOLEAN :
           \/ Fail(ScanError, states, NoToken, skipped)
           \/ Return("StreamEnd", "End", states, NoToken, TRUE)
           \/ Return("DocumentStart", "DocumentContent", states, NoToken, TRUE)
           \/ /\ t # ScanError
              /\ \/ Fail("StrayContent", states, t, skipped)
                 \/ Return("DocumentStart", "BlockNode",
                           Append(states, "DocumentEnd"), t, skipped)
                 \/ Return("DocumentStart", "DocumentContent", states, t, skipped)
    BY <1>2, StartAlternatives
  <2>2. NoToken \in Cursor /\ (t # ScanError => t \in Cursor)
    BY CursorTyped
  <2>3. Append(states, "DocumentEnd") \in Seq(State)
    BY DEF Typed
  <2>. QED
    BY <2>1, <2>2, <2>3 DEF Fail, Return, Errors, Event, Typed
<1>3. CASE parse_document_content
  <2>1. PICK t \in Peek(current) :
          \/ Fail(ScanError, states, NoToken, FALSE)
          \/ t # ScanError /\ Return("Scalar", "DocumentEnd", states, t, FALSE)
          \/ parse_node(TRUE, FALSE, Append(states, "DocumentEnd"), t, FALSE)
    BY <1>3, Zenon DEF parse_document_content, ScanError
  <2>2. NoToken \in Cursor /\ (t # ScanError => t \in Cursor)
    BY PeekTyped, CursorTyped DEF Typed
  <2>3. CASE Fail(ScanError, states, NoToken, FALSE)
    BY <2>2, <2>3, FailTyped DEF Typed, Errors
  <2>4. CASE t # ScanError /\ Return("Scalar", "DocumentEnd", states, t, FALSE)
    BY <2>2, <2>4, ReturnTyped DEF Typed, Event
  <2>5. CASE parse_node(TRUE, FALSE, Append(states, "DocumentEnd"), t, FALSE)
    BY <2>5, PushedNodeTyped
  <2>. QED
    BY <2>1, <2>3, <2>4, <2>5
<1>4. CASE parse_document_end
  <2>1. PICK t \in Peek(current) :
          \/ Fail(ScanError, states, NoToken, FALSE)
          \/ Return("DocumentEnd", "DocumentStart", states, NoToken, TRUE)
          \/ t # ScanError /\ Return("DocumentEnd", "DocumentStart", states, t, FALSE)
    BY <1>4, Zenon DEF parse_document_end
  <2>2. NoToken \in Cursor /\ (t # ScanError => t \in Cursor)
    BY PeekTyped, CursorTyped DEF Typed
  <2>3. CASE Fail(ScanError, states, NoToken, FALSE)
    BY <2>2, <2>3, FailTyped DEF Typed, Errors
  <2>4. CASE \/ Return("DocumentEnd", "DocumentStart", states, NoToken, TRUE)
             \/ t # ScanError /\ Return("DocumentEnd", "DocumentStart", states, t, FALSE)
    BY <2>2, <2>4, ReturnTyped DEF Typed, Event
  <2>. QED
    BY <2>1, <2>3, <2>4
<1>5. CASE parse_block_node
  BY <1>5, ParseNodeTyped DEF parse_block_node, Typed
<1>. QED
  BY <1>1, <1>2, <1>3, <1>4, <1>5 DEF DocumentStep

-----------------------------------------------------------------------------
(* The step as a whole.                                                    *)

\* Every step is one of the shapes, and keeps the types.
LEMMA StepShape ==
  ASSUME TypeOK, Next
  PROVE  /\ state \in ContentState => ContentShape
         /\ state \in DocumentState => DocumentShape
         /\ Typed'
<1>1. Typed
  BY DEF TypeOK, Typed, Cursor
<1>2. CASE DocumentStep
  <2>1. state \notin ContentState
    BY <1>2 DEF DocumentStep, parse_stream_start, parse_document_content,
       parse_document_end, parse_block_node,
       ContentState, SequenceState, MappingKeyState, MappingValueState
  <2>. QED
    BY <1>1, <1>2, <2>1, DocumentShapes, DocumentTyped
<1>3. CASE \/ parse_block_sequence_entry \/ parse_indentless_sequence_entry
           \/ parse_block_mapping_key \/ parse_block_mapping_value
           \/ parse_flow_sequence_entry \/ parse_flow_mapping_key
           \/ parse_flow_sequence_entry_mapping_key
           \/ parse_flow_sequence_entry_mapping_value
           \/ parse_flow_sequence_entry_mapping_end
           \/ parse_flow_mapping_value
  <2>1. state \notin DocumentState
    BY <1>3 DEF DocumentState, parse_block_sequence_entry,
       parse_indentless_sequence_entry, parse_block_mapping_key,
       parse_block_mapping_value, parse_flow_sequence_entry,
       parse_flow_mapping_key, parse_flow_sequence_entry_mapping_key,
       parse_flow_sequence_entry_mapping_value,
       parse_flow_sequence_entry_mapping_end, parse_flow_mapping_value
  <2>2. ContentShape
    BY <1>1, <1>3, BlockSequenceShape, BlockMappingShape, FlowEntryShape,
       FlowPairShape, FlowValueShape DEF Typed
  <2>3. Typed'
    BY <1>1, <1>3, BlockTyped, FlowTyped
  <2>. QED
    BY <2>1, <2>2, <2>3
<1>. QED
  BY <1>2, <1>3 DEF Next, next_event, DocumentStep

\* The flag that the first document ended without a marker keeps its type.
LEMMA FlagTyped ==
  ASSUME TypeOK, Next
  PROVE  first_document_ended' \in BOOLEAN
<1>1. CASE \E implicit \in BOOLEAN : parse_document_start(implicit)
  <2>1. UNCHANGED first_document_ended
    BY <1>1, Zenon DEF parse_document_start
  <2>. QED
    BY <2>1 DEF TypeOK
<1>2. CASE parse_document_end
  <2>1. UNCHANGED first_document_ended \/ first_document_ended' = TRUE
    BY <1>2, Zenon DEF parse_document_end, SameDocument
  <2>. QED
    BY <2>1 DEF TypeOK
<1>3. CASE UNCHANGED first_document_ended
  BY <1>3 DEF TypeOK
<1>. QED
  BY <1>1, <1>2, <1>3 DEF Next, next_event, SameDocument, parse_stream_start,
     parse_document_content, parse_block_node, parse_block_sequence_entry,
     parse_indentless_sequence_entry, parse_block_mapping_key,
     parse_block_mapping_value, parse_flow_sequence_entry, parse_flow_mapping_key,
     parse_flow_sequence_entry_mapping_key, parse_flow_sequence_entry_mapping_value,
     parse_flow_sequence_entry_mapping_end, parse_flow_mapping_value

\* Parser::new gives a state of the right type.
LEMMA InitTyped == Init => TypeOK
<1>. SUFFICES ASSUME Init PROVE TypeOK
  OBVIOUS
<1>1. first_document_ended \in BOOLEAN /\ took \in BOOLEAN
  BY Zenon DEF Init
<1>2. state \in State /\ states \in Seq(State)
  BY DEF Init, State, DocumentState
<1>3. current \in Token \cup {NoToken} /\ event \in Event
  BY DEF Init, Event
<1>. QED
  BY <1>1, <1>2, <1>3 DEF TypeOK

\* Every variable of the parser keeps its type (TypeOK), whatever tokens
\* the scanner returns.
THEOREM TypeCorrect == Spec => []TypeOK
<1>1. Init => TypeOK
  BY InitTyped
<1>2. TypeOK /\ [Next]_vars => TypeOK'
  <2>1. CASE Next
    BY <2>1, StepShape, FlagTyped DEF TypeOK, Typed, Cursor
  <2>2. CASE UNCHANGED vars
    BY <2>2 DEF vars, TypeOK
  <2>. QED
    BY <2>1, <2>2
<1>. QED
  BY <1>1, <1>2, PTL DEF Spec

-----------------------------------------------------------------------------
(* The stack discipline.                                                   *)

\* The inductive invariant.
IInv == TypeOK /\ StackDiscipline /\ EndMeansStreamEnd

\* Pushing a collection state on a nested stack leaves it nested.
LEMMA NestedPush ==
  ASSUME NEW stk \in Seq(State), Nested(stk), NEW s \in ContentState
  PROVE  Nested(Append(stk, s))
<1>. DEFINE n == Len(stk)
<1>1. n \in Nat /\ n >= 1
  BY DEF Nested
<1>2. /\ Len(Append(stk, s)) = n + 1
      /\ Append(stk, s)[n + 1] = s
      /\ \A i \in 1 .. n : Append(stk, s)[i] = stk[i]
  OBVIOUS
<1>3. Append(stk, s) # <<>>
  BY <1>1, <1>2
<1>4. \A i \in 2 .. n + 1 : Append(stk, s)[i] \in ContentState
  BY <1>1, <1>2 DEF Nested
<1>. QED
  BY <1>1, <1>2, <1>3, <1>4 DEF Nested

\* Popping a nested stack gives a collection state above a nested stack,
\* or the document's end above the empty one.
LEMMA NestedPop ==
  ASSUME NEW stk \in Seq(State), Nested(stk)
  PROVE  \/ /\ Len(stk) = 1
            /\ TopState(stk) = "DocumentEnd" /\ Pop(stk) = <<>>
         \/ /\ Len(stk) > 1
            /\ TopState(stk) \in ContentState /\ Nested(Pop(stk))
<1>. DEFINE n == Len(stk)
<1>1. n \in Nat /\ n >= 1 /\ stk # <<>>
  BY DEF Nested
<1>2. CASE n = 1
  BY <1>1, <1>2 DEF TopState, Pop, Nested
<1>3. CASE n > 1
  <2>1. TopState(stk) \in ContentState
    BY <1>1, <1>3 DEF TopState, Nested
  <2>2. /\ Pop(stk) \in Seq(State) /\ Len(Pop(stk)) = n - 1
        /\ \A i \in 1 .. n - 1 : Pop(stk)[i] = stk[i]
    BY <1>1, <1>3 DEF Pop
  <2>3. Nested(Pop(stk))
    BY <1>1, <1>3, <2>2 DEF Nested
  <2>. QED
    BY <1>3, <2>1, <2>3
<1>4. n = 1 \/ n > 1
  <2>. HIDE DEF n
  <2>. QED
    BY <1>1
<1>. QED
  BY <1>2, <1>3, <1>4, Zenon

\* A state is a document state or a state inside a collection, never both.
LEMMA StatesApart ==
  /\ ContentState \cap DocumentState = {}
  /\ SequenceState \cup MappingKeyState \subseteq ContentState
  /\ State = ContentState \cup DocumentState
BY DEF ContentState, DocumentState, State, SequenceState, MappingKeyState, MappingValueState

\* A step keeps the stack discipline.
LEMMA StackStep ==
  ASSUME IInv, Next
  PROVE  StackDiscipline' /\ EndMeansStreamEnd'
<1>1. /\ states \in Seq(State) /\ state \in State
      /\ event \notin Errors /\ state # "End" /\ StackDiscipline
  BY DEF IInv, TypeOK, Next, Asked
<1>2. CASE state \in ContentState
  <2>1. Nested(states)
    BY <1>1, <1>2 DEF StackDiscipline
  <2>2. ContentShape
    BY <1>2, StepShape DEF IInv
  <2>3. CASE Fails
    BY <1>1, <2>3 DEF Fails, StackDiscipline, EndMeansStreamEnd
  <2>4. ASSUME NEW s \in ContentState, Leafs(s)
        PROVE  StackDiscipline' /\ EndMeansStreamEnd'
    BY <2>1, <2>4, StatesApart DEF Leafs, StackDiscipline, EndMeansStreamEnd, DocumentState, Nested
  <2>5. ASSUME NEW s \in ContentState, Opens(s)
        PROVE  StackDiscipline' /\ EndMeansStreamEnd'
    <3>1. Nested(Append(states, s))
      BY <1>1, <2>1, NestedPush
    <3>2. state' \in ContentState /\ states' = Append(states, s)
      BY <2>5, StatesApart DEF Opens
    <3>. QED
      BY <3>1, <3>2, StatesApart DEF StackDiscipline, EndMeansStreamEnd, DocumentState, Nested
  <2>6. ASSUME NEW e, Closes(e) PROVE  StackDiscipline' /\ EndMeansStreamEnd'
    BY <1>1, <2>1, <2>6, NestedPop, StatesApart
       DEF Closes, StackDiscipline, EndMeansStreamEnd, DocumentState, Nested
  <2>. QED
    BY <2>2, <2>3, <2>4, <2>5, <2>6 DEF ContentShape
<1>3. CASE state = "BlockNode"
  <2>1. states = <<"DocumentEnd">> /\ Len(states) = 1 /\ Nested(states)
    <3>1. states = <<"DocumentEnd">>
      BY <1>1, <1>3 DEF StackDiscipline
    <3>2. Nested(<<"DocumentEnd">>)
      BY DEF Nested
    <3>. QED
      BY <3>1, <3>2
  <2>2. NodeShape(states) \/ Fails
    BY <1>3, StepShape DEF IInv, DocumentState, DocumentShape
  <2>3. TopState(states) = "DocumentEnd" /\ Pop(states) = <<>>
    <3>. HIDE DEF Nested
    <3>1. ~(Len(states) > 1)
      BY <2>1
    <3>. QED
      BY <2>1, <1>1, <3>1, NestedPop, Zenon
  <2>4. \/ Fails
        \/ event' \in {"Scalar", "Alias"} /\ state' = "DocumentEnd" /\ states' = <<>>
        \/ state' \in ContentState /\ states' = states
    BY <2>2, <2>3, StatesApart DEF NodeShape
  <2>. QED
    BY <1>3, <2>1, <2>4, StatesApart DEF Fails, StackDiscipline, EndMeansStreamEnd, DocumentState, Nested
<1>4. CASE state \in DocumentState \ {"BlockNode"}
  <2>1. states = <<>> /\ DocumentShape
    BY <1>1, <1>4, StepShape DEF StackDiscipline, IInv
  <2>2. Append(<<>>, "DocumentEnd") = <<"DocumentEnd">> /\ Nested(<<"DocumentEnd">>)
    BY DEF Nested
  <2>3. \/ Fails
        \/ states' = <<>> /\ state' \in DocumentState \ {"BlockNode", "End"}
        \/ states' = <<>> /\ state' = "End" /\ event' = "StreamEnd"
        \/ states' = <<"DocumentEnd">> /\ state' = "BlockNode"
        \/ states' = <<"DocumentEnd">> /\ state' \in ContentState
    BY <1>4, <2>1, <2>2, StatesApart DEF DocumentShape, Leafs, Opens, DocumentState
  <2>. QED
    BY <1>1, <2>2, <2>3, StatesApart DEF Fails, StackDiscipline, EndMeansStreamEnd, DocumentState
<1>. QED
  BY <1>1, <1>2, <1>3, <1>4, StatesApart

\* The inductive invariant: types, the stack discipline, and no State::End
\* before the end of the stream.
THEOREM Invariant == Spec => []IInv
<1>1. Init => IInv
  <2>1. Init => StackDiscipline /\ EndMeansStreamEnd
    BY StatesApart DEF Init, StackDiscipline, EndMeansStreamEnd, DocumentState
  <2>. QED
    BY <2>1, InitTyped DEF IInv
<1>2. IInv /\ [Next]_vars => IInv'
  <2>1. CASE IInv /\ Next
    BY <2>1, StepShape, FlagTyped, StackStep DEF IInv, TypeOK, Typed, Cursor
  <2>2. CASE IInv /\ UNCHANGED vars
    BY <2>2 DEF vars, IInv, TypeOK, StackDiscipline, EndMeansStreamEnd
  <2>. QED
    BY <2>1, <2>2
<1>. QED
  BY <1>1, <1>2, PTL DEF Spec

\* The stack of continuation states is well nested at every step
\* (StackDiscipline): pop_state inside a document never reaches below the
\* document's own entry.
THEOREM StackDisciplineHolds == Spec => []StackDiscipline
BY Invariant, PTL DEF IInv

\* pop_state's fallback to State::End is never taken inside a document
\* (EndMeansStreamEnd): parsing stops only at the end of the stream.
THEOREM EndOnlyAtStreamEnd == Spec => []EndMeansStreamEnd
BY Invariant, PTL DEF IInv

-----------------------------------------------------------------------------
(* The refinement of EventGrammar.                                         *)

Frame == {"seq", "key", "value", "none"}

\* The frames read off the state stack, one per entry.
LEMMA FramesType ==
  ASSUME NEW stk \in Seq(State), NEW s
  PROVE  /\ FrameOf(s) \in Frame
         /\ FramesOf(stk, s) \in Seq(Frame)
         /\ Len(FramesOf(stk, s)) = Len(stk)
         /\ \A i \in 1 .. Len(stk) :
              FramesOf(stk, s)[i] = FrameOf(IF i < Len(stk) THEN stk[i + 1] ELSE s)
<1>1. \A x : FrameOf(x) \in Frame
  BY DEF FrameOf, Frame
<1>2. Len(stk) \in Nat
  OBVIOUS
<1>3. FramesOf(stk, s) \in [1 .. Len(stk) -> Frame]
  BY <1>1 DEF FramesOf
<1>. QED
  BY <1>1, <1>2, <1>3 DEF FramesOf

\* Replacing the state on top turns the innermost frame.
LEMMA FramesTurn ==
  ASSUME NEW stk \in Seq(State), stk # <<>>, NEW s, NEW r
  PROVE  FramesOf(stk, s)
           = [FramesOf(stk, r) EXCEPT ![Len(FramesOf(stk, r))] = FrameOf(s)]
<1>. DEFINE new == FramesOf(stk, s)
            old == FramesOf(stk, r)
            upd == [old EXCEPT ![Len(old)] = FrameOf(s)]
            n == Len(stk)
<1>1. n \in Nat /\ n >= 1
  OBVIOUS
<1>2. /\ new \in Seq(Frame) /\ Len(new) = n
      /\ \A i \in 1 .. n : new[i] = FrameOf(IF i < n THEN stk[i + 1] ELSE s)
  BY FramesType
<1>3. /\ old \in Seq(Frame) /\ Len(old) = n
      /\ \A i \in 1 .. n : old[i] = FrameOf(IF i < n THEN stk[i + 1] ELSE r)
  BY FramesType
<1>4. FrameOf(s) \in Frame
  BY FramesType
<1>. HIDE DEF new, old
<1>5. upd \in Seq(Frame) /\ Len(upd) = n
  BY <1>1, <1>3, <1>4
<1>6. \A i \in 1 .. n : upd[i] = new[i]
  BY <1>1, <1>2, <1>3
<1>7. new = upd
  BY <1>2, <1>5, <1>6, SMTT(60)
<1>. QED
  BY <1>7 DEF new, old

\* Pushing a continuation s and entering t opens a frame.
LEMMA FramesPush ==
  ASSUME NEW stk \in Seq(State), stk # <<>>, NEW s \in State, NEW t
  PROVE  FramesOf(Append(stk, s), t) = Append(FramesOf(stk, s), FrameOf(t))
<1>. DEFINE up == Append(stk, s)
            new == FramesOf(up, t)
            old == FramesOf(stk, s)
            n == Len(stk)
<1>1. n \in Nat /\ n >= 1
  OBVIOUS
<1>2. up \in Seq(State) /\ Len(up) = n + 1 /\ up[n + 1] = s
      /\ \A i \in 1 .. n : up[i] = stk[i]
  OBVIOUS
<1>3. /\ new \in Seq(Frame) /\ Len(new) = n + 1
      /\ \A i \in 1 .. n + 1 : new[i] = FrameOf(IF i < n + 1 THEN up[i + 1] ELSE t)
  BY <1>2, FramesType
<1>4. /\ old \in Seq(Frame) /\ Len(old) = n
      /\ \A i \in 1 .. n : old[i] = FrameOf(IF i < n THEN stk[i + 1] ELSE s)
  BY FramesType
<1>5. FrameOf(t) \in Frame
  BY FramesType
<1>. HIDE DEF new, old, up
<1>6. \A i \in 1 .. n : new[i] = old[i]
  <2>. TAKE i \in 1 .. n
  <2>1. new[i] = FrameOf(up[i + 1])
    BY <1>1, <1>3
  <2>2. CASE i < n
    BY <1>1, <1>2, <1>4, <2>1, <2>2
  <2>3. CASE i = n
    BY <1>1, <1>2, <1>4, <2>1, <2>3
  <2>. QED
    BY <1>1, <2>2, <2>3
<1>7. new[n + 1] = FrameOf(t)
  BY <1>1, <1>3
<1>8. new = Append(old, FrameOf(t))
  BY <1>1, <1>3, <1>4, <1>5, <1>6, <1>7
<1>. QED
  BY <1>8 DEF new, old, up

\* Popping closes the innermost frame.
LEMMA FramesPop ==
  ASSUME NEW stk \in Seq(State), Len(stk) > 1, NEW r
  PROVE  FramesOf(Pop(stk), TopState(stk)) = SubSeq(FramesOf(stk, r), 1, Len(stk) - 1)
<1>. DEFINE down == Pop(stk)
            top == TopState(stk)
            new == FramesOf(down, top)
            old == FramesOf(stk, r)
            n == Len(stk)
<1>1. n \in Nat /\ n > 1 /\ stk # <<>>
  OBVIOUS
<1>2. down \in Seq(State) /\ Len(down) = n - 1 /\ top = stk[n]
      /\ \A i \in 1 .. n - 1 : down[i] = stk[i]
  BY <1>1 DEF Pop, TopState
<1>3. /\ new \in Seq(Frame) /\ Len(new) = n - 1
      /\ \A i \in 1 .. n - 1 : new[i] = FrameOf(IF i < n - 1 THEN down[i + 1] ELSE top)
  BY <1>2, FramesType, ZenonT(60)
<1>4. /\ old \in Seq(Frame) /\ Len(old) = n
      /\ \A i \in 1 .. n : old[i] = FrameOf(IF i < n THEN stk[i + 1] ELSE r)
  BY FramesType
<1>. HIDE DEF new, old, down, top
<1>5. \A i \in 1 .. n - 1 : new[i] = old[i]
  <2>. TAKE i \in 1 .. n - 1
  <2>1. old[i] = FrameOf(stk[i + 1])
    BY <1>1, <1>4
  <2>2. CASE i < n - 1
    BY <1>1, <1>2, <1>3, <2>1, <2>2
  <2>3. CASE i = n - 1
    BY <1>1, <1>2, <1>3, <2>1, <2>3
  <2>. QED
    BY <1>1, <2>2, <2>3
<1>6. new = SubSeq(old, 1, n - 1)
  BY <1>1, <1>3, <1>4, <1>5
<1>. QED
  BY <1>6 DEF new, old, down, top

\* The mapping, unfolded for the cases the steps need.
Mapped ==
  /\ event \in Errors => PhaseBar = "failed" /\ OpenBar = <<>>
  /\ event \notin Errors =>
       /\ state = "StreamStart" => PhaseBar = "start" /\ OpenBar = <<>>
       /\ state \in {"ImplicitDocumentStart", "DocumentStart"} =>
            PhaseBar = "between" /\ OpenBar = <<>>
       /\ state \in {"DocumentContent", "BlockNode"} => PhaseBar = "root" /\ OpenBar = <<>>
       /\ state = "DocumentEnd" => PhaseBar = "rooted" /\ OpenBar = <<>>
       /\ state = "End" => PhaseBar = "end" /\ OpenBar = <<>>
       /\ state \in ContentState => PhaseBar = "inside" /\ OpenBar = FramesOf(states, state)

\* The values of the refinement mapping in each kind of state.
LEMMA BarValues == Mapped
<1>1. event \in Errors => PhaseBar = "failed" /\ OpenBar = <<>>
  BY DEF PhaseBar, OpenBar
<1>2. event \notin Errors /\ state \in DocumentState => OpenBar = <<>>
  BY StatesApart DEF OpenBar
<1>3. event \notin Errors /\ state \in ContentState => OpenBar = FramesOf(states, state)
  BY DEF OpenBar
<1>4. event \notin Errors =>
       /\ state = "StreamStart" => PhaseBar = "start"
       /\ state \in {"ImplicitDocumentStart", "DocumentStart"} => PhaseBar = "between"
       /\ state \in {"DocumentContent", "BlockNode"} => PhaseBar = "root"
       /\ state = "DocumentEnd" => PhaseBar = "rooted"
       /\ state = "End" => PhaseBar = "end"
  BY StatesApart DEF PhaseBar, DocumentState
<1>5. event \notin Errors /\ state \in ContentState => PhaseBar = "inside"
  BY StatesApart DEF PhaseBar, DocumentState
<1>. QED
  BY <1>1, <1>2, <1>3, <1>4, <1>5 DEF DocumentState, Mapped

\* The same facts after a step.
LEMMA BarValuesNext == Mapped'
BY BarValues, PTL

\* The frame each state inside a collection stands for.
LEMMA FrameValues ==
  /\ \A s \in SequenceState : FrameOf(s) = "seq"
  /\ \A s \in MappingKeyState : FrameOf(s) = "key"
  /\ \A s \in MappingValueState : FrameOf(s) = "value"
BY DEF FrameOf, SequenceState, MappingKeyState, MappingValueState

\* No event of the grammar is an error.
LEMMA NodeEventsAreNoErrors ==
  Errors \cap {"StreamStart", "StreamEnd", "DocumentStart", "DocumentEnd", "Alias",
               "Scalar", "SequenceStart", "SequenceEnd", "MappingStart", "MappingEnd"} = {}
BY DEF Errors, ScanError

\* A step that fails is a Refuse of the grammar.
LEMMA RefuseStep ==
  ASSUME IInv, Next, event' \in Errors
  PROVE  Grammar!GNext
<1>1. event \notin Errors /\ state \in State /\ state # "End"
  BY DEF Next, Asked, IInv, TypeOK
<1>2. PhaseBar \notin {"end", "failed"}
  BY <1>1, BarValues, StatesApart DEF DocumentState, Mapped
<1>3. PhaseBar' = "failed" /\ OpenBar' = <<>>
  BY BarValuesNext DEF Mapped
<1>. QED
  BY <1>2, <1>3 DEF Grammar!GNext, Grammar!Refuse

\* A step inside a collection is a Leaf, Begin, Finish or Refuse.
LEMMA ContentRefines ==
  ASSUME IInv, Next, state \in ContentState, event' \notin Errors
  PROVE  Grammar!GNext
<1>. DEFINE n == Len(states)
            old == FramesOf(states, state)
<1>1. event \notin Errors /\ states \in Seq(State) /\ Nested(states) /\ state \in State
  BY DEF Next, Asked, IInv, TypeOK, StackDiscipline
<1>2. n \in Nat /\ n >= 1 /\ states # <<>>
  BY <1>1 DEF Nested
<1>3. PhaseBar = "inside" /\ OpenBar = old
  BY <1>1, BarValues DEF Mapped
<1>4. old \in Seq(Frame) /\ Len(old) = n /\ old[n] = FrameOf(state)
  BY <1>1, <1>2, FramesType
<1>5. ContentShape
  BY StepShape DEF IInv
<1>6. /\ state' \in ContentState => PhaseBar' = "inside" /\ OpenBar' = FramesOf(states', state')
      /\ state' = "DocumentEnd" => PhaseBar' = "rooted" /\ OpenBar' = <<>>
  BY BarValuesNext DEF Mapped
<1>7. ASSUME NEW s \in ContentState, Successor(s)
      PROVE  FramesOf(states, s) = Grammar!Place(old)
  <2>1. FramesOf(states, s) = [old EXCEPT ![Len(old)] = FrameOf(s)]
    BY <1>1, <1>2, FramesTurn
  <2>2. FrameOf(s) = Grammar!Turn(old[Len(old)])
    BY <1>4, <1>7 DEF Successor
  <2>. HIDE DEF old
  <2>. QED
    BY <2>1, <2>2 DEF Grammar!Place
<1>8. ASSUME NEW s \in ContentState, Successor(s), Leafs(s)
      PROVE  Grammar!GNext
  <2>1. PhaseBar' = "inside" /\ OpenBar' = Grammar!Place(old)
    BY <1>6, <1>7, <1>8 DEF Leafs
  <2>. HIDE DEF old
  <2>. QED
    BY <1>3, <1>8, <2>1 DEF Leafs, Grammar!GNext, Grammar!Leaf
<1>9. ASSUME NEW s \in ContentState, Successor(s), Opens(s)
      PROVE  Grammar!GNext
  <2>1. state' \in ContentState /\ states' = Append(states, s)
    BY <1>9, StatesApart DEF Opens
  <2>2. PhaseBar' = "inside" /\ OpenBar' = FramesOf(Append(states, s), state')
    BY <1>6, <2>1
  <2>3. OpenBar' = Append(Grammar!Place(old), FrameOf(state'))
    <3>1. FramesOf(Append(states, s), state') = Append(FramesOf(states, s), FrameOf(state'))
      BY <1>1, <1>2, FramesPush, StatesApart, SMTT(30)
    <3>. QED
      BY <1>7, <1>9, <2>2, <3>1
  <2>4. \/ event' = "SequenceStart" /\ FrameOf(state') = "seq"
        \/ event' = "MappingStart" /\ FrameOf(state') = "key"
    BY <1>9, FrameValues DEF Opens
  <2>. HIDE DEF old
  <2>. QED
    BY <1>3, <2>2, <2>3, <2>4 DEF Grammar!GNext, Grammar!Begin
<1>10. ASSUME NEW e, Closes(e)
       PROVE  /\ PhaseBar' = IF n = 1 THEN "rooted" ELSE "inside"
              /\ OpenBar' = SubSeq(old, 1, n - 1)
  <2>0. \/ n = 1 /\ TopState(states) = "DocumentEnd"
        \/ n > 1 /\ TopState(states) \in ContentState
    BY <1>1, NestedPop, Zenon
  <2>1. CASE n = 1
    <3>1. state' = "DocumentEnd"
      BY <1>10, <2>0, <2>1 DEF Closes
    <3>2. SubSeq(old, 1, 0) = <<>>
      <4>. HIDE DEF old
      <4>. QED
        BY <1>4
    <3>. QED
      BY <1>6, <2>1, <3>1, <3>2
  <2>2. CASE n > 1
    <3>1. state' \in ContentState
      <4>. HIDE DEF n
      <4>. QED
        BY <1>10, <2>0, <2>2 DEF Closes
    <3>2. FramesOf(states', state') = SubSeq(old, 1, n - 1)
      <4>1. FramesOf(Pop(states), TopState(states)) = SubSeq(old, 1, n - 1)
        BY <1>1, <2>2, FramesPop, Zenon
      <4>. QED
        BY <1>10, <4>1, Zenon DEF Closes
    <3>. HIDE DEF n, old
    <3>. QED
      BY <1>6, <2>2, <3>1, <3>2
  <2>. QED
    BY <2>0, <2>1, <2>2
<1>11. ASSUME state \in SequenceState, Closes("SequenceEnd")
       PROVE  Grammar!GNext
  <2>1. old[Len(old)] = "seq"
    BY <1>4, <1>11, FrameValues
  <2>2. /\ PhaseBar' = IF n = 1 THEN "rooted" ELSE "inside"
        /\ OpenBar' = SubSeq(old, 1, n - 1)
    BY <1>10, <1>11
  <2>. HIDE DEF old, n
  <2>. QED
    BY <1>3, <1>4, <1>11, <2>1, <2>2 DEF Closes, Grammar!GNext, Grammar!Finish
<1>12. ASSUME state \in MappingKeyState, Closes("MappingEnd")
       PROVE  Grammar!GNext
  <2>1. old[Len(old)] = "key"
    BY <1>4, <1>12, FrameValues
  <2>2. /\ PhaseBar' = IF n = 1 THEN "rooted" ELSE "inside"
        /\ OpenBar' = SubSeq(old, 1, n - 1)
    BY <1>10, <1>12
  <2>. HIDE DEF old, n
  <2>. QED
    BY <1>3, <1>4, <1>12, <2>1, <2>2 DEF Closes, Grammar!GNext, Grammar!Finish
<1>. QED
  BY <1>5, <1>8, <1>9, <1>11, <1>12 DEF ContentShape, Fails

\* A step between nodes is a document or stream event, the root node, or a Refuse.
LEMMA DocumentRefines ==
  ASSUME IInv, Next, state \in DocumentState, event' \notin Errors
  PROVE  Grammar!GNext
<1>1. /\ event \notin Errors /\ state # "End"
      /\ state = "BlockNode" => states = <<"DocumentEnd">>
      /\ state # "BlockNode" => states = <<>>
  BY DEF Next, Asked, IInv, StackDiscipline
<1>2. DocumentShape /\ ~Fails
  BY StepShape DEF IInv, Fails
<1>3. /\ state' \in {"ImplicitDocumentStart", "DocumentStart"} => PhaseBar' = "between" /\ OpenBar' = <<>>
      /\ state' \in {"DocumentContent", "BlockNode"} => PhaseBar' = "root" /\ OpenBar' = <<>>
      /\ state' = "DocumentEnd" => PhaseBar' = "rooted" /\ OpenBar' = <<>>
      /\ state' = "End" => PhaseBar' = "end" /\ OpenBar' = <<>>
      /\ state' \in ContentState => PhaseBar' = "inside" /\ OpenBar' = FramesOf(states', state')
  BY BarValuesNext DEF Mapped
<1>4. CASE state = "StreamStart"
  BY <1>1, <1>2, <1>3, <1>4, BarValues DEF Mapped, DocumentShape, Grammar!GNext, Grammar!StartStream
<1>5. CASE state \in {"ImplicitDocumentStart", "DocumentStart"}
  BY <1>1, <1>2, <1>3, <1>5, BarValues
     DEF Mapped, DocumentShape, Grammar!GNext, Grammar!StartDocument, Grammar!EndStream
<1>6. CASE state = "DocumentEnd"
  BY <1>1, <1>2, <1>3, <1>6, BarValues DEF Mapped, DocumentShape, Grammar!GNext, Grammar!EndDocument
<1>7. CASE state \in {"DocumentContent", "BlockNode"}
  <2>1. PhaseBar = "root" /\ OpenBar = <<>>
    BY <1>1, <1>7, BarValues DEF Mapped
  <2>2. \/ event' \in {"Scalar", "Alias"} /\ state' = "DocumentEnd"
        \/ /\ \/ event' = "SequenceStart" /\ state' \in SequenceState
              \/ event' = "MappingStart" /\ state' \in MappingKeyState
           /\ states' = <<"DocumentEnd">>
    <3>1. CASE state = "DocumentContent"
      BY <1>1, <1>2, <3>1 DEF DocumentShape, Leafs, Opens
    <3>2. CASE state = "BlockNode"
      <4>1. TopState(<<"DocumentEnd">>) = "DocumentEnd"
        BY DEF TopState
      <4>. QED
        BY <1>1, <1>2, <3>2, <4>1 DEF DocumentShape, NodeShape
    <3>. QED
      BY <1>7, <3>1, <3>2
  <2>3. CASE event' \in {"Scalar", "Alias"} /\ state' = "DocumentEnd"
    BY <1>3, <2>1, <2>3 DEF Grammar!GNext, Grammar!Leaf
  <2>4. CASE /\ \/ event' = "SequenceStart" /\ state' \in SequenceState
                \/ event' = "MappingStart" /\ state' \in MappingKeyState
             /\ states' = <<"DocumentEnd">>
    <3>1. PhaseBar' = "inside" /\ OpenBar' = FramesOf(<<"DocumentEnd">>, state')
      BY <1>3, <2>4, StatesApart
    <3>2. FramesOf(<<"DocumentEnd">>, state') = <<FrameOf(state')>>
      BY DEF FramesOf
    <3>3. \/ event' = "SequenceStart" /\ OpenBar' = <<"seq">>
          \/ event' = "MappingStart" /\ OpenBar' = <<"key">>
      BY <2>4, <3>1, <3>2, FrameValues
    <3>. QED
      BY <2>1, <3>1, <3>3 DEF Grammar!GNext, Grammar!Begin
  <2>. QED
    BY <2>2, <2>3, <2>4
<1>. QED
  BY <1>1, <1>4, <1>5, <1>6, <1>7 DEF DocumentState

\* The parser implements the event grammar (WellFormedEvents): for every
\* token stream and every depth limit, the events it returns form a
\* well-formed YAML event stream.
THEOREM Refinement == Spec => WellFormedEvents
<1>1. Init => Grammar!GInit
  <2>1. Init => event \notin Errors /\ state = "StreamStart"
    BY DEF Init, Errors, ScanError
  <2>. QED
    BY <2>1, BarValues DEF Mapped, Init, Grammar!GInit
<1>2. IInv /\ [Next]_vars => [Grammar!GNext]_(Grammar!gvars)
  <2>1. CASE IInv /\ Next
    <3>1. state \in ContentState \/ state \in DocumentState
      BY <2>1, StatesApart DEF IInv, TypeOK
    <3>. QED
      BY <2>1, <3>1, RefuseStep, ContentRefines, DocumentRefines
  <2>2. CASE UNCHANGED vars
    BY <2>2 DEF vars, Grammar!gvars, PhaseBar, OpenBar, FramesOf
  <2>. QED
    BY <2>1, <2>2
<1>. QED
  BY <1>1, <1>2, Invariant, PTL DEF Spec, WellFormedEvents, Grammar!GSpec
=============================================================================
