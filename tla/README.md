# noyalib: a verification project in TLA+

noyalib is a YAML library in Rust: a scanner, an event parser, loaders that build
`Value` trees or drive serde directly, a serializer, a lossless syntax tree (CST) with
edits, and entry points that take a stream of documents apart and parse them in
parallel, asynchronously or with error recovery. All paths below are relative to
`src/crates/noyalib/src/`.

This directory holds TLA+ modules that model the parts of the library where state,
ordering or concurrency decide whether it is correct, TLC configurations that check
them on small instances, and proofs, checked by TLAPS, that hold for all instances.
`PROJECT.json` maps every definition to the lines it models.

## 1. Inventory

| Part | Source | State it keeps | Operations | What makes it correct |
|---|---|---|---|---|
| scanner | `parser/scanner.rs`, `parser/scanner/*` | position, indentation stack, simple keys, token queue | `next_token` | every byte is in one token; block starts and ends balance; a simple key is decided before its token leaves the queue |
| event parser | `parser/events.rs` | current state, stack of states, peeked token, `first_document_ended` | `next_event` and its fifteen handlers | the events form a well-nested stream; the stack is never popped below the document; every call makes progress |
| budgets | `parser/budget.rs` | none | predicates on counters | no limit is missed or met early, also where counters saturate |
| meter | `parser/meter.rs` | nine counters; five more shared over a stream (`StreamTally`) | `charge_event`, `charge_alias`, `charge_expansion`, `charge_merge_key` | admitted work is within every budget, refused work is not |
| tree loader | `parser/loader.rs` | frame stack, anchor table, pending keys | `process_event` | the tree is that of the events; aliases and merges resolve to what was anchored before; duplicate keys follow the policy |
| streaming deserializer | `streaming.rs` | one peeked event, anchor recordings, replay stack | serde's visitor calls | what the tree loader would give, or a fallback to it; a visitor that stops early leaves the stream where the next one expects it |
| borrowed values | `borrowed.rs` | frame stack, anchor table | `process`, `push_value`, `on_alias` | reads what the owned loaders read, under the same limits |
| entry points | `de.rs`, `de/*`, `document.rs` | none between calls | `from_str_with_config` tries streaming, then the tree; `post_process_document` | the two paths agree; an error keeps its location |
| include walk | `de.rs` (803-1050), `include.rs`, `include/fs.rs` | stack of sources, byte and node counters | `walk`, `load`, `charge` | cycles and depth are refused, budgets are shared |
| thread-local contexts | `span_context.rs`, `anchors.rs` | one optional context per thread | set, drop, `track`, `peek` | nothing leaks from one parse or serialization to the next |
| document boundaries | `doc_boundary.rs` | pending slice, current start, resume offset, count | `DocumentStream::next`, marker search | the slices partition the text at its `---` markers; the document budget refuses exactly what is too long |
| parallel parsing | `parallel.rs` | the iterator, the results, one shared tally | `parse_with_config`, `_in_pool` | results in source order; budgets over the whole stream; a verdict that does not depend on the schedule |
| streaming decoder | `tokio_async.rs` | the read buffer, `scanned` | `decode`, `decode_eof` under `FramedRead` | the documents of the stream however it is cut into reads; nothing lost; a bounded buffer |
| error recovery | `recovery.rs` | error budget, salvage budget, shared tally | `parse_lenient_with`, `recover_one`, `try_line_truncation` | one value per document; bounded errors and work; one broken document spoils no other |
| CST document | `cst/document.rs`, `cst/document/*`, `cst/anchor.rs`, `cst/annotated.rs`, `cst/entry.rs`, `cst/green.rs`, `cst/builder.rs` | source, green tree, cached value, repair scope, queued edits | set, insert, rename, remove, move, comments, anchors, sessions | an edit either happens whole or leaves the document as it was; value and tree are those of the text; a write stays inside its path |
| serializer | `ser.rs`, `fmt.rs`, `anchors.rs` | output, indentation, shared pointers met | serde's serializer calls, the writers | what is written reads back; sharing is kept |
| values | `value.rs`, `value/*` | a tree; insertion-ordered mappings | insert, remove, path access, merges, interpolation | a map with an order; a path write lands where a path read looks; merges and placeholders keep their laws |
| paths | `path.rs` | none | parse, quote, display, query | a spelled path reads back |
| the rest | `schema*.rs`, `cst/format.rs`, `cst/emit.rs`, `policy.rs`, `simd.rs`, `error.rs`, adapters | none | pure functions | - |

How they interact. A loader owns an event parser, which owns a scanner; it calls
`next_event`, charges the meter for the event and then builds. `from_str_with_config`
runs the streaming deserializer first and the tree loader after it when streaming gives
up. The entry points for streams (`parallel`, `recovery`, the Tokio readers) split the
text with `doc_boundary`, call `from_str_with_config` per document and pass one
`StreamTally` to all calls, the only state several threads share. The thread-local
contexts are set by the entry points and read by serde callbacks.

What is hard here: the push-down automaton with its omitted nodes; charges of several
workers on shared counters, and charges repeated by a second attempt; counters that
saturate; a marker that arrives split over two reads, with a scan offset that outlives
the call; several budgets that shrink from document to document; implicit keys that are
known only after their tokens; recordings replayed inside recordings; edits that repair a
tree locally and must give up without a trace; a writer and a reader that decide
separately what a text means. The hazards with their lines are in `PROJECT.json`. No
property covers the span context of a nested parse (`span_context.rs:252`, whose guard
clears rather than restores), nor an address reused while shared pointers are tracked
(`anchors.rs:95`); what is known to go wrong is in section 4.

## 2. Modules

### EventGrammar, EventParser (`parser/events.rs`)

`EventGrammar` is the contract of the event stream: documents with one root node,
collections closed by their own end event, mappings closed only between two entries.
`EventParser` is the code: one action per handler (`parse_block_mapping_key`,
`parse_flow_sequence_entry`, ...), the variable `states` is the code's stack, `current`
the peeked token. The scanner is an environment that may return any token or an error at
any time, more than the real one does, so the results do not depend on the scanner. Each
handler is one action: a `next_event` call is not interleaved with anything. The consumer
is the loader's loop, which stops at an error, at StreamEnd and at `max_depth`.
`WellFormedEvents` says that `EventParser` implements `EventGrammar`; the refinement
mapping reads the open collections off the state stack (`FramesOf`).

### Budget, Meter (`parser/budget.rs`, `parser/meter.rs`)

`Budget` has the predicates, with `usize` arithmetic of width `UsizeMax`. In `Meter` each
charge of the code is an action: the counters it bumps, in order, up to the first that
refuses. `spent` and `foreign` are ghosts: the exact sums, which never saturate.
`SiblingCharges` is any other parse of the same stream. `Fits` bounds a joined run to
streams whose total stays below `usize::MAX`, where `fetch_add` does not wrap: on a
64-bit machine no input reaches it, since every charge stands for at least a byte of input
or a step of work.

### Loader (`parser/loader.rs`)

Both tree builders run side by side on the same events: `full` is `Loader`, `bare` is
`NoSpanLoader`. Events are those of `EventGrammar`, so `EventParser`'s refinement is what
this module stands on. Each event of `process_event` is an operator on a loader
(`Scalar`, `MappingEnd`, ...), which ends in `push_node` or `push_value`, and an action
that applies it to both. Values carry what the code computes by walking them: the key string
(as lexemes, so that `[1]` and `"[1]"` collide as they do in the code), the cost of an
alias, and the entries a merge offers. Scalar text counts no bytes. Budgets that only
count events may refuse at any event (`Refused`). Ghosts: `seen`, all entries offered to a
mapping; `latest`, the node last completed under an anchor; `paid`, the nodes charged.

The document families of `MCLoader`: keys that collide under all duplicate-key and
non-scalar-key policies; merge keys with aliases; several merge sources for one key (the
longest documents); merge-key policies with plain and quoted `<<`; anchors and tags over
two documents. Caps of two keys and two items, depth three and six alias bytes let every
refusal occur.

### Borrowed (`borrowed.rs`)

`BorrowedBuilder`, fed the same events as the two owned loaders in the same step (`BNext`
conjoins `Loader`'s `Next`). It has no tags and reads a merge key as an ordinary one, so
the comparison (`BorrowedAgrees`) is over configurations without merges and, because the
builder drops them (finding 13), without collections as keys.

### ParallelParse (`parallel.rs`, `de.rs`)

Workers take documents from the iterator, charge the tally one `fetch_add` at a time,
retry with the tree loader where `from_str_with_config` does, and deliver an indexed
result; the caller sorts and returns. A document is the sequence of its charges per
attempt and how each attempt ends. Streams of fewer than four documents take the
sequential path.

### DocBoundary, DocumentStream (`doc_boundary.rs`)

Bytes are reduced to six classes. `DocBoundary` has the marker test and searches as sets
of offsets, from which the code takes the least. `DocumentStream` is the iterator, one
action per way out of `next`, and `Next` is also what `validate_document_budget` and
`split_documents` do with it.

### YamlDecoder (`tokio_async.rs`)

The whole stream is fixed in `Init`, the buffer is the window `head .. fed` of it, and
`Read` delivers any number of bytes, so all chunkings are covered. `FramedRead` (external)
is modelled from its contract: it calls `decode` until it needs more bytes, and
`decode_eof` until it returns `None`; an error ends the stream. One turn of
`decode_step`'s loop is one action.

### Recovery (`recovery.rs`)

The three passes of `recover_one` are actions; the truncation pass is one action per
candidate prefix. A text is reduced to how it parses: always, only with duplicate keys
allowed, or never. `tally` is the stream-wide event counter, which only the strict pass
charges; `fed` and `due` are ghosts. All configurations are checked together: `config` is
chosen in `Init`.

### ScanText, Scanner (`parser/scanner.rs`, `parser/scanner/*`)

A text is a sequence of cells, one per class of character the scanner tells apart; a line
break is one cell. `ScanText` reads the scalars (plain by both paths, single- and
double-quoted, literal and folded) from a position; `Scanner` is the state machine: one
action per fetcher of `fetch_next_token`, and `HandOut` for the rest of `next_token`. The
record `s` is the struct `Scanner`: cursor, indentation stack, flow stack, simple keys
with the number of the token they would precede, queue, counters, directive flags, and the
trivia and comments recorded for the green tree. The limits of the code (1024 characters
for a key, 256 for a name, ...) are constants, small in the configurations.

### Streaming, FromStr (`streaming.rs`, `de.rs`)

`Streaming` has the deserializer: the peeked event, the recording under way, finished
recordings, the replay stack, merge splicing, the duplicate-key policies and the access
objects, whose `Drop` skips what a visitor left. The visitor is nondeterministic: at each
value it picks a target (any, sequence, map, option, enum, ignored, a scalar), may return at
any point, also between a key and its value and before a variant's content, and may ask
again after the end. `FromStr` defines the tree of a document without that machinery
(aliases expanded, merges applied) and compares. `RecordingIncomplete`, `lost` and `astray`
mark the known exceptions (findings 7, 17 and 18), which the properties leave out by name;
`NeverWrong` holds of a mapping left at a value too, which ends in a refusal or in the tree
loader.

### DocumentText, Document (`cst/`)

A document is a block mapping whose values are scalars, aliases or block sequences of
these, given as lines; positions between lines stand for byte offsets. `DocumentText` says
what such a text loads as and when it parses. A line that is an alias carries no scalar of
its own, as in YAML (`TextConstants`, `DocumentConstants` say so of the fragments a caller
may splice). In `Document` a mutator is a function from a document and arguments to
`[ok, doc]`, in the steps of the code: find the site, splice, parse the whole text, compare
with what was meant (`Guarded` and its relatives), restore the snapshot when they differ.
Actions apply them: 20 mutators, and a session (`transaction.rs`) that queues spans and
commits them together. Left out: flow collections beyond `{}` and `[]`, columns, quoting,
comments behind a value, merge keys, nested mappings (so `Entry::or_insert`'s vacant path,
which needs one, is always refused here). Source and cached value do not depend on how the
green tree was made, since `replace_span` parses the whole text either way; the tree is
`GreenTree`'s.

### GreenTree (`cst/builder.rs`, `cst/document/edit.rs`)

The lossless tree, on top of `Scanner`, so over any text of its cells: columns, quoting,
block scalars, flow collections, comments and nesting included. `build_green_tree` scans a
text to its end with `Scanner`'s own operators, records the tokens the code records, and
assembles them with the trivia and comments on a stack of frames, as `TreeBuilder` does.
`try_local_repair_green` is the ladder: every node around the edit, smallest first, entries,
items, mappings and sequences; none when an anchor, alias or tag is involved or a flow
collection encloses the edit; each candidate's new text wrapped in its indentation and a
sentinel (`Wrapped`), built on its own, and spliced in when kind and length match
(`rebuild_with_splice`). No state is added: the property `RepairIsRebuild` looks, at the end
of the scan of a text to edit, at every splice of it. The builder's depth limit and length
limit are left out.

### IndexMap, Value, QueryPath, PostProcess, Values (`value.rs`, `value/*`, `path.rs`, `de.rs`, `include.rs`)

`IndexMap` is the ordered map, parameterised by the key equality, and instantiated twice:
for `Mapping` and for `MappingAny`. `Value` has equality, hash, order and steps into a
tree; `QueryPath` the path grammar with quoting; `PostProcess` the pipeline from a loaded
value to the one returned: includes (walk, fragments, cycles, budgets), placeholders, value
policies. `Values` is a program that holds one value and calls the API on it.

### Emitter, Serialize, RoundTrip (`ser.rs`, `fmt.rs`, `anchors.rs`)

`Serialize` turns a Rust value, with its formatting wrappers and shared pointers, into a
`Value`, and keeps the thread-local table of pointers met; `Emitter` writes a `Value` in
the cells of `ScanText`: style of each string, block and flow layout, hints, tags.
`RoundTrip` composes them with `Scanner`: one call after another on a thread, each
succeeding or failing, each text scanned and composed again.

## 3. Runs

| Run | Checks | Distinct states | Shows |
|---|---|---|---|
| `events` | `StackDiscipline`, `WellFormedEvents`, `AlwaysConsumes` | 28 thousand, `MaxDepth` = 3 | every token sequence over nesting of three; three levels let every collection kind stand in every other and below a third |
| `meter` | `LimitsExact`, `AdmittedStreamWide` | 763 thousand | all budgets, `usize::MAX` = 5 so that every counter can saturate; with and without siblings that charge the tally in between |
| `parallel` | `BudgetHolds`, `ScheduleIndependent` | 8 thousand | two workers and the caller, streams that meet a limit exactly, pass it by one event or by more |
| `loader` | `FramesFollowEvents`, `MappingsByPolicy`, `TreeBounded`, `AnchorScope`, `AllLoadersAgree` | 1.7 million | three builders over six families of documents (section 2), the policies of `ParseConfig` |
| `documents` | `Partition`, `RefusedExactly` | 54 thousand | every text of up to five pieces, up to three documents, limit two |
| `decoder` | `FramesAreDocuments`, `NothingLost`, `Ends` | 532 thousand | every stream of up to six pieces in every chunking, with documents below, at and above both caps |
| `recovery` | `Aligned`, `WithinBudgets`, `BestSalvage` | 254 thousand | streams of up to three documents of six kinds, 64 configurations |
| `scanner` | `KeysHoldTheirTokens`, `Lossless`, `EntriesAligned`, `PlainPathsAgree`, `ScanProgresses`, `RepairIsRebuild` | 733 thousand | six families of texts, every concatenation of their pieces; 21 documents, one per shape of block structure and style, with every splice that takes out at most two cells and puts in one of 18 texts |
| `streaming` | `NeverWrong`, `RefusedRightly`, `Aligned` | 154 thousand | 26 documents in which recordings, replays, merges, repeated keys and skips meet, under every visitor and duplicate-key policy |
| `document` | `SourceStaysValid`, `FailedEditUnchanged`, `SpellingKeepsValue`, `WriteStaysInside` | 577 thousand | eleven documents of up to seven lines, every sequence of two edits, sessions between them |
| `values` | `PathsReadBack`, `WriteLandsWhereRead`, `MergesByLaw`, `InterpolatesOnce`, `IncludesBounded` | 24 thousand | paths of three segments over keys the grammar must quote; trees with merge keys, placeholders and includes that nest, repeat and cycle |
| `roundtrip` | `SharingKept`, `RoundTrip` | 333 thousand | strings of up to four cells in every position, wrappers nested three deep, six configurations, failing and tracking calls in sequence |

Some properties are conjunctions of named parts, each with its own comment:
`LimitsExact` is `NothingSlipsPast` and `RefusedForCause`; `WithinBudgets` is `ErrorCap`,
`WorkBounded` and `ChargedOnce`; `BestSalvage` is `BrokenAlone` and `LongestPrefix`;
`MappingsByPolicy` is `MapByPolicy` and `MergePrecedence`; `TreeBounded` is
`DepthBounded` and `PaidFor`; `AllLoadersAgree` is `LoadersAgree` and `BorrowedAgrees`;
`MergesByLaw` is `MergeLaw` and `MergeKeysLaw`; `Partition` contains `MarkersSeparate`,
`ScheduleIndependent` contains `SourceOrder`, `SourceStaysValid` contains `SessionAssembles`.

Bounds are named in the configurations. In `documents` and `decoder` pieces are single
bytes or a whole `---`, so six pieces give texts of up to eighteen bytes with several
markers; a marker test looks at five bytes, so two neighbouring markers with their
surroundings fit. In `scanner` the key limits are three tokens, six characters and eight
bytes, which the family of long keys passes one by one (a key that ends at a later line, a
key of too many characters, a key already retired by its bytes, in block and in flow
context), and the queue is pruned at six tokens. Splices of two cells remove or join any
two neighbouring tokens of those documents; about 7 700 of them are repaired locally, at
every rung of the ladder (3 500 entries, 900 items, 2 100 mappings, 1 200 sequences). In
`document` two edits are enough for the second to meet the text and the cache the first one
left. In `roundtrip` the scanner's limits are out of the way.

Fairness. `AlwaysConsumes` and `Ends` assume that the consumer keeps calling (weak
fairness of the next-state relation), as the loader's loop and a polled stream do; a
reader that is never ready is not considered.
`ScanProgresses` needs none: it is a statement about each step, from which a scan of a
finite text ends. Deadlock checking is off where the modelled call returns and nothing
happens after it.

## 4. Findings

Where the code and a comment, a doc or a test of the repository disagree, seen while
modelling (most as a counterexample of a property that was first stated as documented).
The models follow the code; a property that would state the documented behaviour is
narrowed, by name, to where it holds.

1. A bare document after `...` is refused once any earlier document ended without `...`:
   `first_document_ended` is never reset (`parser/events.rs:327-332`, whose comment says
   "A bare implicit document after `...` is allowed").
2. Entries that a merge key adds are not counted against `max_mapping_keys`
   (`parser/loader.rs:928`; `de/config.rs:255` documents it as the "Maximum number of keys
   allowed in a single mapping").
3. The text before the first `---` is split into lines at LF only (`doc_boundary.rs:248`),
   while markers and the scanner also accept a lone CR: content can be taken for part of a
   comment.
4. The frame cap counts up to three bytes of an undecided marker (`tokio_async.rs:383-387`:
   "Apply the cap to the next logical document, not the entire read buffer"), so whether a
   document at its limit is accepted depends on how the reads fall. What does hold is
   proved: `RefusedNearLimit`.
5. With `max_errors = 0` nothing is parsed and `is_complete` is true (`recovery.rs:67`).
6. `%TAG` handles of a document without content stay in force for the next one
   (`parser/scanner.rs:1633`). Also in the scanner: the block headers `|12` and `|+-` are
   accepted; `!<!x>` is subject to a `%TAG !` handle although verbatim; an escaped line
   break in a double-quoted scalar is followed by no check of markers or indentation; a
   name one longer than the limit is accepted at the end of the text only.
7. An anchor inside an anchored node is not recorded by the streaming deserializer
   (`streaming.rs:492`), so an alias to it is refused although the tree loader reads it;
   the module doc says "Anchors and aliases are handled natively via event buffering and
   replay." Other differences to the tree loader: an enum written as a mapping is not
   charged to the depth; buffered events lose tags; `IgnoredAny` refuses an empty stream.
8. With an `indent` other than 2, a list of mappings with two or more keys is written with
   its keys at different columns and does not read back (`ser.rs:1474-1512`).
9. A comment, flow or spacing hint right around a tagged or shared block collection loses
   the space before the tag or anchor (`k:!b`, `k:&id001`; `ser.rs:1563-1569`).
10. A tag that cannot be spelled, as the value of a mapping entry, gives `k: "!\t": a`,
    which the reader refuses (`ser.rs:822-838`).
11. Equal keys can hash differently (`value/mapping.rs:795`, against `value/number.rs:427`
    "equal values must hash equal"): a `MappingAny` can hold a key twice.
12. A string kept with `+` chomping loses or gains a break in `LitStr` and `FoldStr`, before
    a `SpaceAfter` and in `to_string_multi` (`ser.rs:1359`, `1888`); a folded hint on a text
    of several lines folds them.
13. `from_str_borrowed` drops a collection used as a key, its value becoming the next key
    (`borrowed.rs:733`), and does not record the anchor of a key.
14. `interpolate_properties_lossy` stops silently at `${}` and leaves the rest of the tree
    as it is (`value.rs:1011-1048`).
15. `push_back` can leave a key twice: the oracle compares shapes, which cannot see it
    (`cst/document.rs:1976`, `5126`), while `set` refuses the same fragment.
16. `set_comment` above an item that is an alias writes above the line of its anchor.
17. An error while a dropped access skips the rest of its collection is swallowed
    (`streaming.rs:1502`, `1734`, against the doc at 705-712).
18. A mapping left between a key and its value is skipped one off: `StreamingMapAccess::drop`
    (`streaming.rs:1734-1753`) takes values two at a time, the pending value and the next key
    as a pair, then its own MappingEnd and the parent's events. What comes of it is a located
    refusal or a fallback to the tree loader. A variant whose content was not read
    (`streaming.rs:1758-1779`, no `Drop`) shifts what is read after it.
19. A local repair compares only the kind and the length of what a fragment parses to
    (`cst/document/edit.rs:142-147`), and the tree it gives is not always the one a full
    parse gives (`tests/cst/cst_incremental.rs:6-23` calls the result "indistinguishable from
    a full re-parse", and compares text and value). A mapping that starts on an item's line
    (`- a: a`, then `b: a` below the first key) is parsed at the item's column, so a first
    entry that loses its value takes the next one as a nested mapping (`Compact`). In `a:`,
    ` b: 1`, `c: 2`, replacing the break after `b: 1` by ` #` makes `c: 2` a comment; the
    repaired tree keeps it as an entry (`Joins`). A first item commented out is replaced by the
    sentinel when that is as long (`Shifted`). Text and value are right in each case; syntax
    reads, comment reads and later repairs see the wrong tree. `RepairIsRebuild` leaves these
    three out by name.

Comments that are only imprecise: the one on `charge_event` says that the merge counter
restarts with a document (only the alias counters do); the one in `parse_with_config` that
a split stream is charged as a single loader would (each document also charges its own
StreamStart and StreamEnd, and an abandoned streaming attempt is charged too). A duplicate
whose key is an alias or a collection is reported by `Loader` at offset 0, by
`NoSpanLoader` at the key.

## 5. Proofs

`EventParser_proofs`, for every `MaxDepth` and every token sequence: type correctness;
`StackDiscipline`; `EndMeansStreamEnd`; and `Refinement`, that the automaton implements
`EventGrammar`. The inductive invariant joins the types with the stack discipline: inside
a document the stack is `DocumentEnd` below states of open collections. Without it a pop
could give any state. The argument goes through shapes: each handler is shown to push,
turn, pop, emit a leaf or fail (the `...Shape` lemmas), and the invariant and the
refinement are proved once per shape.

`YamlDecoder_proofs`, for every stream, chunking and cap: types, `FramesAreDocuments`,
`NothingLost`, `ScannedIsFinal`, `RefusedNearLimit`. The inductive invariant adds that the
buffer starts at a boundary (`HeadIsBoundary`), that documents lie before it
(`FramesBeforeHead`), that the scan offset is inside the buffer, and that at the end of
the stream the buffer reaches to its end (`EofSeesAll`). The key lemma (`Lift`) is that
the buffer and the stream agree on every marker whose next byte is in the buffer, and on
all of them at the end; `FoundIsBoundary` and `NoneIsFinal` turn it into what `decode_step`
may conclude. A step either moves no document (`StillStep`) or cuts at the first boundary
(`CutStep`). It assumes `DecoderAssumption`: streams are sequences of bytes, caps are
numbers.

`Recovery_proofs`, for every stream, configuration and tally limit: `Aligned`,
`WithinBudgets`, `BestSalvage`. Each pass either concludes the document or goes on with
the errors found so far, so the invariant says what a later pass knows of the earlier
ones: the strict pass failed (`Failed`), the second was tried exactly when it is configured
and differs (`Mode`), the longer candidates were hopeless and cost what the byte budget
lost (`Tried`). `BudgetLeft` is what lets a pass run only when its failure can still be
recorded.

`Meter_proofs`, for every width of `usize`, every limit and every sequence of charges:
`LimitsExact` and the action property `AdmittedStreamWide`. The code's counters saturate
(the parse's own) or are shared (the tally); the ghosts do neither. The invariant ties
them together (`Saturated`, `Shared`), and the arithmetic lemmas say when a comparison of
saturated values decides the true ones; a limit equal to `usize::MAX` is no limit.

`ParallelParse_proofs`, for any number of workers, documents, counters and charges:
`BudgetHolds`, `SourceOrder` and `ScheduleIndependent`. A streaming attempt refused by the tally is no error, the
document is parsed again, so a counter past its limit need not have cost a document yet:
the invariant is that it has, or that a tree attempt still under way will charge it
(`Pending`). This rests on `TreeChargesAll`, that the tree loader charges every counter the
streaming attempt of the same document charged. `Owned` says that each document is with
one worker or in the results, which makes sorting the results by document a bijection.
For `ScheduleIndependent` (`VerdictOfTheStream`) the invariant keeps accounts. Until a
counter passes its limit, the tally is the sum over the documents of what each has added
at the point its parse has reached (`Account`), and no document was judged or tried again
for anything but its own content (`OnItsOwn`); together they are `Exact`. The charge that
first takes a counter past its limit ends that, but a document never adds more than it
demands (`WithinDemand`), so the demand of the whole stream is past the limit too
(`Unavoidable`), the tally never comes back (`OverrunKept`), and by `BudgetHolds` the stream
is not accepted. The accounts are sums over prefixes, and their lemmas (`SumChanged`,
`SumMonotone`, `SumPrefix`) are proved by induction up to a bound (`Upto`).

`DocumentStream_proofs`, for every text and every `max_documents`: `Partition` and
`RefusedExactly`. The slices cover the text up to one offset; the scan has passed no
marker beyond the current start except one that the first document absorbs (`Scanning`);
the document starts before the offset are as many as the slices (`Counted`). Markers do
not overlap (`MarkersApart`), so resuming three bytes on passes none. The proof also
shows that the blank test on the last document never fires after a marker.

`Loader_proofs`, for every document, policy and limit: `FramesFollowEvents`, `AnchorScope`,
`LoadersAgree` (the part of the run's `AllLoadersAgree` about the two owned loaders),
`MappingsByPolicy` and `TreeBounded`.
Every event ends in a push, and a push makes a document, gives the innermost frame one
node, or fails (`Step`); from that alone follow the frames (`Follows`) and the anchors
(`Scope`), for one loader at a time. Two loaders agree (`Agree`) when they have the same
error, documents and anchors and, until one fails, frames that differ only in spans
(`Twins`). The invariant needs all three: a `NoSpanLoader` drops a frame where a `Loader`
reports an unexpected end, so they agree only because `Follows` rules that case out. What
a value is made of is never looked into: both loaders compute it from equal arguments.
For `MappingsByPolicy` every open mapping is a `Table`: each row holds the entry `Chosen`
among those met under its key (`Rows`), each key met has a row (`Covered`), rows stand in
the order of first appearance (`InOrder`), and the shapes met under one key are equal
(`OneShape`), which is what makes the shape recorded at an index speak for all of them. A
step adds a row, replaces one or leaves all (`NewRow`, `LastRow`, `FirstRow`). Merging is an
induction over the entries offered: what is `Absorbed` keeps the explicit rows in front
and then the first entry offered under each further key (`OfferStep`, `MergedAbsorbs`).
For `TreeBounded` (`WithinBudgets`) the invariant (`TreeFits`) is about values: a value is
`Valued` when it is taller than every entry it offers to a merge and no lighter than all
of them together. That is what lets a merge copy for free: the entries it copies weigh no
more than the alias that was charged to bring them (`ApplyWeight`, `MergedWeight`), while the
alias itself is dropped. Each frame holds values that fit below it (`FrameFits`); a frame
is charged when it opens, a scalar when it is met, an alias by `resolve_alias`, and a push
costs at most the node it places (`Took`, `Grown`), so the frames' nodes (`Load`) stay
within what was paid plus a whole number of copied `Value`s (`Spent`). It
assumes `SetupsAssumption`: the nodes of a document name anchors of its text, and its
scalars are plain values.

`Document_proofs`, for every text, fragment, key and limit: `SourceStaysValid`,
`FailedEditUnchanged` and `SpellingKeepsValue`. It assumes `TextConstants` and
`DocumentConstants`: the constants have their types, and an alias has no scalar.
- The invariant (`IInv`) is that the document is open (`IsOpen`: a text of lines that
  parses within its limits, and the value it loads as) and that a session's queue fits that
  text (`SessionFits`: spans inside it, no two in conflict). The second part is inductive
  because no mutator runs while a session is open, so the text a span was measured against
  is the text at commit.
- Each mutator is `Sound`: it returns an open document and, when it fails, the one it was
  given. Most of them reduce to `ReplaceSound` under a guard that restores the snapshot
  (`GuardedSound`); walks (`move_item`) go by their last good step; the batch of
  `materialise_aliases_of` may stop half way, which leaves it open (`BatchOpen`). For
  `and_modify` followed by `or_insert` the path is still there after a write (`PathKept`).
- A commit assembles the text from the front. `SessionAssembles` compares it with splices
  from the back: sorting loses no queued edit, and by induction on how many edits are
  done the assembled half and the spliced half meet (`IsHalf`, `UpIsDown`).
- That respelling keeps the value is proved without solving the recursion of `Loaded`.
  What a text loads as is one equation per line. Renaming an anchor gives the same
  equations line by line (`SameEquations`, `RenamedValue`); writing an alias out changes
  one of them, and not its solutions, since the line it names is a scalar
  (`WrittenValue`). Comment edits are compared by the code itself (`CommentSpells`).

Only model-checked: the liveness properties (`AlwaysConsumes`, `Ends`),
since fairness is beyond the prover; everything about texts and trees that is defined by
recursion (`Scanner`, `GreenTree`, `Emitter`, `Streaming`, `Values`, `Borrowed`), since what a recursive
definition computes needs induction over data;
`WriteStaysInside`, whose writes add and drop lines, so that the equations of the two texts
no longer match and have to be solved.

## 6. Plan

Larger texts: nested block mappings in `Document`; `Scanner` composed with `EventParser`.

## 7. Not modelled

- Message formatting, diagnostics and the span context, which decides only which location
  an error reports.
- SIMD byte searches: equal to their scalar fallback, a property of data.
- File-system access (`include/fs.rs`), `io::Write` forwarding, the asynchronous readers
  that drain a reader and parse once.
- Number parsing and printing, base64, schema validation: functions of one value without
  state, over sets too large to enumerate usefully.
- `cst/format.rs`, `cst/emit.rs`, `cst/coerce.rs`: layout of a finished text.
- Adapters to other crates, the singleton-map helpers, the key interner (used by no other
  module of the crate).
