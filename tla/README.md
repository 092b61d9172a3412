# A TLA+ verification of the Quilt cell fabric

These modules model the stateful core of this repository (the reactive engine
with its effectful cells, the double-entry cell ledger, the black-box journal, the
serial and radio wire between a cell's firmware and a desktop) and the crates
around it (the C ABI, the WebAssembly engine, the polyformalism substrate, the
field-edge bridge). TLC checks them on small instances; TLAPS proves the safety
properties for every instance, but for those of the parser of formulas.
Every definition is translated from the source; `PROJECT.json` gives, under
`map`, the lines each stands for.

1. [The system](#1-the-system)
2. [The modules](#2-the-modules)
3. [What is checked](#3-what-is-checked)
4. [Bounds, deadlock and fairness](#4-bounds-deadlock-and-fairness)
5. [What is proved](#5-what-is-proved)
6. [Where the code and its documents differ](#6-where-the-code-and-its-documents-differ)
7. [Abstractions](#7-abstractions)
8. [What is not modelled, and the plan](#8-what-is-not-modelled-and-the-plan)

## 1. The system

A *sheet* is a set of cells: values, formulas, sensors, I/O and four effectful
kinds. The engine evaluates it on demand and propagates changes. Each mutation
is an event; the journal's recorder seals each event of a cell into that cell's
ledger and appends the ledger entry to an append-only file. A physical cell is
a microcontroller that sends 16-byte frames; the arrival peer on the desktop
turns frames into hash-chained walks and pushes readings into sensors.

### Components

| Component | Source | State | Operations |
|---|---|---|---|
| Cell ledger | `packages/core/src/ledger.rs` | genesis, state, next sequence number and ticket, entries, pending inputs | `new`, `with_genesis`, `record(_with)`, `open_input(_with)`, `settle_output(_with)`, `restore_entry`; audits `verify_chain`, `reconcile`, `replay`; serde |
| Journal | `packages/core/src/journal.rs` | the file; a writer's next sequence number, head and sync policy; a recorder's ledgers | `create`, `open_or_create`, `append_*`, `start`, `record_event`, `recover_file`; readers `scan_frames`, `journal_verify`, `journal_replay` |
| Reactive engine | `packages/core/src/engine.rs`, `cells/` | the graph of cells (value, context cache, edges) under one lock; subscriptions; traces | `load_sheet`, `register`, `get`, `call`, `set`, `push`, `subscribe` |
| Arrival peer | `crates/quilt-wire/src/{seq,peer,walks}.rs` | last number, life and chain head per cell; counters; lines written | `on_frame`, `verify` |
| Frame codec | `crates/quilt-wire/src/frame.rs` | the decoder's buffer | `encode`, `decode`, `push` |
| Firmware | `firmware/esp32-cell/esp32_cell.ino` | tick, last sent value, silence, sequence number, counters | `setup`, `loop`, `send_frame` |
| Effectful cells | `packages/core/src/cells/{program,router,api,listener}.rs`, and the runtime handle in `packages/core/src/engine.rs` | none of their own; they call back into the engine, which caches their answers by caller context | evaluate; `fire_listener` |
| Sheet parser | `packages/core/src/parser.rs` | none | `parse_sheet`, `validate_sheet` |
| MCP server | `packages/mcp/src/lib.rs` | an engine | `cell_get`, `cell_call`, `cell_set`, `cell_push`, `register_cell` |
| Command line, terminal and web views | `packages/` | an engine each | I/O over the core |
| Field-edge bridge | `crates/field-edge-bridge` | a sealed ledger of a cell's transitions | `append`, `record_with`, `iter_range`; the field view of an edge |
| Polyformalism | `crates/quilt-polyformalism` | a versioned cell graph, a proof ring, PN counters, a world cell, a state file | `bind`, `forget`, `tick`; `append`; `inc`, `dec`, `merge`; `propose`, `execute`, `verify`, `refine`; `serialize`, `deserialize` |
| WebAssembly core | `crates/quilt-core-wasm` | definitions, readings and compiled formulas | `add_cell`, `from_sheet`, `push`, `get`; `Formula::compile` |
| C ABI | `crates/quilt-cabi` | one process-wide table of ledgers behind a mutex, engine handles, a last error per thread | the exported `quilt_*` functions |
| Live canon, federated tinyML, language bindings | `crates/`, `bindings/` | — | text and floating-point algorithms, ports |

### How they interact

- The engine calls itself: a `get` of a formula gets every formula among its
  dependencies, releasing the cells lock between levels. `set` and `push` notify
  subscribers over channels, then propagate staleness. Threads share the engine
  behind an `Arc`.
- The journal owns ledgers: `record_event` records first, then appends. On
  recovery `journal_replay` feeds `restore_entry`, which is the ledger's only
  entrance for entries it did not make itself.
- A program or a router inside the engine calls the engine again through the
  runtime handle, with its own id as the caller; a listener is fired by an
  embedding program, never by the engine. The MCP server is one more caller.
- Foreign threads reach ledgers through the C ABI's table: each call takes the
  mutex once, and the last error is the thread's own.
- The bridge is a ledger plus a read-only view of its entries. The WebAssembly
  engine is a second, synchronous implementation of cells and formulas; its
  formulas must mean what the first one's mean.
- Firmware and peer share nothing but the frames on a lossy road, and the
  sequence number is all the peer has to tell loss from repetition, reordering
  and reboot.

### What is hard, and what makes it correct

| Component | Hard | Correct when |
|---|---|---|
| Ledger | settlements out of order, entries delivered in any order or altered, null next to "none" | books honest and balanced exactly when every question is answered, tampering evident, only prefixes restored |
| Journal | power loss between write, sync and ack; torn tails; failed writes; rot; restart | what was acknowledged stays readable, a cut is told from corruption, a replay gives the ledgers the process had, nothing wrong is vouched for |
| Engine | operations cut into several critical sections; a cache per context; propagation through a graph | no stale result survives, writes settle, subscribers hear everything, every operation ends |
| Effectful cells | answers cached by caller, cells that delegate to cells, a server that fails, sheets replaced under a caller | accepted sheets can be answered, nobody gets another's answer, `get` reads through, failures are tried again |
| Polyformalism | replica states lost, repeated, late; a ring that wraps over its own history; flags and layouts computed in one place and relied on in another | replicas converge, the ring tells the cells' history, a flag is of the code as it is, a cut file is refused |
| C ABI | two threads making one ledger, resetting the table, failing in calls of their own | each handed-out seal is in the chain, each error is its thread's |
| WebAssembly core | a hand-written grammar; compiled formulas kept beside definitions that are replaced | a text means its one reading, a cell is worth what the sheet now says |
| Wire | loss, repetition, reordering, reboot, wrap of the number; cut writes and noise | walks verify, tears and gaps mean what they say, every whole frame is decoded, heartbeats are on time |

`PROJECT.json` lists these hazards one by one, at the line where each bites,
with the properties that would catch it going wrong.

## 2. The modules

```
Ledger ── CellLedger ── LedgerMirror ── MCCellLedger
   │                            └── LedgerProofs (with FieldHistory)
   ├─ JournalFile ── Journal ── JournalLog ──┬── MCJournalLog
   │                    │           │        └── JournalProofs
   │                    │           └── DurableLog (abstract)
   │                    └── MCJournal
   ├─ CAbi ──────────────┬── BindingProofs (with WasmEngine)
   └─ FieldHistory ──────┤
PnCounter ───────────────┤
OpcodeEngine ────────────┤
WorldCell ───────────────┼── MCCrates
QufFile ─────────────────┤      (the first four: PolyProofs)
WasmJson ─┬─ WasmFormula ┤
          └─ WasmEngine ─┘
Engine ──┬── MCEngine
         └── EngineProofs
SheetParser ── EffectfulCells ── McpServer ──┬── EffectfulProofs
                                             └── MCBoundary
QuiltWire ─┬─ WireLink ──────┬── WireProofs       │
           └─ CellFirmware ──┴────────────────────┘
```

A line of this picture is EXTENDS, except that `JournalLog` instantiates
`DurableLog`, and the `...Proofs` modules, which TLAPS checks, also extend
`Lemmas`: facts about numbers and sequences, and the schemes of induction they
share. The `MC...` modules give constants their values. Two of them also
join components that call one another nowhere: a variable that never changes
(`part` in `MCCrates`, `way` in `MCBoundary`) says which component a behaviour
is of, and the others stand still. That joins the state graphs side by side and
interleaves nothing, so it shows of each component what a run of its own would.

**`Ledger`** is `CellLedger` as a record and each method as an operator from a
ledger to a ledger. `AppendEntry`, `RecordWith`, `OpenInputWith`,
`SettleOutputWith` and `RestoreEntry` keep the method's name. `Restorable` is
the four gates of `restore_entry`. `Balanced`, `ChainIntact`,
`ContinuityIntact` and `Replay` are the audits. `JsonOption` is what serde does
to an `Option<Value>`: `Some(null)` is written as `null` and read back as
`None`.

**`CellLedger`** is one live ledger and its caller. `ledger` is the program's
state; `clock` is the `ts` callers pass; `stateAt`, `opened` and `closed` are
history. Actions: `Record`, `OpenInput`, `SettleOutput`, `Tick`.

**`LedgerMirror`** adds a second ledger fed through `restore_entry` by a
courier that delivers entries late, twice, out of order, altered or from another
cell's ledger (`Deliverable`), and a replay loop (`FeedNext`).

**`JournalFile`** is the file format and its readers, as operators on a file's
content: `ScanFrames`, `JournalVerify`, `JournalReplay` (`ReplayFrame` of one frame after the other),
`Recovered`. A file is
a header and a sequence of chunks; a chunk is the part of one frame's write that
reached the file. `Cuts` are all truncations of a file, at every unit.

**`Journal`** is the writer, the recorder and their world. Append is two steps,
as in the code: `WriteFrame` (`write_all`), then `Ack` (`sync_all`, the new
head, the ack). `record_event` seals into the ledger in the same step as the
write. `Resume` is `open_or_create` with its truncation; `RebuildLedgers` is the
restart the test `writer_resumes_a_recovered_journal_and_chain_stays_contiguous`
prescribes. The environment has `Exit` (the process dies, the operating system
keeps the file), `PowerLoss` (the file falls back to what was synced, or to a cut
of what came after), `BitRot`, and failing writes and syncs. `FailStop` says
whether the caller exits on the first error, as the command line does.

**`DurableLog`** is what the journal promises, without files: a log that grows at
its end, a committed prefix, and failures that take back an uncommitted suffix.
**`JournalLog`** maps the first to the second: `log` is what the readers vouch
for, `committed` the highest sequence number acknowledged after a sync.

**`Engine`** cuts every operation where the code releases the cells lock.
`stack[t]` holds the calls thread `t` is in, innermost first; a frame knows where
it stands (`at`). A `get` of a formula goes `Collect`, `GetDependency` for each
formula it depends on (a nested `get`), `TakeSnapshot`, `Evaluate`, `Store`. A
`set` goes `SetWrite`, `NotifyRead`, `NotifySend`, `Propagate`, `MarkStale` per
dependent, `Recurse`. `load_sheet` and `register` are one critical section each.
Results of formulas are free terms over the formula, the context and the operands
read, so that two results are equal exactly when they were computed from the same
things.

**`QuiltWire`** holds the pure parts: `Verdict`, `Missing` and `Observed` of
the sequence tracker, a walk's `StepLine` and `Torn`, the verifier `Verified`,
the decoder's `Pushed`, and what one tick of the firmware calls for
(`Called`, `Reported`). **`WireLink`** sends numbered frames of several cells
over a road that loses, repeats and swaps them, and reboots cells; `OnFrame` is
the peer's handler. **`CellFirmware`** is `setup` and `loop` with every way the
port may cut up to three write attempts short, and the desktop's decoder reading
what comes out, noise included.

**`SheetParser`** is `validate_sheet` with everything it calls, over sheets whose
cells carry the fields that matter to their kind. **`EffectfulCells`** is the
engine as one caller sees it with api, program, router and listener cells in its
sheets. The code recurses through the runtime handle of scripts and the targets of
rules; the model keeps that recursion as `stack`, the requests in progress, each made
inside the one before, with `turn` the request about to be looked up or the answer on
its way back. A request is refused (`Refuse`: no such cell, or one that is inside
itself), answered from the caller's cache (`Serve`, only of a `call`), passed on to
another cell (`Delegate`) or evaluated (`Evaluate`); an answer goes to the request it
was asked for in, which may cache it too (`Return`). `Get` and `Call` set a request
out, `FireListener` a call of the listener's action; `LoadSheet`, `ParseAndLoad`,
`Register`, `Set` and `Push` are over at once. `answer` is the caller's question and
what came back. **`McpServer`** makes the tools of the server out of them.

**`PnCounter`** has replicas that count and merge, and mail that copies their
states about; `made` and `seen` are the history the counter stands for.
**`OpcodeEngine`** binds, forgets and ticks cells and appends what they hold to the
proof ring. **`WorldCell`** is a program proposed, executed, verified against an
observation and refined. **`QufFile`** computes the layout of a state file as
`serialized_size`, as `serialize` and as `deserialize` do, and lets the medium lose
the end of what was written.

**`WasmFormula`** is the tokenizer, the recursive-descent parser, the evaluator
and the dependencies of a formula; its property compares the parser with a grammar
written apart from it (`Readings`). **`WasmEngine`** is the engine, over a formula
language that is a parameter (`Compiler`, `Mentioned`, `Evaluation`); `MCCrates` gives
it that of `WasmFormula`. `Get` is a recursive function over the set of cells on the
way, and `Worth`, its reference, settles cells round by round. **`WasmJson`** is the
values both speak of.

**`CAbi`** cuts each exported function in three: it enters and clears the thread's
last error, does its work under the mutex, and returns, which is when a failure
becomes the last error. `receipts` keeps the seals callers were handed.
**`FieldHistory`** is the bridge's ledger and the field view of an entry, with
vectors for its numbers and squares for its lengths, so that the identities are
compared exactly.

Definitions commented `Mutant:` are faulty variants of the operator below them.
`PROJECT.json` pairs each checked property with one that breaks it: a property
that no such fault disturbs would say nothing about the code.

## 3. What is checked

### Runs that pass

**`CellLedger`** (`MCCellLedger.cfg`, 412 344 states). Up to three entries and
two tickets, with and without a genesis, forecasts and null outputs, beside a
mirror.

- `BooksHonest`: the chain verifies, the history is continuous, numbers have no gap
  and the state is the last entry's, in whatever order things were recorded and
  settled.
- `TicketsMatch`: a ticket is settled at most once, by an entry carrying its
  own input and time; everything else is still pending, and `reconcile` says
  "balanced" exactly when nothing is.
- `TamperEvident`: editing a field, editing and resealing an inner entry,
  removing or swapping entries, or changing the genesis is reported by
  `verify_chain`.
- `ReplayAgreesUnlessLate`: replaying to now gives the live state, and replaying to
  a past time gives the state of then unless an input of that time or before was
  answered after it (section 6).
- `RoundTrips`: through JSON and back nothing changes unless a forecast is null.
- `AppendOnly`: no step edits or drops an entry, and only an entry moves the
  state.
- `MirrorIsPrefix`, `MirrorCatchesUp`: whatever is delivered, the mirror is a prefix
  of the live chain, and empty if the live chain has a genesis and the mirror none;
  otherwise it catches up.

**`Journal_faults`** (`MCJournal_faults.cfg`, 231 888 states). Two cells, both
sync policies chosen anew at every opening, three frames, two deaths (kills or
power losses) and one failed write or sync, a caller that exits on errors.

- `AckedReadable`: each frame acknowledged after a sync reads back at its place,
  whatever has been lost since, truncations that were not themselves synced
  included.
- `LiveIsReplay`: a running recorder holds exactly the ledgers a replay of its
  file gives, and its writer stands at the file's end.
- `TruncationIsHonest`: the recovery contract of `docs/JOURNAL.md`, at every unit
  of every file reached.
- `WritableAgain`: once anything was acknowledged, a dead recorder comes back.
- `ImplementsDurableLog`: seen through its readers the file is a durable log.

**`Journal_damage`** (`MCJournal_damage.cfg`, 911 897 states). The worst caller
and the worst disk: it goes on after a failed write, may call `start` on a
resumed writer, dies twice, and one frame rots in its body or its length prefix.

- `NeverSilentlyWrong`: the readers vouch only for frames the writer appended,
  and the ledgers they rebuild have whole chains and continuous histories.
- `CorruptionKept`: a complete frame that intact length prefixes lead to leaves the
  file only with the power, never by a recovery, a resume or a failed write, its body
  or CRC rotten or not; and while such a frame is rotten no writer opens the file.
  (Of a frame whose length prefix is rotten this is false, see `Journal_length`.)

**`Engine_sequential`** (`MCEngine_sequential.cfg`, 1 097 145 states). One thread,
five operations, two contexts, a value, a sensor and a chain of two formulas of
which one may fail; sheets are replaced and a cell registered in between.

- `FreshWhenQuiet`: a cached result is what evaluating it now would give.
- `FreshAnswers`: what a `get` or `call` returns is what the cell is worth.

**`Engine_threads`** (`MCEngine_threads.cfg`, 393 126 states). Two threads that
write, one that also gets.

- `WritesSettle`: when all is quiet a cell holds what was written last.
- `OneEventPerMutation`: as many events as mutations, each with a value a
  mutation wrote. (*Which* values is refuted, see section 6.)
- `OperationsFinish`: no thread waits for ever and propagation ends.

**`Crates`** (`MCCrates.cfg`, 2 269 791 states). One component to a behaviour.

- `SeenDeterminesState`, `ValueCountsUpdates`: a replica's counter is exactly the
  updates that reached it, so no loss, repetition or delay of mail makes one count
  twice or get lost, and the value is the increments less the decrements.
- `RingTellsHistory`: the ring, walked oldest first, is the last entries appended;
  ticks and versions in it only rise, and in one life of a cell a version names
  one value, over the wrap of the ring and the forgetting of cells.
- `VerifiedIsOfThisCode`: nothing is called verified but the program that comes
  within the tolerance of an observation.
- `QufReadsBack`: the size computed beforehand is room enough, a whole file reads
  back as it was written, and a file cut anywhere is refused or reads as all of it.
- `TextCompilesAsRead`: every text typed compiles exactly to the one reading the
  grammar has, or to an error where it has none.
- `TextEdgesAgree`: of the cells a word names, the native engine finds by searching a
  text that compiles exactly those the formula depends on, those that bear the name of
  a function it calls and those called `true` or `false` where it says so (section 6).
- `GetIsWorth`: `get` answers with what a cell is worth by the definitions and
  readings of now, whatever they replaced.
- `ReceiptsStay`: since the table was last emptied, the seals handed out for a cell
  are exactly those of its chain, which verifies from its acknowledged genesis.
- `LensesAgree`: the identities of the field view hold of every edge sealed.

**`Boundary`** (`MCBoundary.cfg`, 5 331 815 states). What crosses the boundary of the
cells, one way to a behaviour. *On the air*: two cells, five frames, one loss, two
repetitions, one swap and a reboot of each, numbers starting just before half of them
or just before the wrap. *On a serial line*: four ticks, every cutting of every write,
one byte of noise. *Calls*: eleven sheets of api, program, router and listener cells,
among them one that delegates in a circle and four that are refused or oddly named,
asked by callers of two rows and by the MCP server, over a network that answers or
refuses.

- `WalksVerify`: the verifier accepts the peer's lines, one walk per cell and one
  more per restart.
- `TearsAreExplained`: two lines of a cell one after the other are in one walk if
  their frames are of one life of the cell, in the order sent and less than half of
  all numbers apart. So no loss and no repetition tears a walk: only a reordering, a
  reboot or the loss of half of all numbers does. (That restarts are at most swaps
  and reboots, as one might count instead, is false: one swap across one reboot, of
  frames that were repeated, tears a walk three times.)
- `EveryLossCounted`: on a road that keeps the order, the gaps counted for a cell
  are at every moment exactly its frames lost between two that arrived.
- `EverySentFrameDecoded`: after the last byte of a frame the decoder has handed out
  exactly the frames written in full, in order.
- `DroppedFramesAreGaps`: the sender's count of given-up frames is the
  receiver's count of gaps plus those at either end, as long as no two frames sent
  one after the other are half of all numbers apart (`WithinHalf`: in the code it
  takes 32 767 frames given up in a row).
- `NeverSilentForLong`: the silence is shorter than the heartbeat, and the last
  reported value within `EPS` of the reading.
- `AcceptedSheetsAnswer`: on a sheet the parser accepted no evaluator ends at a cell
  that is not there or a field that is missing, and one that never ends was asked of
  delegations that go round.
- `OwnRowAnswers`: no caller gets what was computed for another row, whatever was
  cached on the way, at any depth of calls within calls.
- `GetReadsThrough`: a program asked by `get` for another cell's data answers with
  the data of now.
- `FailuresAreRetried`: an answer that is a server's failure is that of a request
  made for it.

### Runs that find a violation

Each checks one sentence of a document or comment against what the code does:
`Journal_oversize`, `Journal_null`, `Journal_length`, `Engine_stale`, `Engine_deaf`.
Section 6 tells them.

## 4. Bounds, deadlock and fairness

Every `Max...` constant bounds a counter in the guard of the actions that raise
it, so each model stops when its budgets are spent; that is why every
configuration says `CHECK_DEADLOCK FALSE`. That the code itself does not get
stuck is stated as liveness instead (`OperationsFinish`, `WritableAgain`,
`MirrorCatchesUp`).

- *Ledger*: three entries make a first, an inner and a last one, which is what
  the chain, the tampering and the swaps tell apart; two tickets can be settled in
  either order; one tick of the clock separates a question from its answer.
- *Journal*: three frames are the sheet and two events. Two deaths let the second
  strike while the first is being recovered, which is when an unsynced truncation
  matters. One failure leaves one partial frame. `MaxBody` and `BodyOf` make one
  value's frame exactly as large as the reader accepts; in `Journal_oversize` it
  is one unit larger.
- *Engine*: two formulas in a chain are the shortest graph in which propagation
  must recurse. Three to five operations hold a computation, a write under it and
  a later answer. Two threads are enough for every race met, as each is between
  one computation and one write.
- *Wire*: numbers are modulo 16 instead of 2^16. What must hold of the bound is
  that half the range exceeds the frames in play: the losses and reorderings of a
  run never reach it, as they never reach 2^15 on a road that works (the theorems say
  what of it they need). Starting at
  14 crosses the wrap, at 7 the half of the numbers. Frames have three bytes instead of sixteen: a first, a
  middle and a last one, so that a write may be cut at a proper prefix. The
  firmware's heartbeat is two ticks.
- *Effectful cells*: four operations hold a question that caches, a change, and two
  later questions by another caller or in another way. Two rows and two data are
  what an answer can be mistaken for. The sheets hold every kind of rule, script,
  endpoint and condition, and delegations two and three cells deep. A recursion
  that returns to a cell already being asked is cut off as one that never ends.
- *PN counter*: three replicas, of which the third is beyond the arrays (two slots
  for the 256 of the code) and whose updates the code ignores; two updates of each
  sign are the least in which an older state can hide behind a newer one. One letter
  in the mail may be delivered any number of times and at any time.
- *Proof ring*: two slots and three appends wrap it; four binds and forgets make,
  change, forget and make a cell again.
- *State file*: none, one or two of each row, a ladder of the default length, of two
  and of nine buckets (one more than the row holds), proofs shorter and longer than
  an alignment unit; every length it may be cut to.
- *Formulas*: typed in three ways. Letter by letter, every text of up to five of
  thirteen characters: enough for each way a number, a word or an operator of one or two
  characters is cut off or runs into the next. Piece by piece, every text of up to five
  of thirteen pieces (a word, a truth value, a function's name with its parenthesis,
  parentheses, a comma, an operator of each level, both signs): `m(x,x)`, the call of two
  arguments, has five, and so has `x<x||x`. Operand by operand, every text of up to five
  operands, each behind any of the thirteen binary operators or behind none: chains of
  four operators from any levels.
  *Engine*: four definitions over three ids, so that one is defined twice, and one
  push; formulas in a chain, in a circle and to a cell that is missing.
- *C ABI*: two threads and four calls: the one makes what the other makes, extends
  or resets between its steps.
- *Field view*: vectors whose norms are mostly not whole, along an axis whose norm is
  not: one near the axis, one that leans away, one longer, one shorter than 1.0, zero,
  and one of another dimension; the first event and one after it.

Fairness is what the code's callers justify:

- `Journal`: weak fairness of `Ack`, `Resume` and `Create`. A process inside
  `append_frame` runs on unless it dies, and a dead recorder is started again.
  Nothing is assumed of events, failures or deaths.
- `Engine`: weak fairness of each thread's `Step`. A thread inside an operation
  is scheduled; no thread has to start one. The cells lock is held for one step,
  so a fair lock is enough.
- `LedgerMirror`: weak fairness of `FeedNext`. The replay loop goes on to its next
  entry.

## 5. What is proved

For all values of the constants, by TLAPS:

| Module | Theorem | States |
|---|---|---|
| `LedgerProofs` | `TypeCorrect` | `Spec => []TypeOK` |
| | `BooksAlwaysHonest` | `Spec => []BooksHonest` |
| | `ChainIsAppendOnly` | `Spec => AppendOnly` |
| | `EveryTicketMatches` | `Spec => []TicketsMatch` |
| | `ReplayAgreesAlways` | `Spec => []ReplayAgreesUnlessLate` |
| | `RoundTripsAlways` | `Spec => []RoundTrips` |
| | `TamperEvidentAlways` | `Spec => []TamperEvident` |
| | `MirrorStaysPrefix` | `MirrorSpec => []MirrorIsPrefix` |
| | `LensesAlwaysAgree` | `[]LensesAgree` of every history of the bridge |
| `JournalProofs` | `NeverSilentlyWrongAlways` | `Spec => []NeverSilentlyWrong` |
| | `CorruptionKeptAlways` | `Spec => CorruptionKept` |
| | `AckedReadableAlways` | `Disciplined /\ Spec => []AckedReadable` |
| | `LiveIsReplayAlways` | `Disciplined /\ Spec => []LiveIsReplay` |
| | `TruncationIsHonestAlways` | `Disciplined /\ Spec => []TruncationIsHonest` |
| | `ImplementsDurableLogAlways` | `Disciplined /\ SeenSpec => ImplementsDurableLog` |
| `EngineProofs` | `WritesSettleAlways` | under `Calm`, `Spec => []WritesSettle` |
| | `OneEventAlways` | under `Calm`, `Spec => []OneEventPerMutation` |
| | `FreshWhenQuietAlways` | under `OneAtATime`, `Spec => []FreshWhenQuiet` |
| | `FreshAnswersAlways` | under `OneAtATime` and `CallsValues`, `Spec => FreshAnswers` |
| `WireProofs` | `WalksAlwaysVerify` | `LinkSpec => []WalksVerify` |
| | `TearsAlwaysExplained` | `LinkSpec => []TearsAreExplained` |
| | `EveryLossAlwaysCounted` | `LinkSpec => []EveryLossCounted`, losses fewer than half of all numbers |
| | `NeverSilent` | `[]NeverSilentForLong` of the firmware |
| | `EverySentFrameAlwaysDecoded` | `[]EverySentFrameDecoded` of firmware and decoder |
| | `DroppedFramesAlwaysGaps` | `[]DroppedFramesAreGaps` of firmware and decoder |
| `PolyProofs` | `VerifiedOfItsOwnCode` | `WorldSpec => []VerifiedIsOfThisCode` |
| | `StateIsWhatWasSeen` | `CounterSpec => []SeenDeterminesState` |
| | `SameUpdatesSameState` | two replicas the same updates reached have the same counter and value |
| | `ValueIsWhatWasSeen` | `CounterSpec => []ValueCountsUpdates` |
| | `RingTellsAlways` | `[]RingTellsHistory` of the versioned engine |
| | `QufAlwaysReadsBack` | `[]QufReadsBack` of the state file |
| `EffectfulProofs` | `AcceptedSheetsAlwaysAnswer` | `Spec => []AcceptedSheetsAnswer` |
| | `OwnRowAlwaysAnswers` | `Spec => []OwnRowAnswers` |
| | `GetAlwaysReadsThrough` | `Spec => []GetReadsThrough` |
| | `FailuresAreAlwaysRetried` | `Spec => []FailuresAreRetried` |
| `BindingProofs` | `TableIsTheRecords` | `AbiSpec => []ReceiptsStay` |
| | `LastErrorAlwaysOwn` | `AbiSpec => []LastErrorIsOwn` |
| | `GetIsAlwaysWorth` | `WasmSpec => []GetIsWorth` |

**Recursion.** What a fold over a file, a stream or a vector computes is a recursive
function here, `g[n \in 0..N] == IF n = 0 THEN ... ELSE ... g[n - 1] ...`, and it is
reasoned about in two steps. An existence lemma of its own (`UnitsExist`,
`DecodesExist`, `SumsExist`, ...) shows that some function satisfies the equation,
so that the one the definition chooses does. A proof by induction defines the *set*
of the numbers its claim holds of and shows with `Induct` (module `Lemmas`) that
they are all.

### The ledger

The assumptions are `LedgerAssumption` (inputs, outputs and forecasts carry values,
bounds are naturals) and `NullIsAValue`. Nothing is assumed of `Value` but that it
holds null. The first theorems assume nothing of `Sha256` but that it is a function;
`TamperEvident` and the mirror need that it has no collisions, which in the model it
has not, being a free constructor (`ShaInjective`).

*Books.* The invariant is `IInv == TypeOK /\ BooksHonest`. `BooksHonest` is
inductive only in the strong form it has: that the chain verifies is not preserved
alone, as the next entry's number, predecessor and `before` come from `nextSeq`, the
last entry and `state`. `AppendFacts` says what the appended sequence holds at each
place, `AppendEntryShape` unfolds `append_entry` into the fields it leaves, and
`AppendEntryHonest` shows that honest books stay honest under it. `TakePending`
shows that removing a pending input leaves the books alone; `SettleHonest` puts the
two together. `StepKeepsBooks` has a step per action of `Next`.

*Tickets.* `TicketsMatch` looks at the tickets pending as a set and, in
`reconcile`'s verdict, at a number. Neither is inductive: a set does not see a ticket
pending twice, nor a number what is counted. So `TicketInv` adds to `IInv` that each
pending input carries its ticket's question and no other has that ticket
(`PendingMatch`), that the pairs of tickets and entries are one to one and agree on
the question (`ClosedMatch`), and that a ticket is pending exactly when it is in no
pair (`EitherOr`); `Counted` follows along.

*Time.* `TimeInv` adds that whatever is waiting was asked by now, that an entry was
asked before it was answered and answered by now, and `PastState`: what `state()` was
at the end of each past time is what a *prefix* of the chain leaves, namely the
entries answered by then. `Replay` keeps entries by the time they were asked, so it
gives that prefix exactly when no question of that time is answered later. It also
gives what an entry is made of, which is what reading it back from JSON
(`RoundTrips`) and altering it (`TamperEvident`) need. Of the edits, the one of an
inner entry resealed is caught by the next entry's link; the removal and the swap by
the number.

*The mirror.* `MirrorAssumption` says that the other cell is another cell. `MInv`
says that the live ledger is honest and typed, that the mirror has honest books of
its own, and that its entries are the live ones as far as they go. `AlteredIsSeen`
is that an entry altered without a new seal does not recompute, and
`OnlyTheNextPasses` that of all that the courier may deliver only the live chain's
next entry passes the gates of `restore_entry`.

*The lenses.* The identities of the field view are algebra: that a dot product is
bilinear (by induction over the components), and the Cauchy-Schwarz inequality, from
the discriminant of the square of a combination. A length is the root of a whole number
and mostly no whole number itself, so the view keeps squares, and `x + y sqrt(N)` for
what mixes the lengths of the two states; `NotNegative` compares such numbers without
roots. `FieldAssumption` is all that is assumed: the vectors are any sequences of whole
numbers, of any unit.

### The journal

`NeverSilentlyWrong` holds of every configuration: of the careless caller, the
oversized body, the null event and the rotting medium too. Its invariant,
`OnlyAppended`, says of every chunk of the file and of the durable part that it is
a frame the writer appended; what the readers rebuild is honest because
`restore_entry` refuses anything else. `CorruptionKept` holds of all of them too: a
scan that starts at the header goes from one frame to the next as long as the length
prefixes are those written. So no frame it reaches is torn (`ReachedIsNotTorn`), a
rotten one makes the verdict neither clean nor torn (`ReachedIsVouched`), and only a
torn tail is cut, or opened again (`TruncationLeavesReached`, `RottenStaysClosed`).

The other theorems are about `Disciplined` configurations: the caller exits on the
first error (as the command line does, `packages/cli/src/main.rs`), starts a recorder
on new journals only, no event is null and no body above `MAX_BODY`, and the medium
does not rot. None of this can be dropped: each clause is a divergence of section 6,
and `Journal_oversize` and `Journal_null` drop one clause each. Policies, crashes, power
losses, torn headers, partial writes, failing syncs and resumes are all included, in
any number.

The invariant `JInv` says:

- `Sound`, of the file and of its durable part: complete frames but for perhaps the
  last, each legible and linked to the one before it, and *every* prefix of them
  replays without a rejection. The last clause is what makes a truncation, at any
  unit, honest.
- `Agree`: what is durable is still in the file. `AckedDurable`: what is acknowledged
  is durable. Together they are `AckedReadable`; a power loss moves the file back to
  the durable part, or to a cut of what lies above it, and neither clause breaks.
- `ProcessState`: an open writer stands at the end of a whole file, or one frame
  before it while that frame is in flight, and a recorder has what a replay of its
  file gives.

That recording and replaying come to the same is `RecordIsRestore` and
`EventReplays`: an entry that `record_with` has just made passes every gate of
`restore_entry` on the ledger as it was. For the refinement, `seen` is a function of
the kept frames (`ShownInv`); `StepImplements` maps a write to the log's append, an
ack to its commit and a power loss or truncation to its failure, and everything else
to a stutter.

### The engine

*Threads.* The first two theorems are about callers that are `Calm`: nobody loads a sheet or registers a
cell while threads run; nobody *calls* a cell that is written (they `get` it); and
what is set is no formula and no value that depends on another cell. The first two
exclude divergences of section 6 (`engine.rs:304`, `engine.rs:433`: a call stores what
it read over what was written meanwhile). The third excludes `set` on a cell whose
value propagation marks stale and a later `get` recomputes, which ends the write as
the code means it to. `Engine_threads` is Calm. The number of threads and operations,
the sheet, and cycles in it are unrestricted.

`EngInv` says, of the graph, that propagation can mark no written cell stale
(`Spared`); of the stacks (`Tame`), that a thread that has to notify or send is in no
inner call and that what it tells was written; of the history, that each cell holds
the value of its last write (`Settled`) and that a wildcard subscriber has been sent
every write but one for each thread that is on its way to send one (`Counted`). The
cardinality of those late threads is why `Thread` need not be finite. TLC checked
`EngInv` on the states of `Engine_threads` before it was proved.

*One thread.* What is cached is fresh only when operations do not overlap:
`Engine_stale` is the run in which they do. So the other two theorems are about one
thread (`OneAtATime`), which may do everything: get, call, set, push, load, register.
The sheets have no cycle of dependencies (`Ranked`, of any depth), since on one a
formula is worth nothing definite and `propagate` need not end. No value cell that
depends on others is called; section 6 says what such a call leaves behind. For
`FreshAnswers`, no sensor or I/O cell is called either (`CallsValues`), as section 6
says of `engine.rs:459`. `Engine_sequential` meets all three.

`Worth` is defined by recursion along the dependencies; `WorthIs` shows by induction
over the rank that some function satisfies its equation, and `WorthAgrees` that cells
that rest on the same values are worth the same in two graphs. `After(g, A)` is what
depends on cells of `A` through however many others, as the least set that is closed
under dependents; `WorthOutside` says that a write changes the worth of nothing else.

The invariant `SeqNow` says of the graph that its edges go both ways and are those the
definitions give it (`Edges`), and that callable values are ready (`ValuesReady`). It says of a
write in progress that every formula is fresh *but* those some call on the stack has
still to mark (`FreshBut`, `Unmarked`): what comes after its cell before it has
collected the dependents, the ones to mark and what comes after all of them while it
marks, what comes after the ones to visit while it recurses. It says of a get in
progress that all is fresh and that each call knows what it needs (`Chain`): that a
dependency it has been through has a result of its context (`BeenThrough`), so that
a snapshot holds what its operands are worth and never the null of a missing result,
and that what is about to be stored is what the cell is worth (`ReadingOK`). TLC
checked `SeqNow` on a smaller instance of `Engine_sequential` before it was proved.

### The wire

The assumptions are `QuiltWireAssumption`, `WireLinkAssumption` and
`CellFirmwareAssumption`, none of which limits cells, frames or faults.

*Walks.* The verifier recomputes over all the lines; `WalkInv` says it of each line
when it is written (`Linked`: it recomputes, and opens its walk on `GENESIS` or links
to the latest line before it there), and ties the peer to what it wrote (`HeadsOK`,
`WalksCounted`).

*Numbers.* `NumberInv` says that of two frames of one life the numbers are as far
apart, round the wrap, as the frames themselves. `TearInv` adds that the number a
walk holds is that of its cell's last line, or none after a tear; `InStepIsNoRestart`
is the arithmetic that turns "less than half apart" into the verdict.

*Losses.* `LossInv` says that a frame that is neither in the air nor heard is one the
road lost, so fewer than half of all numbers; and that on an orderly road the air is
sorted, lies ahead of what was heard, and a walk stands at the latest frame heard,
having counted those passed over.

*The firmware.* `SilenceInv` says what the statics are at the end of a tick.

*The decoder.* `DecodeInv` says that between frames the decoder has handed out exactly
the frames sent and holds less than a window. It is kept because a window that
straddles two writes is no frame (`PushedInside`): a frame cut short is never
completed by what follows, and one written in full is found by its last unit.

*Gaps.* `GapInv` says that try `i` is numbered `i - 1`, that the tries before the first
sent and after the last were counted as dropped, and that those between are the
gaps between decoded neighbours, which `WithinHalf` lets be told from a restart.

### The effectful cells

The only assumption is `EffectfulAssumption`: that sheets are sequences of
definitions whose kinds, scripts and routes are among those the model knows. Nothing
is assumed of `Trim`, of how deep cells delegate to cells or whether they do so in a
circle, nor of how many sheets, callers and operations there are.

The four properties speak of the moment an answer has come back; what makes them true
is said of every request on the way. `Good` says what an answer may be to the request
in flight that it answers: it is a failure of the server only if the server refused
(`RetryOK`), it has the caller's row where the cell tells it (`RowOK`), it is the data
of now where a `get` reads through (`ReadOK`), it comes from a field that is there
(`FieldOK`), and it is without end only where a cycle is reached (`CycleOK`).
`EffectInv` says that the embedding program's question is at rest and well answered
(`AtRest`), or that a request is about to be looked up (`Asking`) or an answer is on
its way back and `Good` (`Giving`); in the last two the stack is a chain in which each
request asks what the next one is (`Chained`) and each cell is reached from those
before it along delegations (`Reaching`). Of the graph it says that what is cached
under a row is that row's (`CachesOK`) and that an accepted sheet has what its cells
need (`SheetOK`).

Two strengthenings are worth a word. A cell registered at run time may make a
delegation lead somewhere that led nowhere before, so that a cell which passed its
caller's row on no longer does, or does from then on with caches it filled earlier:
`CachesOK` is therefore said of `MayPassOnRow`, which looks only at those targets that
are there, and which `Register` can only shrink among the cells there were
(`RegisteredFacts`). And `ReadOK` must include that a program asked by `get` ends in
an answer or never: a `qget` that failed would hand the script a map, not the data.
`GoodEvaluated`, `GoodTaken`, `GoodServed` and `GoodRefused` are the four ways an
answer comes about; `AgainIsACycle` is that a request inside itself closes a cycle of
delegations.

### The WebAssembly engine

The theorem is about any formula language: the compiler, the identifiers of an
expression and the evaluator are parameters, of which nothing is assumed.
`WasmAssumption` says that sheets are sequences of definitions of the three kinds.

`WasmInv` is that every formula is kept compiled *from the text now in its cell*, and
that cells are finitely many; a replaced definition takes its formula along
(`AddedOK`). The rest is about one state. The reference, `Worth`, settles cells round
by round; what is settled stays so at the same worth (`RoundMonotone`), and after as
many rounds as there are cells another settles nothing, since until then each settles
one or more (`WorthIsLast`). `get` recurses over the cells on the way:
`InnerExists` shows that some function satisfies that recursion, as each call has one
cell fewer that it has not visited. Then a cell that has settled is answered with its
worth by induction over the rounds, whatever is on the way as long as nothing settled
is (`SettledIsAnswered`), and one that never settles is behind another that never
does, until that one is on the way: an error, by induction over the cells left
(`UnsettledIsError`). That the compiled text is the one that was typed is
`TextCompilesAsRead`, which stays with TLC.

### Polyformalism and the C ABI

*World cell.* The invariant is the property, and that the cell is a record of its own
fields. Nothing is assumed of what programs compute (`Sim`).

*Counter.* The invariant is `CounterInv == CounterTypeOK /\ NoneAhead /\ MailSeen /\
SeenDeterminesState`. What a replica has seen determines its state only because a
merge takes maxima of counts that are each the number of a *prefix* of one peer's
updates: so nobody is ahead of what a peer made (`NoneAhead`) and a state in the mail
is what its sender had seen (`MailSeen`). `MergeLaws` and `MergeUnites` carry it. The
value is a sum over the slots; that it is the number of updates seen is an induction
over them, the updates seen being split by the peer that made them.

*Proof ring.* `Holds` says that the ring's place `k` holds the entry that many from the
last appended, and `AppendedHolds` that writing at the head overwrites the oldest
exactly when it is full. What an entry tells of a cell is kept by `Known`: while its
cell has not been forgotten since, the cell is there at that version or later, with
the same value at the same version.

*State file.* `QufAssumption` bounds counts to their 16 and 8 bits, as the fields'
types do. `SectionsFit` shows that the three computations of the layout, one of them
generous, agree on what lies where. `ReadsAll` shows that reading goes through the
sections to the file as the format keeps it, whatever of the image is left, *if* it is
accepted; `WholeAccepted` that a whole image is. `MediumInv` and `ReadInv` tie them to
the history of the file.

*C ABI.* The assumption is `CAbiAssumption` (stamps are naturals, texts that are JSON
carry values). `BooksOK` says of each ledger in the table that it is a good book
(`GoodBook`) and that the receipts of the table's present life are exactly its seals;
receipts never name a life to come, so a reset strands all of them at once.
`ErrorsOK` keeps, for every point a call stands at, what the thread's last error is.

### Only model-checked

`TextCompilesAsRead` and `TextEdgesAgree` compare the parser of formulas with a grammar
and with a search of the text, for every text: the parser is a recursion over syntax,
declared `RECURSIVE`, and the prover takes no theorem about a module that declares one
(nor, without induction over data, could it prove what a parser does for all texts).
Liveness (`OperationsFinish`, `WritableAgain`, `MirrorCatchesUp`) stays with TLC: the
prover does not reason about fairness.

## 6. Where the code and its documents differ

The five runs that find a violation:

- **`Journal_oversize`** (`journal.rs:1041`). `append_frame` never compares the
  body with `MAX_BODY`; it acknowledges a frame its reader calls corrupt, with
  everything behind it. `docs/JOURNAL.md:31`: "Larger payloads are refused at
  write time."
- **`Journal_null`** (`journal.rs:779`, `ledger.rs:421`). When a cell's state is
  null after an earlier entry, the next entry forecasts `Some(null)`, which JSON
  reads back as `None`. The seal no longer recomputes and the journal of a session
  in which nothing failed does not replay.
- **`Journal_length`** (`journal.rs:362`). A frame is written, synced and acknowledged,
  the process exits and the length prefix rots, to a larger length. `scan_frames` takes
  the complete frame for a torn write, and `open_or_create` cuts it away with all that
  follows. `journal.rs:31-34`: corruption inside a complete frame "is **not** normal, is
  never truncated away, and is always reported". Of a rotten body or CRC the sentence is
  true, and that is `CorruptionKept`.
- **`Engine_stale`** (`engine.rs:315`). A `get` that took its snapshot before a
  `set` stores its result after the `set` has propagated: the old result is cached
  as ready and answers every later `get` and `call` in that context.
- **`Engine_deaf`** (`engine.rs:783`). `subscribe(cell)` makes the id `sub-N`, and
  events go to ids that *contain* the cell's name. The subscriber of `x` hears
  nothing.

Others were met while modelling. Most are behaviours of the models, and the
properties and constants of the passing runs are chosen around them, as the
following says; no run of its own is kept for them.

In the core:

- *Replay* (`ledger.rs:966`) keeps entries by the time of the *input*: an input of
  time 1 answered at time 2 shows in `replay(1)`. `docs/cell-ledger.md:182-184` says
  `replay(t)` always agrees with what `state()` would have returned at `t`. Hence the
  exception of `ReplayAgreesUnlessLate`.
- *A caller that goes on after a failed write* (`journal.rs:1050`) gets acks for
  frames behind a partial one, which no reader reaches: `AckedReadable` needs
  `FailStop`.
- *`start` on a resumed writer* (`journal.rs:1198`) appends a second sheet frame
  and the file is refused from then on; `journal.rs:130` says "exactly once".
- *A divergent report* carries every scanned frame (`journal.rs:583`), where
  `journal.rs:531-533` promises exactly the vouched ones; and a corrupt tail skips
  the semantic pass (`journal.rs:566`), where `journal.rs:509` calls the frames
  before it verified.
- *Two concurrent sets of one cell* (`engine.rs:769`): the event is built from a
  second read, so one value may be told twice and the other never, where
  `engine.rs:54-55` says events are never dropped.
- *A call on a sensor* answers from the context cache that `push` does not clear
  (`engine.rs:459`), and stores back over a concurrent push (`engine.rs:433`),
  where a sensor's value "is whatever the adapter last pushed"
  (`cells/sensor.rs`). `Callable` leaves the sensor out of the passing runs. With
  `Callable = {s}` TLC finds the first as a violation of `FreshAnswers` (one thread),
  the second as one of `WritesSettle` (two threads).
- *A call of a value cell that was marked stale* stores its default as ready again
  (`cells/value.rs:53`, `engine.rs:631`) and tells no dependent: a formula that
  evaluated meanwhile keeps the result it computed from null, where the comment of
  `propagate` says that the next get re-evaluates. Only a value cell that depends on
  another is marked; `OneAtATime` leaves such cells out of what is called.
- *A sheet replaced between two locks* of a `get` makes the thread panic
  (`engine.rs:304`).

In the effectful cells and the parser:

- *`call` caches without the input* (`engine.rs:372`, `context.rs:309`): the key of
  the cache leaves out the call's input and the metadata, so a second call with
  another input gets the first one's answer. For metadata `context.rs` says so; of
  the input no document speaks. `OwnRowAnswers` is of what the key keeps.
- *A failure inside a program* is an ordinary answer of it, cached as ready: only
  failures of the cell's own request are retried (`FailuresAreRetried`).
- *Programs and routers answered by `call`* stay cached when a cell they read
  changes, since scripts declare no dependencies: `GetReadsThrough` is of `get`.
- *Ids with blanks* around them pass the parser, which compares raw ids, and are
  out of reach of the engine, which trims what it is asked for: the exception of
  `AcceptedSheetsAnswer`.
- *Routers in a circle* pass the parser, and a call of one never returns.
- *A listener's watch* makes no dependency, and no code of the engine fires a
  listener: only an embedding program does.
- *`register_cell`* of the MCP server loads a one-cell sheet, which replaces the
  graph (`packages/mcp/src/lib.rs:101`).
- *`CellDef::validate`* asks for an I/O cell's direction; the parser does not.
- *`eval_when`* is called by nothing in the engine, though `context.rs:22-23` says
  who calls it and `lib.rs:33` lists it as done.

In the other crates:

- *`ProofRing::verify`* is always true (`quilt-polyformalism/src/lib.rs:350`) and no
  entry holds the hash of another, where lines 348-349 say that "every entry's
  prev_hash links to the previous entry's state_hash". What the ring does tell is `RingTellsHistory`.
- *A state file* may be made with a ladder of up to sixteen buckets by line 861, and
  the writer panics at the ninth (line 1053). The counts of rows are cut to 16 bits.
- *A quantity* executed with reads carries the flag that a verification without reads
  set (line 668): `VerifiedIsOfThisCode` says what the flag is worth.
- *A peer of 256 or more* counts nothing and says nothing (line 458).
- *A push to a value cell* of the WebAssembly engine is accepted and never shown
  (`quilt-core-wasm/src/engine.rs:142`).
- *The edges of a formula*: the native engine searches the text for each cell's name
  (`packages/core/src/engine.rs:866`), the WebAssembly engine takes the identifiers of
  the syntax tree (`formula.rs:466`), and `quilt-core-wasm/src/engine.rs:18-19` says
  that "the dependency graph matches the native engine's edge detection". It does for
  most cells, but only the native engine finds a cell that is named like a function the
  formula calls, one named `true` or `false` (`formula.rs:361-363` makes constants of
  them), and one whose name is no word, such as `1` or `a-b`. `EdgesAgree` excepts the
  first two exactly and says nothing of the third.
- *Objects* in a native formula's result become null
  (`packages/core/src/cells/formula.rs:516-540`), in a function that calls itself
  the inverse of `json_to_dynamic`.
- *An engine of the C ABI* is made without `into_arc`, so that programs and routers
  panic in it; the panic is caught and told as an error.
- *`iter_range`* (`field-edge-bridge/src/cell_ledger.rs:174`): the window it calls
  "last k entries" has k + 1, and a range that starts at 0 counts the place before
  the first entry as one.
- *The projection chain* `d_mu <= imbalance` (`field_edge.rs:178`,
  `docs/field-edge-ledger-bridge.md:67`, "the three never disagree") fails for
  states whose norms multiply to less than 1.0: hence `LensesAgree` asks
  `DriftWithinSurprise` of the others only.

On the wire:

- *After a tear* the tracker has no last number (`seq.rs:60`): a loss right there
  is not counted and a second backward step is spliced into the new walk. The crate's
  README says "never spliced across the tear" and "every loss observed as a counted
  gap": hence `Orderly` in `EveryLossCounted`.
- *The firmware* sets `last_sent` whether or not the frame went out
  (`esp32_cell.ino:166`, `179`), beside a comment that calls it the value actually
  sent (line 71).
- *A tick in the alarm state* skips its delay (`esp32_cell.ino:168`), beside "1 Hz
  tick" (line 70). The model has no measure of a tick's length.
- *The firmware twin* of `pty_loopback.rs:92` compares with NAN and sends nothing
  at its first reading, where line 80 says it mirrors the loop exactly.

## 7. Abstractions

- SHA-256 is a free constructor: equal digests exactly for equal preimages.
- JSON values are members of `Value`, of which only null is told apart.
  Provenance, distances and surprise totals, functions of other fields, are left
  out.
- Bytes of a file are counted in units: two for the header, one for a length
  prefix, `BodyOf` for a body with its CRC. A CRC fails exactly when the units are
  not one frame's. Power loss leaves a prefix of what was written after the last
  sync; blocks out of order are not considered. A file that was synced is found
  again (its directory entry is assumed durable).
- Journals are the writer's own: a foreign magic and unknown entry types are not
  constructed.
- In the engine a cell's definition is the same in every sheet, so lookups of a
  kind, each under a lock of its own but reading only definitions, are one step.
  Sheets are acyclic: on a cycle of declared dependencies the code recurses for
  ever, which no finite model holds. `Engine` has values, formulas, sensors and I/O
  cells and the threads; `EffectfulCells` the other kinds, one caller at a time.
  Traces, a sensor's default and subscribing while running are left out.
- A script is one step of the runtime handle (answer with a part of the context,
  get, call or set a cell, fail), the endpoint of an api cell is the part of the
  context it names, and a server that answers sends back what it was asked for.
- In the WebAssembly core numbers are integers and a quotient is cut to one; NaN,
  infinities and the digits of a literal are left out.
- FNV hashes are free constructors. What a world cell's program computes is some
  function of its text and its reads (`Sim`). Contents of a state file's rows are
  values, with the widths and offsets of the code.
- The C ABI's callers keep the header's contract on handles; strings the library
  hands out, and their freeing, are left out. An engine is what the library needs to
  know of one.
- The field view's numbers are integers over a unit, its lengths the exact roots of
  integers; the rounding of `f64`, and the `eps` that allows for it, are left out. The
  radial drift `ln(|a| / |b|)` is left out.
- On the byte stream CRC-16 rejects every window that is not one frame. Link
  quality, a float average, is left out.

## 8. What is not modelled, and the plan

Not modelled, and staying so: live canon (pure text over prose, no state);
federated tinyML (floating-point learning); the terminal and web views and the
rest of the command line (presentation and I/O); link quality and TLV (a float
average and a walk over a buffer); the bindings (ports of what is modelled here);
the firmware twin (a test's copy of the modelled loop). Within the modelled
components: traces and subscribing while the engine runs, the radio's RSSI
declarations (`maybe_declare_rssi`), the `law_` functions of polyformalism (tests of
what is modelled) and its table `route_policy`, `NotAJournal` files.

Next, in this order:

1. *Threads over effectful cells*: `Engine` and `EffectfulCells` in one, so that a
   script's calls back interleave with writes.
2. *Firmware on the radio*: the RSSI declarations, composed with `WireLink`.
3. *Subscribing while running*, and a slow subscriber of an unbounded channel.
4. *Proofs*: what is fresh when several threads get and none writes.
