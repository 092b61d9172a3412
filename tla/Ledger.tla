------------------------------- MODULE Ledger -------------------------------
(***************************************************************************)
(* The data structure of packages/core/src/ledger.rs: one CellLedger as a  *)
(* record, and its methods as operators from a ledger to a ledger.         *)
(*                                                                         *)
(* Abstractions.  JSON values are members of Value, of which only Null is  *)
(* told apart.  Provenance, magnitudes and imbalances (functions of the    *)
(* other fields) are left out.  SHA-256 is a free constructor: two seals   *)
(* are equal exactly when the sealed bodies are.                           *)
(***************************************************************************)
EXTENDS Naturals, SequencesExt

CONSTANTS Value,  \* the JSON values in use
          Null    \* serde_json::Value::Null

ASSUME NullIsAValue == Null \in Value

\* Rust's Option: None is the empty tuple, Some(v) a tuple of one.
None == << >>
Some(v) == << v >>
IsSome(o) == o # None
UnwrapOr(o, d) == IF o = None THEN d ELSE o[1]

\* Being a sequence, whatever of.
IsSeq(s) == s \in Seq(ToSet(s))

-----------------------------------------------------------------------------
\* Hashing.

Sha256(preimage) == << "sha256", preimage >>

\* Mutant: the forecast is not sealed.
CanonicalJsonNoForecast(e) == << e.seq, e.ts, e.input, e.outTs, e.before, e.after, e.prev >>

\* The canonical JSON of an entry without its hash field: every other field.
CanonicalJson(e) == << e.seq, e.ts, e.input, e.outTs, e.before, e.after,
                       e.expected, e.prev >>

Seal(e) == Sha256(CanonicalJson(e))

GenesisCommit(l) ==
  Sha256(<< "quilt-cell-ledger/1", l.cell, UnwrapOr(l.genesis, Null),
            l.genesisTs >>)

\* Mutant: every entry names the genesis commit.
ChainHashGenesis(l) == GenesisCommit(l)

ChainHash(l) == IF l.entries = << >> THEN GenesisCommit(l)
                ELSE Last(l.entries).hash

-----------------------------------------------------------------------------
\* Construction and recording.

NewLedger(cell) ==
  [cell |-> cell, genesis |-> None, genesisTs |-> None, state |-> Null,
   nextSeq |-> 1, nextTicket |-> 1, entries |-> << >>, pending |-> << >>]

WithGenesis(cell, genesis, ts) ==
  [NewLedger(cell) EXCEPT !.genesis = Some(genesis), !.genesisTs = Some(ts),
                          !.state = genesis]

\* What the output is scored against: the caller's forecast, else the state
\* before if a prior exists, else nothing.
Scored(l, expected) ==
  IF IsSome(expected) THEN expected
  ELSE IF IsSome(l.genesis) \/ l.entries # << >> THEN Some(l.state)
  ELSE None

NextEntry(l, input, inputTs, output, outputTs, expected) ==
  LET body == [seq |-> l.nextSeq, ts |-> inputTs, input |-> input,
               outTs |-> outputTs, before |-> l.state, after |-> output,
               expected |-> Scored(l, expected), prev |-> ChainHash(l)]
  IN  [seq |-> body.seq, ts |-> body.ts, input |-> body.input,
       outTs |-> body.outTs, before |-> body.before, after |-> body.after,
       expected |-> body.expected, prev |-> body.prev, hash |-> Seal(body)]

AppendEntry(l, input, inputTs, output, outputTs, expected) ==
  LET e == NextEntry(l, input, inputTs, output, outputTs, expected)
  IN  [l EXCEPT !.nextSeq = @ + 1, !.state = output,
                !.entries = Append(@, e)]

RecordWith(l, input, output, ts, expected) ==
  AppendEntry(l, input, ts, output, ts, expected)

\* Mutant: opening moves the state.
OpenInputMovesState(l, input, ts) ==
  [l EXCEPT !.nextTicket = @ + 1, !.state = input,
            !.pending = Append(@, [ticket |-> l.nextTicket, ts |-> ts,
                                   input |-> input])]

OpenInputWith(l, input, ts) ==
  [l EXCEPT !.nextTicket = @ + 1,
            !.pending = Append(@, [ticket |-> l.nextTicket, ts |-> ts,
                                   input |-> input])]

HasTicket(l, ticket) ==
  \E i \in 1..Len(l.pending) : l.pending[i].ticket = ticket

\* Mutant: the oldest pending input is settled, whatever the ticket.
PositionOldest(l, ticket) == 1

\* Where a ticket is, and the ledger with that pending input taken out.
PositionOf(l, ticket) ==
  CHOOSE i \in 1..Len(l.pending) : l.pending[i].ticket = ticket

WithoutPending(l, ticket) ==
  [l EXCEPT !.pending = RemoveAt(@, PositionOf(l, ticket))]

\* The pending input is removed and its transaction joins the chain under the
\* time of the question, not of the answer.  The caller has checked HasTicket;
\* an unknown ticket is an error and changes nothing.
SettleOutputWith(l, ticket, output, ts, expected) ==
  LET p == l.pending[PositionOf(l, ticket)]
  IN  AppendEntry(WithoutPending(l, ticket), p.input, p.ts, output, ts, expected)

\* Mutants: only the seal is checked; the seal is not checked.
RestorableSealed(l, e) == e.hash = Seal(e)
RestorableUnsealed(l, e) ==
  e.seq = l.nextSeq /\ e.prev = ChainHash(l) /\ e.before = l.state

\* The four gates of restore_entry.
Restorable(l, e) ==
  /\ e.seq = l.nextSeq
  /\ e.prev = ChainHash(l)
  /\ e.hash = Seal(e)
  /\ e.before = l.state

\* Mutant: next_seq stays.
RestoreEntryStuck(l, e) ==
  IF Restorable(l, e) THEN [l EXCEPT !.state = e.after, !.entries = Append(@, e)]
  ELSE l

RestoreEntry(l, e) ==
  IF Restorable(l, e)
  THEN [l EXCEPT !.state = e.after, !.nextSeq = @ + 1,
                 !.entries = Append(@, e)]
  ELSE l

-----------------------------------------------------------------------------
\* Auditing and replay.

\* The hash the entry at position i must name as its predecessor.
ExpectedPrev(l, i) == IF i = 1 THEN GenesisCommit(l) ELSE l.entries[i-1].hash

BreaksAt(l, i) == \/ l.entries[i].prev # ExpectedPrev(l, i)
                  \/ l.entries[i].hash # Seal(l.entries[i])

ChainIntact(l) == \A i \in 1..Len(l.entries) : ~ BreaksAt(l, i)

\* The value the entry at position i must carry as its before.
ExpectedBefore(l, i) ==
  IF i = 1 THEN UnwrapOr(l.genesis, Null) ELSE l.entries[i-1].after

ContinuityIntact(l) ==
  \A i \in 1..Len(l.entries) : l.entries[i].before = ExpectedBefore(l, i)

\* reconcile: no open inputs, chain and history whole.  (matched_pairs counts
\* the sides append_entry sets to constants.)
Balanced(l) == l.pending = << >> /\ ChainIntact(l) /\ ContinuityIntact(l)

\* Mutant: the cut is exclusive.
ReplayExclusive(l, untilTs) ==
  LET kept == SelectSeq(l.entries, LAMBDA e : e.ts < untilTs)
  IN  [entries |-> kept,
       state   |-> IF kept = << >> THEN UnwrapOr(l.genesis, Null)
                   ELSE Last(kept).after]

\* The entries whose own time is at or before the cut, in chain order.
KeptUntil(es, untilTs) ==
  LET upTo[n \in 0..Len(es)] ==
        IF n = 0 THEN << >>
        ELSE IF es[n].ts <= untilTs THEN Append(upTo[n - 1], es[n])
        ELSE upTo[n - 1]
  IN  upTo[Len(es)]

\* replay: those entries, and the state after the last of them.
Replay(l, untilTs) ==
  LET kept == KeptUntil(l.entries, untilTs)
  IN  [entries |-> kept,
       state   |-> IF kept = << >> THEN UnwrapOr(l.genesis, Null)
                   ELSE Last(kept).after]

-----------------------------------------------------------------------------
\* serde_json: a value written out and read back.  An Option holding Null is
\* written as null, and null is read back as None.

\* Mutant: the field is skipped when written.
JsonOptionSkipped(o) == None

JsonOption(o) == IF o = Some(Null) THEN None ELSE o

JsonEntry(e) == [e EXCEPT !.expected = JsonOption(@)]

JsonLedger(l) ==
  [l EXCEPT !.genesis = JsonOption(@),
            !.entries = [i \in 1..Len(@) |-> JsonEntry(@[i])]]
=============================================================================
