----------------------------- MODULE CellLedger -----------------------------
(***************************************************************************)
(* One live CellLedger: a caller records transactions, posts inputs and    *)
(* settles them later in any order, while its clock runs.  ledger is the   *)
(* program's state; the other variables are the caller's clock and history *)
(* kept to state properties over.                                          *)
(***************************************************************************)
EXTENDS Ledger

CONSTANTS Cell,        \* the ledger's cell id
          Input,       \* values a caller posts as inputs
          Output,      \* values a caller posts as outputs
          Forecast,    \* the expected arguments: None or Some(v)
          Genesis,     \* None or Some(v): how the ledger may be constructed
          MaxEntries,  \* bound on completed entries
          MaxTickets,  \* bound on opened inputs
          MaxTime      \* bound on the clock

ASSUME LedgerAssumption ==
  /\ Input \subseteq Value /\ Output \subseteq Value
  /\ \A o \in Forecast \cup Genesis : o = None \/ \E v \in Value : o = Some(v)
  /\ MaxEntries \in Nat /\ MaxTickets \in Nat /\ MaxTime \in Nat

VARIABLES ledger,   \* the CellLedger
          clock,    \* the time callers pass
          stateAt,  \* history: stateAt[t+1] is state() at the end of time t
          opened,   \* history: opened[k] is what ticket k was opened with
          closed    \* history: the pairs <<ticket, seq>> of settled tickets

vars == << ledger, clock, stateAt, opened, closed >>

Init ==
  /\ \E g \in Genesis :
       ledger = IF g = None THEN NewLedger(Cell) ELSE WithGenesis(Cell, g[1], 0)
  /\ clock = 0
  /\ stateAt = << >>
  /\ opened = << >>
  /\ closed = {}

Record(input, output, expected) ==
  /\ Len(ledger.entries) < MaxEntries
  /\ ledger' = RecordWith(ledger, input, output, clock, expected)
  /\ UNCHANGED << clock, stateAt, opened, closed >>

OpenInput(input) ==
  /\ Len(opened) < MaxTickets
  /\ ledger' = OpenInputWith(ledger, input, clock)
  /\ opened' = Append(opened, [input |-> input, ts |-> clock])
  /\ UNCHANGED << clock, stateAt, closed >>

\* An unknown ticket returns an error and leaves the ledger alone.
SettleOutput(ticket, output, expected) ==
  /\ Len(ledger.entries) < MaxEntries
  /\ HasTicket(ledger, ticket)
  /\ ledger' = SettleOutputWith(ledger, ticket, output, clock, expected)
  /\ closed' = closed \cup {<< ticket, ledger.nextSeq >>}
  /\ UNCHANGED << clock, stateAt, opened >>

Tick ==
  /\ clock < MaxTime
  /\ clock' = clock + 1
  /\ stateAt' = Append(stateAt, ledger.state)
  /\ UNCHANGED << ledger, opened, closed >>

Next ==
  \/ \E i \in Input, o \in Output, f \in Forecast : Record(i, o, f)
  \/ \E i \in Input : OpenInput(i)
  \/ \E k \in 1..MaxTickets, o \in Output, f \in Forecast : SettleOutput(k, o, f)
  \/ Tick

Spec == Init /\ [][Next]_vars

-----------------------------------------------------------------------------
(***************************************************************************)
(* Properties                                                              *)
(***************************************************************************)

PendingInput == [ticket : Nat, ts : Nat, input : Value]

\* Every field of a ledger has its type; hashes are opaque.
LedgerTypeOK(l) ==
  /\ l \in [cell : {Cell}, genesis : Genesis, genesisTs : {None, Some(0)},
            state : Value, nextSeq : Nat, nextTicket : Nat,
            entries : {l.entries}, pending : Seq(PendingInput)]
  /\ IsSeq(l.entries)
  /\ \A i \in 1..Len(l.entries) :
       /\ l.entries[i].ts \in Nat /\ l.entries[i].outTs \in Nat
       /\ l.entries[i].input \in Value /\ l.entries[i].after \in Value

\* Every variable has its type, for the ledger and the caller's history.
TypeOK ==
  /\ LedgerTypeOK(ledger)
  /\ clock \in Nat
  /\ stateAt \in Seq(Value)
  /\ opened \in Seq([input : Value, ts : Nat])
  /\ closed \subseteq Nat \X Nat

HonestBooks(l) ==
  /\ ChainIntact(l)
  /\ ContinuityIntact(l)
  /\ \A i \in 1..Len(l.entries) : l.entries[i].seq = i
  /\ l.nextSeq = Len(l.entries) + 1
  /\ l.state = ExpectedBefore(l, Len(l.entries) + 1)

\* Whatever the order of records, openings and settlements, the chain verifies
\* and the history is continuous, sequence numbers count from 1 without a gap,
\* and state() is the after of the last entry (append_entry, verify_chain).
BooksHonest == HonestBooks(ledger)

\* A ticket is settled at most once, by an entry that carries the very input
\* and time it was opened with; what is not settled is still pending, and
\* reconcile calls the books balanced exactly when nothing is.
TicketsMatch ==
  /\ \A p, q \in closed : (p[1] = q[1]) <=> (p[2] = q[2])
  /\ \A p \in closed :
       LET e == ledger.entries[p[2]] IN
         << e.input, e.ts >> = << opened[p[1]].input, opened[p[1]].ts >>
  /\ {ledger.pending[i].ticket : i \in 1..Len(ledger.pending)}
       = (1..Len(opened)) \ {p[1] : p \in closed}
  /\ Balanced(ledger) <=> (Cardinality(closed) = Len(opened))

\* An entry with one sealed field changed, and an entry sealed anew.
Altered(x) ==
     {[x EXCEPT !.after = v]    : v \in Value \ {x.after}}
  \cup {[x EXCEPT !.input = v]    : v \in Value \ {x.input}}
  \cup {[x EXCEPT !.expected = o] :
          o \in ({None} \cup {Some(v) : v \in Value}) \ {x.expected}}
  \cup {[x EXCEPT !.ts = @ + 1]}

Resealed(e) == [e EXCEPT !.hash = Seal(e)]

\* Every way of tampering with a completed chain without holding its head:
\* an edited field, an edited and resealed inner entry, a removed inner entry,
\* two neighbours swapped.
Tamperings(es) ==
  LET inner == 1..(Len(es) - 1) IN
     (UNION {{[es EXCEPT ![i] = e] : e \in Altered(es[i])} : i \in 1..Len(es)})
  \cup (UNION {{[es EXCEPT ![i] = Resealed(e)] : e \in Altered(es[i])} : i \in inner})
  \cup {RemoveAt(es, i) : i \in inner}
  \cup {[es EXCEPT ![i] = es[i+1], ![i+1] = es[i]] : i \in inner}

\* verify_chain reports every such tampering, and a swapped genesis.
TamperEvident ==
  /\ \A es \in Tamperings(ledger.entries) :
       ~ ChainIntact([ledger EXCEPT !.entries = es])
  /\ ledger.entries # << >> =>
       \A v \in Value \ {UnwrapOr(ledger.genesis, Null)} :
         ~ ChainIntact([ledger EXCEPT !.genesis = Some(v)])

\* Replaying to now gives the live state and the whole history, however the
\* settlements were ordered, and replay(t) is what state() was at the end of
\* time t unless an input of that time or before was answered after it.
ReplayAgreesUnlessLate ==
  /\ Replay(ledger, clock).state = ledger.state
  /\ Replay(ledger, clock).entries = ledger.entries
  /\ \A t \in 0..(clock - 1) :
       \/ Replay(ledger, t).state = stateAt[t + 1]
       \/ \E e \in ToSet(ledger.entries) : e.ts <= t /\ t < e.outTs

\* "Serializes wholesale via serde": read back from JSON at any moment, a
\* ledger without a null forecast has its head, its chain and its books (the
\* test ledger_round_trips_through_json).
RoundTrips ==
  LET restored == JsonLedger(ledger) IN
  \/ \E e \in ToSet(ledger.entries) : e.expected = Some(Null)
  \/ /\ ChainHash(restored) = ChainHash(ledger)
     /\ ChainIntact(restored)
     /\ Balanced(restored) <=> Balanced(ledger)
     /\ restored.state = ledger.state

\* The chain is append-only: no step edits or drops a completed entry, and
\* an opening moves neither the state nor the chain.
AppendOnly ==
  [][ /\ IsPrefix(ledger.entries, ledger'.entries)
      /\ ledger'.entries = ledger.entries => ledger'.state = ledger.state
    ]_vars
=============================================================================
