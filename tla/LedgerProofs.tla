---------------------------- MODULE LedgerProofs ----------------------------
(***************************************************************************)
(* Theorems about CellLedger and what is computed from its entries, for    *)
(* every value of the constants: by restore_entry, from whatever an        *)
(* unreliable courier delivers, a prefix of the live chain; by the field   *)
(* lenses, two readings of an edge that agree.                             *)
(***************************************************************************)
EXTENDS LedgerMirror, FieldHistory, Lemmas, FiniteSetTheorems

\* An entry is its fields.
EntryShape(e) ==
  e = [seq |-> e.seq, ts |-> e.ts, input |-> e.input, outTs |-> e.outTs,
       before |-> e.before, after |-> e.after, expected |-> e.expected,
       prev |-> e.prev, hash |-> e.hash]

\* Different preimages have different digests.
LEMMA ShaInjective ==
  ASSUME NEW a, NEW b, Sha256(a) = Sha256(b)
  PROVE  a = b
<1>1. << "sha256", a >>[2] = << "sha256", b >>[2]
  BY DEF Sha256
<1> QED BY <1>1

LEMMA NextEntryShape ==
  ASSUME NEW l, NEW input, NEW inputTs, NEW output, NEW outputTs, NEW expected
  PROVE  EntryShape(NextEntry(l, input, inputTs, output, outputTs, expected))
BY DEF EntryShape, NextEntry

\* Where a value recorded or forecast comes from.
LEMMA ForecastTyped ==
  ASSUME NEW f \in Forecast \cup Genesis, f # None
  PROVE  f[1] \in Value
<1>1. PICK v \in Value : f = Some(v)
  BY LedgerAssumption
<1> QED BY <1>1 DEF Some

\* append_entry keeps the types of a ledger and adds exactly one entry, the
\* next one, to its chain.
LEMMA AppendEntryShape ==
  ASSUME NEW l, LedgerTypeOK(l),
         NEW input \in Value, NEW inputTs \in Nat,
         NEW output \in Value, NEW outputTs \in Nat, NEW expected
  PROVE  LET m == AppendEntry(l, input, inputTs, output, outputTs, expected)
             e == NextEntry(l, input, inputTs, output, outputTs, expected)
         IN  /\ LedgerTypeOK(m)
             /\ m.entries = Append(l.entries, e)
             /\ m.nextSeq = l.nextSeq + 1
             /\ m.state = output
             /\ m.cell = l.cell /\ m.genesis = l.genesis
             /\ m.genesisTs = l.genesisTs /\ m.pending = l.pending
             /\ m.nextTicket = l.nextTicket
<1> DEFINE m == AppendEntry(l, input, inputTs, output, outputTs, expected)
           e == NextEntry(l, input, inputTs, output, outputTs, expected)
<1>1. l \in [cell : {Cell}, genesis : Genesis, genesisTs : {None, Some(0)},
             state : Value, nextSeq : Nat, nextTicket : Nat,
             entries : {l.entries}, pending : Seq(PendingInput)]
  BY DEF LedgerTypeOK
<1>2. m = [l EXCEPT !.nextSeq = l.nextSeq + 1, !.state = output,
                    !.entries = Append(l.entries, e)]
  BY DEF AppendEntry
<1>3. /\ m.entries = Append(l.entries, e)
      /\ m.nextSeq = l.nextSeq + 1 /\ m.state = output
      /\ m.cell = l.cell /\ m.genesis = l.genesis
      /\ m.genesisTs = l.genesisTs /\ m.pending = l.pending
      /\ m.nextTicket = l.nextTicket
  <2> HIDE DEF m, e
  <2> QED BY <1>1, <1>2
<1>4. /\ IsSeq(m.entries) /\ Len(m.entries) = Len(l.entries) + 1
      /\ Len(l.entries) \in Nat
      /\ m.entries[Len(l.entries) + 1] = e
      /\ \A i \in 1..Len(l.entries) : m.entries[i] = l.entries[i]
  <2> HIDE DEF m, e
  <2> QED BY <1>3, AppendFacts DEF LedgerTypeOK, IsSeq
<1>5. m \in [cell : {Cell}, genesis : Genesis, genesisTs : {None, Some(0)},
             state : Value, nextSeq : Nat, nextTicket : Nat,
             entries : {m.entries}, pending : Seq(PendingInput)]
  <2>1. l.nextSeq + 1 \in Nat
    BY <1>1
  <2> DEFINE E == Append(l.entries, e)
  <2>2. m = [l EXCEPT !.nextSeq = l.nextSeq + 1, !.state = output, !.entries = E]
    BY <1>2
  <2>3. m.entries = E
    BY <1>3
  <2> HIDE DEF m, e, E
  <2>4. [l EXCEPT !.nextSeq = l.nextSeq + 1, !.state = output, !.entries = E]
          \in [cell : {Cell}, genesis : Genesis, genesisTs : {None, Some(0)},
              state : Value, nextSeq : Nat, nextTicket : Nat,
              entries : {E}, pending : Seq(PendingInput)]
    BY <1>1, <2>1
  <2> QED BY <2>2, <2>3, <2>4
<1>6. e.ts = inputTs /\ e.outTs = outputTs /\ e.input = input /\ e.after = output
  BY DEF NextEntry
<1>7. \A i \in 1..Len(m.entries) :
        /\ m.entries[i].ts \in Nat /\ m.entries[i].outTs \in Nat
        /\ m.entries[i].input \in Value /\ m.entries[i].after \in Value
  <2> HIDE DEF m, e
  <2> SUFFICES ASSUME NEW i \in 1..Len(m.entries)
               PROVE  /\ m.entries[i].ts \in Nat /\ m.entries[i].outTs \in Nat
                      /\ m.entries[i].input \in Value
                      /\ m.entries[i].after \in Value
    OBVIOUS
  <2>1. CASE i = Len(l.entries) + 1
    BY <2>1, <1>4, <1>6
  <2>2. CASE i \in 1..Len(l.entries)
    BY <2>2, <1>4 DEF LedgerTypeOK
  <2> QED BY <2>1, <2>2, <1>4
<1> QED BY <1>3, <1>4, <1>5, <1>7 DEF LedgerTypeOK

\* append_entry keeps honest books honest: the new entry has the next sequence
\* number, links to the head, seals itself and starts from the state.
LEMMA AppendEntryHonest ==
  ASSUME NEW l, LedgerTypeOK(l), HonestBooks(l),
         NEW input \in Value, NEW inputTs \in Nat,
         NEW output \in Value, NEW outputTs \in Nat, NEW expected
  PROVE  HonestBooks(AppendEntry(l, input, inputTs, output, outputTs, expected))
<1> DEFINE m == AppendEntry(l, input, inputTs, output, outputTs, expected)
           e == NextEntry(l, input, inputTs, output, outputTs, expected)
           n == Len(l.entries)
<1>1. /\ m.entries = Append(l.entries, e)
      /\ m.nextSeq = l.nextSeq + 1 /\ m.state = output
      /\ m.cell = l.cell /\ m.genesis = l.genesis
      /\ m.genesisTs = l.genesisTs
  BY AppendEntryShape
<1>2. /\ e.seq = l.nextSeq /\ e.prev = ChainHash(l) /\ e.before = l.state
      /\ e.after = output /\ e.hash = Seal(e)
  BY DEF NextEntry, Seal, CanonicalJson
<1>3. /\ Len(m.entries) = n + 1 /\ n \in Nat
      /\ m.entries[n + 1] = e
      /\ \A i \in 1..n : m.entries[i] = l.entries[i]
      /\ (l.entries = << >>) <=> (n = 0)
  <2> HIDE DEF m, e
  <2> QED BY <1>1, AppendFacts DEF LedgerTypeOK, IsSeq
<1>4. GenesisCommit(m) = GenesisCommit(l)
  <2> HIDE DEF m
  <2> QED BY <1>1 DEF GenesisCommit
<1>5. /\ ExpectedPrev(m, n + 1) = ChainHash(l)
      /\ \A i \in 1..n : ExpectedPrev(m, i) = ExpectedPrev(l, i)
  <2> HIDE DEF m, e
  <2> QED BY <1>3, <1>4 DEF ExpectedPrev, ChainHash, Last
<1>6. /\ ExpectedBefore(m, n + 1) = l.state
      /\ \A i \in 1..n : ExpectedBefore(m, i) = ExpectedBefore(l, i)
      /\ ExpectedBefore(m, n + 2) = output
  <2>1. l.state = ExpectedBefore(l, n + 1)
    BY DEF HonestBooks
  <2> HIDE DEF m, e
  <2> QED BY <2>1, <1>1, <1>2, <1>3 DEF ExpectedBefore
<1>7. ChainIntact(m)
  <2> HIDE DEF m, e
  <2> SUFFICES ASSUME NEW i \in 1..(n + 1) PROVE ~ BreaksAt(m, i)
    BY <1>3 DEF ChainIntact
  <2>1. CASE i = n + 1
    BY <2>1, <1>2, <1>3, <1>5 DEF BreaksAt
  <2>2. CASE i \in 1..n
    BY <2>2, <1>3, <1>5 DEF HonestBooks, ChainIntact, BreaksAt
  <2> QED BY <2>1, <2>2, <1>3
<1>8. ContinuityIntact(m)
  <2> HIDE DEF m, e
  <2> SUFFICES ASSUME NEW i \in 1..(n + 1)
               PROVE  m.entries[i].before = ExpectedBefore(m, i)
    BY <1>3 DEF ContinuityIntact
  <2>1. CASE i = n + 1
    BY <2>1, <1>2, <1>3, <1>6
  <2>2. CASE i \in 1..n
    BY <2>2, <1>3, <1>6 DEF HonestBooks, ContinuityIntact
  <2> QED BY <2>1, <2>2, <1>3
<1>9. /\ \A i \in 1..Len(m.entries) : m.entries[i].seq = i
      /\ m.nextSeq = Len(m.entries) + 1
      /\ m.state = ExpectedBefore(m, Len(m.entries) + 1)
  <2>1. /\ l.nextSeq = n + 1
        /\ \A i \in 1..n : l.entries[i].seq = i
    BY DEF HonestBooks
  <2> HIDE DEF m, e
  <2> QED BY <2>1, <1>1, <1>2, <1>3, <1>6
<1> QED BY <1>7, <1>8, <1>9 DEF HonestBooks

\* Audits look at the chain and the genesis only, never at pending inputs.
LEMMA HonestIgnoresPending ==
  ASSUME NEW l, NEW m, HonestBooks(l),
         m.entries = l.entries, m.nextSeq = l.nextSeq, m.state = l.state,
         m.cell = l.cell, m.genesis = l.genesis, m.genesisTs = l.genesisTs
  PROVE  HonestBooks(m)
<1>1. GenesisCommit(m) = GenesisCommit(l)
  BY DEF GenesisCommit
<1>2. \A i : ExpectedPrev(m, i) = ExpectedPrev(l, i)
  BY <1>1 DEF ExpectedPrev
<1>3. \A i : ExpectedBefore(m, i) = ExpectedBefore(l, i)
  BY DEF ExpectedBefore
<1>4. ChainIntact(m)
  BY <1>2 DEF HonestBooks, ChainIntact, BreaksAt
<1>5. ContinuityIntact(m)
  BY <1>3 DEF HonestBooks, ContinuityIntact
<1> QED BY <1>3, <1>4, <1>5 DEF HonestBooks

\* Taking a pending input out leaves a ledger of the same books.
LEMMA TakePending ==
  ASSUME NEW l, LedgerTypeOK(l), HonestBooks(l),
         NEW k \in Nat, HasTicket(l, k)
  PROVE  /\ l.pending[PositionOf(l, k)] \in PendingInput
         /\ LedgerTypeOK(WithoutPending(l, k))
         /\ HonestBooks(WithoutPending(l, k))
         /\ WithoutPending(l, k).entries = l.entries
<1> DEFINE at == PositionOf(l, k)
           rest == RemoveAt(l.pending, at)
           m == WithoutPending(l, k)
<1>1. l \in [cell : {Cell}, genesis : Genesis, genesisTs : {None, Some(0)},
             state : Value, nextSeq : Nat, nextTicket : Nat,
             entries : {l.entries}, pending : Seq(PendingInput)]
  BY DEF LedgerTypeOK
<1>2. l.pending \in Seq(PendingInput)
  BY <1>1
<1>3. at \in 1..Len(l.pending)
  BY DEF HasTicket, PositionOf
<1>4. m = [l EXCEPT !.pending = rest]
  BY DEF WithoutPending
<1> HIDE DEF at
<1>5. l.pending[at] \in PendingInput
  BY <1>2, <1>3
<1>6. rest \in Seq(PendingInput)
  <2>1. SubSeq(l.pending, 1, at - 1) \in Seq(PendingInput)
    BY <1>2, <1>3
  <2>2. SubSeq(l.pending, at + 1, Len(l.pending)) \in Seq(PendingInput)
    BY <1>2, <1>3
  <2> QED BY <2>1, <2>2 DEF RemoveAt
<1> HIDE DEF rest, m
<1>7. /\ m \in [cell : {Cell}, genesis : Genesis, genesisTs : {None, Some(0)},
                state : Value, nextSeq : Nat, nextTicket : Nat,
                entries : {l.entries}, pending : Seq(PendingInput)]
      /\ m.entries = l.entries /\ m.nextSeq = l.nextSeq /\ m.state = l.state
      /\ m.cell = l.cell /\ m.genesis = l.genesis /\ m.genesisTs = l.genesisTs
  BY <1>1, <1>4, <1>6
<1>8. LedgerTypeOK(m)
  BY <1>7 DEF LedgerTypeOK
<1>9. HonestBooks(m)
  BY <1>7, HonestIgnoresPending
<1> QED BY <1>5, <1>7, <1>8, <1>9 DEF m, at

\* The entry a settlement adds.
SettledEntry(l, k, output, ts, expected) ==
  NextEntry(WithoutPending(l, k), l.pending[PositionOf(l, k)].input,
            l.pending[PositionOf(l, k)].ts, output, ts, expected)

\* settle_output_with appends one entry under the time of its question.
LEMMA SettleHonest ==
  ASSUME NEW l, LedgerTypeOK(l), HonestBooks(l), NEW k \in Nat, HasTicket(l, k),
         NEW output \in Value, NEW ts \in Nat, NEW expected
  PROVE  /\ LedgerTypeOK(SettleOutputWith(l, k, output, ts, expected))
         /\ HonestBooks(SettleOutputWith(l, k, output, ts, expected))
         /\ SettleOutputWith(l, k, output, ts, expected).entries
              = Append(l.entries, SettledEntry(l, k, output, ts, expected))
<1> DEFINE p == l.pending[PositionOf(l, k)]
           t == WithoutPending(l, k)
           m == SettleOutputWith(l, k, output, ts, expected)
<1>1. m = AppendEntry(t, p.input, p.ts, output, ts, expected)
  BY DEF SettleOutputWith
<1>2. /\ p \in PendingInput /\ LedgerTypeOK(t) /\ HonestBooks(t)
      /\ t.entries = l.entries
  BY TakePending
<1> HIDE DEF p, t, m
<1>3. p.input \in Value /\ p.ts \in Nat
  BY <1>2 DEF PendingInput
<1>4. LedgerTypeOK(m) /\ HonestBooks(m)
  BY <1>1, <1>2, <1>3, AppendEntryShape, AppendEntryHonest
<1>5. m.entries = Append(l.entries,
                         NextEntry(t, p.input, p.ts, output, ts, expected))
  BY <1>1, <1>2, <1>3, AppendEntryShape
<1> QED BY <1>4, <1>5 DEF m, p, t, SettledEntry

\* open_input_with leaves the books as they are.
LEMMA OpenHonest ==
  ASSUME NEW l, LedgerTypeOK(l), HonestBooks(l),
         NEW input \in Value, NEW ts \in Nat
  PROVE  /\ LedgerTypeOK(OpenInputWith(l, input, ts))
         /\ HonestBooks(OpenInputWith(l, input, ts))
         /\ OpenInputWith(l, input, ts).entries = l.entries
         /\ OpenInputWith(l, input, ts).state = l.state
<1> DEFINE p == [ticket |-> l.nextTicket, ts |-> ts, input |-> input]
           q == Append(l.pending, p)
           m == OpenInputWith(l, input, ts)
<1>1. l \in [cell : {Cell}, genesis : Genesis, genesisTs : {None, Some(0)},
             state : Value, nextSeq : Nat, nextTicket : Nat,
             entries : {l.entries}, pending : Seq(PendingInput)]
  BY DEF LedgerTypeOK
<1>2. p \in PendingInput
  BY <1>1 DEF PendingInput
<1>3. m = [l EXCEPT !.nextTicket = l.nextTicket + 1, !.pending = q]
  BY DEF OpenInputWith
<1> HIDE DEF p, m
<1>4. q \in Seq(PendingInput) /\ l.nextTicket + 1 \in Nat
  BY <1>1, <1>2
<1> HIDE DEF q
<1>5. /\ m \in [cell : {Cell}, genesis : Genesis, genesisTs : {None, Some(0)},
                state : Value, nextSeq : Nat, nextTicket : Nat,
                entries : {l.entries}, pending : Seq(PendingInput)]
      /\ m.entries = l.entries /\ m.nextSeq = l.nextSeq /\ m.state = l.state
      /\ m.cell = l.cell /\ m.genesis = l.genesis /\ m.genesisTs = l.genesisTs
  BY <1>1, <1>3, <1>4
<1>6. LedgerTypeOK(m)
  BY <1>5 DEF LedgerTypeOK
<1>7. HonestBooks(m)
  BY <1>5, HonestIgnoresPending
<1> QED BY <1>5, <1>6, <1>7 DEF m

-----------------------------------------------------------------------------
\* The two facts that carry each other: no step of the ledger's caller can
\* mistype a ledger whose books are honest, nor dishonour well-typed books.
IInv == TypeOK /\ BooksHonest

LEMMA InitIInv == Init => IInv
<1> SUFFICES ASSUME Init PROVE IInv
  OBVIOUS
<1>1. PICK g \in Genesis :
        ledger = IF g = None THEN NewLedger(Cell) ELSE WithGenesis(Cell, g[1], 0)
  BY DEF Init
<1>2. ledger.state \in Value /\ ledger.genesis = g /\ ledger.genesisTs \in {None, Some(0)}
  <2>1. CASE g = None
    BY <1>1, <2>1, NullIsAValue DEF NewLedger
  <2>2. CASE g # None
    <3>1. g[1] \in Value
      BY <2>2, ForecastTyped
    <3>2. g = Some(g[1])
      BY <2>2, LedgerAssumption DEF Some
    <3> QED BY <1>1, <2>2, <3>1, <3>2 DEF WithGenesis, NewLedger
  <2> QED BY <2>1, <2>2
<1>3. /\ ledger = [cell |-> Cell, genesis |-> ledger.genesis,
                   genesisTs |-> ledger.genesisTs, state |-> ledger.state,
                   nextSeq |-> 1, nextTicket |-> 1,
                   entries |-> << >>, pending |-> << >>]
      /\ ledger.state = UnwrapOr(g, Null)
  BY <1>1 DEF NewLedger, WithGenesis, UnwrapOr
<1>4. /\ ledger.entries = << >> /\ Len(ledger.entries) = 0
      /\ ledger.nextSeq = 1 /\ ledger.pending = << >>
  BY <1>3
<1>5. LedgerTypeOK(ledger)
  <2>1. ledger \in [cell : {Cell}, genesis : Genesis, genesisTs : {None, Some(0)},
                    state : Value, nextSeq : Nat, nextTicket : Nat,
                    entries : {ledger.entries}, pending : Seq(PendingInput)]
    <3> DEFINE a == ledger.genesis
               b == ledger.genesisTs
               c == ledger.state
    <3>1. ledger = [cell |-> Cell, genesis |-> a, genesisTs |-> b, state |-> c,
                    nextSeq |-> 1, nextTicket |-> 1,
                    entries |-> << >>, pending |-> << >>]
      BY <1>3
    <3>2. a \in Genesis /\ b \in {None, Some(0)} /\ c \in Value
      BY <1>2
    <3>3. << >> \in Seq(PendingInput)
      OBVIOUS
    <3> HIDE DEF a, b, c
    <3>4. ledger \in [cell : {Cell}, genesis : Genesis,
                      genesisTs : {None, Some(0)}, state : Value,
                      nextSeq : Nat, nextTicket : Nat,
                      entries : {<< >>}, pending : Seq(PendingInput)]
      BY <3>1, <3>2, <3>3
    <3> QED BY <3>4, <1>4
  <2>2. IsSeq(ledger.entries)
    BY <1>4 DEF IsSeq
  <2> QED BY <2>1, <2>2, <1>4 DEF LedgerTypeOK
<1>6. HonestBooks(ledger)
  BY <1>2, <1>3, <1>4 DEF HonestBooks, ChainIntact, ContinuityIntact,
                          ExpectedBefore
<1> QED BY <1>5, <1>6 DEF IInv, TypeOK, BooksHonest, Init

\* What one step of Next does to the books: nothing, or one more entry.
LEMMA StepKeepsBooks ==
  ASSUME IInv, [Next]_vars
  PROVE  /\ IInv'
         /\ \/ ledger'.entries = ledger.entries /\ ledger'.state = ledger.state
            \/ \E e : ledger'.entries = Append(ledger.entries, e)
<1> USE DEF IInv, TypeOK, BooksHonest
<1>1. ASSUME NEW i \in Input, NEW o \in Output, NEW f \in Forecast,
             Record(i, o, f)
      PROVE  /\ IInv'
             /\ \E e : ledger'.entries = Append(ledger.entries, e)
  <2>1. i \in Value /\ o \in Value /\ clock \in Nat
    BY LedgerAssumption
  <2>2. ledger' = AppendEntry(ledger, i, clock, o, clock, f)
    BY <1>1 DEF Record, RecordWith
  <2>3. /\ LedgerTypeOK(ledger') /\ HonestBooks(ledger')
        /\ ledger'.entries
             = Append(ledger.entries, NextEntry(ledger, i, clock, o, clock, f))
    BY <2>1, <2>2, AppendEntryShape, AppendEntryHonest
  <2> QED BY <1>1, <2>3 DEF Record, LedgerTypeOK, HonestBooks
<1>2. ASSUME NEW i \in Input, OpenInput(i)
      PROVE  /\ IInv'
             /\ ledger'.entries = ledger.entries /\ ledger'.state = ledger.state
  <2>1. i \in Value /\ clock \in Nat
    BY LedgerAssumption
  <2>2. /\ LedgerTypeOK(ledger') /\ HonestBooks(ledger')
        /\ ledger'.entries = ledger.entries /\ ledger'.state = ledger.state
    BY <1>2, <2>1, OpenHonest DEF OpenInput
  <2>3. opened' \in Seq([input : Value, ts : Nat])
    BY <1>2, <2>1 DEF OpenInput
  <2> QED BY <1>2, <2>2, <2>3 DEF OpenInput
<1>3. ASSUME NEW k \in 1..MaxTickets, NEW o \in Output, NEW f \in Forecast,
             SettleOutput(k, o, f)
      PROVE  /\ IInv'
             /\ \E e : ledger'.entries = Append(ledger.entries, e)
  <2>1. o \in Value /\ clock \in Nat /\ HasTicket(ledger, k)
    BY <1>3, LedgerAssumption DEF SettleOutput
  <2>2. /\ LedgerTypeOK(ledger') /\ HonestBooks(ledger')
        /\ \E e : ledger'.entries = Append(ledger.entries, e)
    <3>1. ledger' = SettleOutputWith(ledger, k, o, clock, f)
      BY <1>3 DEF SettleOutput
    <3>2. LedgerTypeOK(ledger) /\ HonestBooks(ledger) /\ k \in Nat
      BY LedgerAssumption
    <3> HIDE DEF IInv, TypeOK, BooksHonest
    <3>3. /\ LedgerTypeOK(SettleOutputWith(ledger, k, o, clock, f))
          /\ HonestBooks(SettleOutputWith(ledger, k, o, clock, f))
          /\ SettleOutputWith(ledger, k, o, clock, f).entries
               = Append(ledger.entries, SettledEntry(ledger, k, o, clock, f))
      <4>1. LedgerTypeOK(SettleOutputWith(ledger, k, o, clock, f))
        BY <2>1, <3>2, SettleHonest, Zenon
      <4>2. HonestBooks(SettleOutputWith(ledger, k, o, clock, f))
        BY <2>1, <3>2, SettleHonest, Zenon
      <4>3. SettleOutputWith(ledger, k, o, clock, f).entries
              = Append(ledger.entries, SettledEntry(ledger, k, o, clock, f))
        BY <2>1, <3>2, SettleHonest, Zenon
      <4> QED BY <4>1, <4>2, <4>3
    <3> QED BY <3>1, <3>3
  <2>3. closed' \subseteq Nat \X Nat
    <3>1. ledger.nextSeq \in Nat /\ k \in Nat
      BY LedgerAssumption DEF LedgerTypeOK
    <3> QED BY <1>3, <3>1 DEF SettleOutput
  <2> QED BY <1>3, <2>2, <2>3 DEF SettleOutput
<1>4. ASSUME Tick
      PROVE  /\ IInv'
             /\ ledger'.entries = ledger.entries /\ ledger'.state = ledger.state
  <2>1. ledger' = ledger /\ clock' \in Nat
    BY <1>4 DEF Tick
  <2>2. stateAt' \in Seq(Value)
    <3>1. ledger.state \in Value
      BY DEF LedgerTypeOK
    <3> QED BY <1>4, <3>1 DEF Tick
  <2> QED BY <1>4, <2>1, <2>2 DEF Tick
<1>5. ASSUME UNCHANGED vars
      PROVE  /\ IInv'
             /\ ledger'.entries = ledger.entries /\ ledger'.state = ledger.state
  BY <1>5 DEF vars
<1> QED BY <1>1, <1>2, <1>3, <1>4, <1>5 DEF Next

LEMMA IInvAlways == Spec => []IInv
<1>1. IInv /\ [Next]_vars => IInv'
  BY StepKeepsBooks
<1> QED BY <1>1, InitIInv, PTL DEF Spec

\* Every reachable state of a ledger and its caller is well typed.
THEOREM TypeCorrect == Spec => []TypeOK
<1>1. IInv => TypeOK
  BY DEF IInv
<1> QED BY <1>1, IInvAlways, PTL

\* However records, openings and settlements interleave, and however many
\* there are, the chain verifies, the history is continuous, sequence numbers
\* have no gap and state() is the last output (append_entry, verify_chain).
THEOREM BooksAlwaysHonest == Spec => []BooksHonest
<1>1. IInv => BooksHonest
  BY DEF IInv
<1> QED BY <1>1, IInvAlways, PTL

\* No operation ever edits, drops or reorders a completed entry, or moves the
\* state without adding one.
THEOREM ChainIsAppendOnly == Spec => AppendOnly
<1>1. IInv /\ [Next]_vars =>
        [/\ IsPrefix(ledger.entries, ledger'.entries)
         /\ ledger'.entries = ledger.entries => ledger'.state = ledger.state]_vars
  <2> SUFFICES ASSUME IInv, [Next]_vars
               PROVE  /\ IsPrefix(ledger.entries, ledger'.entries)
                      /\ ledger'.entries = ledger.entries
                           => ledger'.state = ledger.state
    OBVIOUS
  <2>1. IsSeq(ledger.entries)
    BY DEF IInv, TypeOK, LedgerTypeOK
  <2>2. CASE ledger'.entries = ledger.entries /\ ledger'.state = ledger.state
    BY <2>1, <2>2 DEF IsSeq, IsPrefix
  <2>3. ASSUME NEW e, ledger'.entries = Append(ledger.entries, e)
        PROVE  /\ IsPrefix(ledger.entries, ledger'.entries)
               /\ ledger'.entries # ledger.entries
    <3>1. /\ Len(ledger'.entries) = Len(ledger.entries) + 1
          /\ Len(ledger.entries) \in Nat
          /\ \A i \in 1..Len(ledger.entries) :
               ledger'.entries[i] = ledger.entries[i]
          /\ IsSeq(ledger'.entries)
      BY <2>1, <2>3, AppendFacts DEF IsSeq
    <3> QED BY <2>1, <3>1 DEF IsPrefix, IsSeq
  <2> QED BY <2>2, <2>3, StepKeepsBooks
<1> QED BY <1>1, IInvAlways, PTL DEF Spec, AppendOnly

-----------------------------------------------------------------------------
(***************************************************************************)
(* Every question has one answer: the tickets of a ledger.                 *)
(***************************************************************************)

-----------------------------------------------------------------------------
\* Of the tickets given out, 1 to Len(opened), each is either pending, once,
\* with what it was opened with, or closed, once, by an entry that carries it.
PendingMatch ==
  /\ ledger.nextTicket = Len(opened) + 1
  /\ \A i \in 1..Len(ledger.pending) :
       LET p == ledger.pending[i] IN
         /\ p.ticket \in 1..Len(opened)
         /\ p.input = opened[p.ticket].input /\ p.ts = opened[p.ticket].ts
  /\ \A i, j \in 1..Len(ledger.pending) :
       ledger.pending[i].ticket = ledger.pending[j].ticket => i = j

ClosedMatch ==
  /\ \A p \in closed :
       /\ p[1] \in 1..Len(opened) /\ p[2] \in 1..Len(ledger.entries)
       /\ ledger.entries[p[2]].input = opened[p[1]].input
       /\ ledger.entries[p[2]].ts = opened[p[1]].ts
  /\ \A p, q \in closed : (p[1] = q[1]) <=> (p[2] = q[2])

EitherOr ==
  \A k \in 1..Len(opened) :
    (\E i \in 1..Len(ledger.pending) : ledger.pending[i].ticket = k)
      <=> ~ \E p \in closed : p[1] = k

\* So there are as many of them together as tickets.
Counted ==
  /\ IsFiniteSet(closed)
  /\ Cardinality(closed) + Len(ledger.pending) = Len(opened)

TicketInv == IInv /\ PendingMatch /\ ClosedMatch /\ EitherOr /\ Counted

\* What the invariant says of the sequences' shapes.
LEMMA Shapes ==
  ASSUME IInv
  PROVE  /\ LedgerTypeOK(ledger) /\ HonestBooks(ledger)
         /\ ledger.pending \in Seq(PendingInput) /\ Len(ledger.pending) \in Nat
         /\ IsSeq(ledger.entries) /\ Len(ledger.entries) \in Nat
         /\ opened \in Seq([input : Value, ts : Nat]) /\ Len(opened) \in Nat
         /\ clock \in Nat /\ ledger.nextTicket \in Nat
         /\ ledger.nextSeq = Len(ledger.entries) + 1
<1>1. LedgerTypeOK(ledger) /\ HonestBooks(ledger)
  BY DEF IInv, TypeOK, BooksHonest
<1>2. ledger.pending \in Seq(PendingInput) /\ ledger.nextTicket \in Nat /\ IsSeq(ledger.entries)
  BY <1>1 DEF LedgerTypeOK
<1>3. opened \in Seq([input : Value, ts : Nat]) /\ clock \in Nat
  BY DEF IInv, TypeOK
<1>4. Len(ledger.entries) \in Nat
  BY <1>2, AppendFacts DEF IsSeq
<1> QED BY <1>1, <1>2, <1>3, <1>4 DEF HonestBooks

LEMMA TicketInit == Init => TicketInv
<1> SUFFICES ASSUME Init PROVE TicketInv
  OBVIOUS
<1>1. /\ ledger.pending = << >> /\ ledger.nextTicket = 1 /\ opened = << >>
      /\ closed = {}
  BY DEF Init, NewLedger, WithGenesis
<1>2. Len(ledger.pending) = 0 /\ Len(opened) = 0
  BY <1>1
<1>3. PendingMatch /\ ClosedMatch /\ EitherOr
  BY <1>1, <1>2 DEF PendingMatch, ClosedMatch, EitherOr
<1>4. Counted
  BY <1>1, <1>2, FS_EmptySet DEF Counted
<1> QED BY <1>3, <1>4, InitIInv DEF TicketInv

\* Entries that join the chain leave the ones closed tickets name where they are.
LEMMA RecordKeepsTickets ==
  ASSUME TicketInv, NEW i \in Input, NEW o \in Output, NEW f \in Forecast,
         Record(i, o, f)
  PROVE  TicketInv'
<1>1. IInv'
  <2>1. Next
    BY DEF Next
  <2> QED BY <2>1, StepKeepsBooks DEF TicketInv
<1>2. ledger' = AppendEntry(ledger, i, clock, o, clock, f)
  BY DEF Record, RecordWith
<1>3. i \in Value /\ o \in Value
  BY LedgerAssumption
<1> DEFINE e == NextEntry(ledger, i, clock, o, clock, f)
<1>4. /\ ledger'.entries = Append(ledger.entries, e)
      /\ ledger'.pending = ledger.pending /\ ledger'.nextTicket = ledger.nextTicket
  BY <1>2, <1>3, Shapes, AppendEntryShape DEF TicketInv
<1>5. opened' = opened /\ closed' = closed
  BY DEF Record
<1> HIDE DEF e
<1>6. \A j \in 1..Len(ledger.entries) : /\ ledger'.entries[j] = ledger.entries[j]
                                        /\ j \in 1..Len(ledger'.entries)
  BY <1>4, Shapes, AppendFacts DEF TicketInv, IsSeq
<1>7. PendingMatch' /\ EitherOr' /\ Counted'
  BY <1>4, <1>5 DEF TicketInv, PendingMatch, EitherOr, Counted
<1>8. ClosedMatch'
  BY <1>5, <1>6 DEF TicketInv, ClosedMatch
<1> QED BY <1>1, <1>7, <1>8 DEF TicketInv

\* An opening gives out the next ticket.
LEMMA OpenKeepsTickets ==
  ASSUME TicketInv, NEW i \in Input, OpenInput(i)
  PROVE  TicketInv'
<1> DEFINE n == Len(opened)
           m == Len(ledger.pending)
           p == [ticket |-> ledger.nextTicket, ts |-> clock, input |-> i]
           q == [input |-> i, ts |-> clock]
<1>1. IInv'
  <2>1. Next
    BY DEF Next
  <2> QED BY <2>1, StepKeepsBooks DEF TicketInv
<1>2. i \in Value /\ clock \in Nat
  BY LedgerAssumption, Shapes DEF TicketInv
<1>3. /\ ledger'.pending = Append(ledger.pending, p)
      /\ ledger'.nextTicket = ledger.nextTicket + 1
      /\ ledger'.entries = ledger.entries
  BY Shapes DEF TicketInv, OpenInput, OpenInputWith, LedgerTypeOK
<1>4. opened' = Append(opened, q) /\ closed' = closed
  BY DEF OpenInput
<1>5. /\ p \in PendingInput /\ p.ticket = n + 1 /\ p.ts = q.ts /\ p.input = q.input
      /\ q \in [input : Value, ts : Nat]
  BY <1>2, Shapes DEF TicketInv, PendingMatch, PendingInput
<1> HIDE DEF p, q
<1>6. /\ n \in Nat /\ Len(opened') = n + 1 /\ opened'[n + 1] = q
      /\ \A k \in 1..n : opened'[k] = opened[k]
  BY <1>4, <1>5, Shapes DEF TicketInv
<1>7. /\ m \in Nat /\ Len(ledger'.pending) = m + 1 /\ ledger'.pending[m + 1] = p
      /\ \A k \in 1..m : ledger'.pending[k] = ledger.pending[k]
  BY <1>3, <1>5, Shapes DEF TicketInv
<1>8. PendingMatch'
  <2> DEFINE P == ledger'.pending
  <2>1. ledger'.nextTicket = Len(opened') + 1
    BY <1>3, <1>6 DEF TicketInv, PendingMatch
  <2>2. \A k \in 1..m : /\ P[k].ticket \in 1..n
                         /\ P[k].input = opened'[P[k].ticket].input
                         /\ P[k].ts = opened'[P[k].ticket].ts
    <3> SUFFICES ASSUME NEW k \in 1..m
                 PROVE  /\ P[k].ticket \in 1..n
                        /\ P[k].input = opened'[P[k].ticket].input
                        /\ P[k].ts = opened'[P[k].ticket].ts
      OBVIOUS
    <3>1. LET r == ledger.pending[k] IN
            /\ r.ticket \in 1..n
            /\ r.input = opened[r.ticket].input /\ r.ts = opened[r.ticket].ts
      BY DEF TicketInv, PendingMatch
    <3> QED BY <3>1, <1>6, <1>7
  <2>3. /\ P[m + 1].ticket = n + 1
        /\ P[m + 1].input = opened'[n + 1].input /\ P[m + 1].ts = opened'[n + 1].ts
    BY <1>5, <1>6, <1>7
  <2>4. \A j, k \in 1..m : P[j].ticket = P[k].ticket => j = k
    BY <1>7 DEF TicketInv, PendingMatch
  <2> HIDE DEF P, n, m
  <2>5. \A k \in 1..(m + 1) : /\ P[k].ticket \in 1..(n + 1)
                               /\ P[k].input = opened'[P[k].ticket].input
                               /\ P[k].ts = opened'[P[k].ticket].ts
    <3> SUFFICES ASSUME NEW k \in 1..(m + 1)
                 PROVE  /\ P[k].ticket \in 1..(n + 1)
                        /\ P[k].input = opened'[P[k].ticket].input
                        /\ P[k].ts = opened'[P[k].ticket].ts
      OBVIOUS
    <3>1. CASE k = m + 1
      BY <3>1, <2>3, <1>6
    <3>2. CASE k \in 1..m
      BY <3>2, <2>2, <1>6
    <3> QED BY <3>1, <3>2, <1>7
  <2>6. \A j, k \in 1..(m + 1) : P[j].ticket = P[k].ticket => j = k
    <3>1. \A k \in 1..m : P[k].ticket # n + 1
      BY <2>2, <1>6
    <3> QED BY <2>3, <2>4, <3>1, <1>7
  <2> QED BY <2>1, <2>5, <2>6, <1>6, <1>7 DEF PendingMatch, P
<1>9. ClosedMatch'
  BY <1>3, <1>4, <1>6 DEF TicketInv, ClosedMatch
<1>10. EitherOr'
  <2> SUFFICES ASSUME NEW k \in 1..(n + 1)
               PROVE  (\E j \in 1..(m + 1) : ledger'.pending[j].ticket = k)
                        <=> ~ \E c \in closed : c[1] = k
    BY <1>4, <1>6, <1>7 DEF EitherOr
  <2>1. CASE k = n + 1
    <3>1. \A c \in closed : c[1] \in 1..n
      BY DEF TicketInv, ClosedMatch
    <3> QED BY <2>1, <3>1, <1>5, <1>6, <1>7
  <2>2. CASE k \in 1..n
    <3>1. (\E j \in 1..(m + 1) : ledger'.pending[j].ticket = k)
            <=> \E j \in 1..m : ledger.pending[j].ticket = k
      <4>1. ledger'.pending[m + 1].ticket # k
        BY <2>2, <1>5, <1>6, <1>7
      <4>2. ASSUME NEW j \in 1..(m + 1), ledger'.pending[j].ticket = k
            PROVE  j \in 1..m /\ ledger.pending[j].ticket = k
        BY <4>1, <4>2, <1>7
      <4>3. ASSUME NEW j \in 1..m, ledger.pending[j].ticket = k
            PROVE  j \in 1..(m + 1) /\ ledger'.pending[j].ticket = k
        BY <4>3, <1>7
      <4> QED BY <4>2, <4>3
    <3> QED BY <2>2, <3>1 DEF TicketInv, EitherOr
  <2> QED BY <2>1, <2>2, <1>6
<1>11. Counted'
  <2>1. IsFiniteSet(closed) /\ Cardinality(closed) + m = n
    BY DEF TicketInv, Counted
  <2>2. Cardinality(closed) \in Nat
    BY <2>1, FS_CardinalityType
  <2>3. Cardinality(closed) + (m + 1) = n + 1
    <3> DEFINE K == Cardinality(closed)
    <3>1. K \in Nat /\ m \in Nat /\ n \in Nat /\ K + m = n
      BY <2>1, <2>2, <1>6, <1>7
    <3> HIDE DEF K, m, n
    <3>2. K + (m + 1) = n + 1
      BY <3>1
    <3> QED BY <3>2 DEF K
  <2> QED BY <2>1, <2>3, <1>4, <1>6, <1>7 DEF Counted
<1> QED BY <1>1, <1>8, <1>9, <1>10, <1>11 DEF TicketInv

\* A settlement moves its ticket from the pending ones to the closed ones.
LEMMA SettleKeepsTickets ==
  ASSUME TicketInv, NEW k \in 1..MaxTickets, NEW o \in Output, NEW f \in Forecast,
         SettleOutput(k, o, f)
  PROVE  TicketInv'
<1> DEFINE n == Len(opened)
           m == Len(ledger.pending)
           s == Len(ledger.entries)
           at == PositionOf(ledger, k)
           p == ledger.pending[at]
           t == WithoutPending(ledger, k)
           e == SettledEntry(ledger, k, o, clock, f)
           c == << k, ledger.nextSeq >>
<1>1. IInv'
  <2>1. Next
    BY DEF Next
  <2> QED BY <2>1, StepKeepsBooks DEF TicketInv
<1>2. /\ k \in Nat /\ o \in Value /\ clock \in Nat /\ HasTicket(ledger, k)
      /\ LedgerTypeOK(ledger) /\ HonestBooks(ledger)
  BY LedgerAssumption, Shapes DEF TicketInv, SettleOutput
<1>3. at \in 1..m /\ p.ticket = k
  BY <1>2 DEF HasTicket, PositionOf
<1>4. /\ p \in PendingInput /\ LedgerTypeOK(t) /\ t.entries = ledger.entries
  BY <1>2, TakePending
<1>5. /\ t.pending = RemoveAt(ledger.pending, at) /\ t.nextTicket = ledger.nextTicket
  BY <1>2 DEF WithoutPending, LedgerTypeOK
<1>6. ledger' = AppendEntry(t, p.input, p.ts, o, clock, f)
  BY DEF SettleOutput, SettleOutputWith
<1>7. e = NextEntry(t, p.input, p.ts, o, clock, f)
  BY DEF SettledEntry
<1>8. e.input = p.input /\ e.ts = p.ts
  BY <1>7 DEF NextEntry
<1> HIDE DEF t, e
<1>9. /\ ledger'.entries = Append(ledger.entries, e)
      /\ ledger'.pending = RemoveAt(ledger.pending, at)
      /\ ledger'.nextTicket = ledger.nextTicket
  <2> HIDE DEF p
  <2>1. p.input \in Value /\ p.ts \in Nat
    BY <1>4 DEF PendingInput
  <2>2. /\ ledger'.entries = Append(t.entries, e)
        /\ ledger'.pending = t.pending /\ ledger'.nextTicket = t.nextTicket
    BY <1>2, <1>4, <1>6, <1>7, <2>1, AppendEntryShape
  <2> QED BY <2>2, <1>4, <1>5
<1>10. opened' = opened /\ closed' = closed \cup {c}
  BY DEF SettleOutput
<1>11. c[1] = k /\ c[2] = s + 1
  BY Shapes DEF TicketInv
<1>12. k \in 1..n /\ p.input = opened[k].input /\ p.ts = opened[k].ts
  BY <1>3 DEF TicketInv, PendingMatch
<1> HIDE DEF at, p, c
<1>13. /\ s \in Nat /\ Len(ledger'.entries) = s + 1 /\ ledger'.entries[s + 1] = e
       /\ \A j \in 1..s : ledger'.entries[j] = ledger.entries[j]
  BY <1>9, Shapes, AppendFacts DEF TicketInv, IsSeq
<1>14. /\ m \in Nat /\ n \in Nat /\ Len(ledger'.pending) = m - 1
       /\ \A j \in 1..(at - 1) : ledger'.pending[j] = ledger.pending[j]
       /\ \A j \in at..(m - 1) : ledger'.pending[j] = ledger.pending[j + 1]
  BY <1>3, <1>9, Shapes, RemoveAtFacts DEF TicketInv
<1>15. /\ \A j \in 1..m : ledger.pending[j].ticket = k <=> j = at
       /\ \A d \in closed : d[1] # k /\ d[2] \in 1..s
  <2>1. \A j \in 1..m : ledger.pending[j].ticket = k <=> j = at
    BY <1>3 DEF TicketInv, PendingMatch, p
  <2> QED BY <1>3, <1>12, <2>1 DEF TicketInv, EitherOr, ClosedMatch
\* Where the pending inputs that stay have been.
<1>16. \A j \in 1..(m - 1) : \E i \in 1..m :
         /\ i # at /\ i = (IF j < at THEN j ELSE j + 1)
         /\ ledger'.pending[j] = ledger.pending[i]
  BY <1>3, <1>14
<1>17. \A i \in 1..m : i # at => \E j \in 1..(m - 1) :
         ledger'.pending[j] = ledger.pending[i]
  <2> SUFFICES ASSUME NEW i \in 1..m, i # at
               PROVE  \E j \in 1..(m - 1) : ledger'.pending[j] = ledger.pending[i]
    OBVIOUS
  <2>1. CASE i < at
    BY <2>1, <1>3, <1>14
  <2>2. CASE i > at
    <3>1. i - 1 \in at..(m - 1) /\ (i - 1) + 1 = i /\ i - 1 \in 1..(m - 1)
      BY <2>2, <1>3, <1>14
    <3> QED BY <3>1, <1>14
  <2> QED BY <2>1, <2>2, <1>3, <1>14
<1>18. PendingMatch'
  <2>1. ledger'.nextTicket = Len(opened') + 1
    BY <1>9, <1>10 DEF TicketInv, PendingMatch
  <2>2. \A j \in 1..(m - 1) :
          /\ ledger'.pending[j].ticket \in 1..n
          /\ ledger'.pending[j].input = opened[ledger'.pending[j].ticket].input
          /\ ledger'.pending[j].ts = opened[ledger'.pending[j].ticket].ts
    <3> SUFFICES ASSUME NEW j \in 1..(m - 1)
                 PROVE  /\ ledger'.pending[j].ticket \in 1..n
                        /\ ledger'.pending[j].input
                             = opened[ledger'.pending[j].ticket].input
                        /\ ledger'.pending[j].ts
                             = opened[ledger'.pending[j].ticket].ts
      OBVIOUS
    <3>1. PICK i \in 1..m : ledger'.pending[j] = ledger.pending[i]
      BY <1>16
    <3>2. /\ ledger.pending[i].ticket \in 1..n
          /\ ledger.pending[i].input = opened[ledger.pending[i].ticket].input
          /\ ledger.pending[i].ts = opened[ledger.pending[i].ticket].ts
      BY DEF TicketInv, PendingMatch
    <3> QED BY <3>1, <3>2
  <2>3. \A i, j \in 1..(m - 1) :
          ledger'.pending[i].ticket = ledger'.pending[j].ticket => i = j
    <3> SUFFICES ASSUME NEW i \in 1..(m - 1), NEW j \in 1..(m - 1),
                        ledger'.pending[i].ticket = ledger'.pending[j].ticket
                 PROVE  i = j
      OBVIOUS
    <3>1. PICK a \in 1..m : /\ a = (IF i < at THEN i ELSE i + 1)
                            /\ ledger'.pending[i] = ledger.pending[a]
      BY <1>16
    <3>2. PICK b \in 1..m : /\ b = (IF j < at THEN j ELSE j + 1)
                            /\ ledger'.pending[j] = ledger.pending[b]
      BY <1>16
    <3>3. a = b
      BY <3>1, <3>2 DEF TicketInv, PendingMatch
    <3> QED BY <3>1, <3>2, <3>3, <1>3, <1>14
  <2> QED BY <2>1, <2>2, <2>3, <1>10, <1>14 DEF PendingMatch
<1>19. ClosedMatch'
  <2>1. \A d \in closed' :
          /\ d[1] \in 1..n /\ d[2] \in 1..(s + 1)
          /\ ledger'.entries[d[2]].input = opened[d[1]].input
          /\ ledger'.entries[d[2]].ts = opened[d[1]].ts
    <3> SUFFICES ASSUME NEW d \in closed'
                 PROVE  /\ d[1] \in 1..n /\ d[2] \in 1..(s + 1)
                        /\ ledger'.entries[d[2]].input = opened[d[1]].input
                        /\ ledger'.entries[d[2]].ts = opened[d[1]].ts
      OBVIOUS
    <3>1. CASE d = c
      BY <3>1, <1>8, <1>11, <1>12, <1>13
    <3>2. CASE d \in closed
      BY <3>2, <1>13 DEF TicketInv, ClosedMatch
    <3> QED BY <3>1, <3>2, <1>10
  <2>2. \A d, g \in closed' : (d[1] = g[1]) <=> (d[2] = g[2])
    <3> SUFFICES ASSUME NEW d \in closed', NEW g \in closed'
                 PROVE  (d[1] = g[1]) <=> (d[2] = g[2])
      OBVIOUS
    <3>1. CASE d \in closed /\ g \in closed
      BY <3>1 DEF TicketInv, ClosedMatch
    <3>2. CASE d = c /\ g \in closed
      BY <3>2, <1>11, <1>13, <1>15
    <3>3. CASE d \in closed /\ g = c
      BY <3>3, <1>11, <1>13, <1>15
    <3>4. CASE d = c /\ g = c
      BY <3>4
    <3> QED BY <3>1, <3>2, <3>3, <3>4, <1>10
  <2> QED BY <2>1, <2>2, <1>10, <1>13 DEF ClosedMatch
<1>20. EitherOr'
  <2> SUFFICES ASSUME NEW h \in 1..n
               PROVE  (\E j \in 1..(m - 1) : ledger'.pending[j].ticket = h)
                        <=> ~ \E d \in closed' : d[1] = h
    BY <1>10, <1>14 DEF EitherOr
  <2>1. CASE h = k
    <3>1. \A j \in 1..(m - 1) : ledger'.pending[j].ticket # k
      BY <1>15, <1>16
    <3> QED BY <2>1, <3>1, <1>10, <1>11
  <2>2. CASE h # k
    <3>1. (\E j \in 1..(m - 1) : ledger'.pending[j].ticket = h)
            <=> \E i \in 1..m : ledger.pending[i].ticket = h
      <4>1. ASSUME NEW j \in 1..(m - 1), ledger'.pending[j].ticket = h
            PROVE  \E i \in 1..m : ledger.pending[i].ticket = h
        BY <4>1, <1>16
      <4>2. ASSUME NEW i \in 1..m, ledger.pending[i].ticket = h
            PROVE  \E j \in 1..(m - 1) : ledger'.pending[j].ticket = h
        <5>1. i # at
          BY <4>2, <2>2, <1>15
        <5> QED BY <4>2, <5>1, <1>17
      <4> QED BY <4>1, <4>2
    <3>2. (\E d \in closed' : d[1] = h) <=> \E d \in closed : d[1] = h
      BY <2>2, <1>10, <1>11
    <3> QED BY <3>1, <3>2 DEF TicketInv, EitherOr
  <2> QED BY <2>1, <2>2
<1>21. Counted'
  <2>1. IsFiniteSet(closed) /\ Cardinality(closed) \in Nat
    BY FS_CardinalityType DEF TicketInv, Counted
  <2>2. c \notin closed
    BY <1>11, <1>15
  <2>3. IsFiniteSet(closed') /\ Cardinality(closed') = Cardinality(closed) + 1
    BY <2>1, <2>2, <1>10, FS_AddElement
  <2> QED BY <2>1, <2>3, <1>10, <1>14 DEF TicketInv, Counted
<1> QED BY <1>1, <1>18, <1>19, <1>20, <1>21 DEF TicketInv

\* Whatever the order in which questions are answered, every answer stands under
\* its own question, none is answered twice or forgotten, and reconcile calls
\* the books balanced exactly when all are answered (open_input, settle_output,
\* reconcile).
THEOREM EveryTicketMatches == Spec => []TicketsMatch
<1>1. TicketInv /\ [Next]_vars => TicketInv'
  <2> SUFFICES ASSUME TicketInv, [Next]_vars PROVE TicketInv'
    OBVIOUS
  <2>1. CASE Tick \/ UNCHANGED vars
    <3>1. IInv'
      BY StepKeepsBooks DEF TicketInv
    <3>2. ledger' = ledger /\ opened' = opened /\ closed' = closed
      BY <2>1 DEF Tick, vars
    <3> QED BY <3>1, <3>2 DEF TicketInv, PendingMatch, ClosedMatch, EitherOr, Counted
  <2> QED BY <2>1, RecordKeepsTickets, OpenKeepsTickets, SettleKeepsTickets DEF Next
<1>2. TicketInv => TicketsMatch
  <2> SUFFICES ASSUME TicketInv PROVE TicketsMatch
    OBVIOUS
  <2>1. {ledger.pending[i].ticket : i \in 1..Len(ledger.pending)}
          = (1..Len(opened)) \ {p[1] : p \in closed}
    <3> DEFINE open == {ledger.pending[i].ticket : i \in 1..Len(ledger.pending)}
               done == {p[1] : p \in closed}
    <3>1. open \subseteq 1..Len(opened)
      BY DEF TicketInv, PendingMatch
    <3>2. \A k \in 1..Len(opened) : k \in open <=> ~ (k \in done)
      BY DEF TicketInv, EitherOr
    <3> HIDE DEF open, done
    <3> QED BY <3>1, <3>2 DEF open, done
  <2>2. Balanced(ledger) <=> (Cardinality(closed) = Len(opened))
    <3>1. Cardinality(closed) \in Nat
      BY FS_CardinalityType DEF TicketInv, Counted
    <3>2. Balanced(ledger) <=> Len(ledger.pending) = 0
      BY Shapes DEF TicketInv, Balanced, HonestBooks
    <3> QED BY <3>1, <3>2, Shapes DEF TicketInv, Counted
  <2> QED BY <2>1, <2>2 DEF TicketsMatch, TicketInv, ClosedMatch
<1> QED BY <1>1, <1>2, TicketInit, PTL DEF Spec

-----------------------------------------------------------------------------
(***************************************************************************)
(* Replay: the times of the entries, and the state at a time.              *)
(***************************************************************************)

\* What waits was posted before now.
Waiting(l, now) == \A i \in 1..Len(l.pending) : l.pending[i].ts <= now

\* An entry completed now.
CompletedAt(e, now) == EntryShape(e) /\ e.outTs = now /\ e.ts <= now

LEMMA StepTimes ==
  ASSUME IInv, [Next]_vars, Waiting(ledger, clock)
  PROVE  /\ Waiting(ledger', clock')
         /\ ledger'.genesis = ledger.genesis
         /\ \/ /\ ledger'.entries = ledger.entries /\ ledger'.state = ledger.state
               /\ \/ clock' = clock /\ stateAt' = stateAt
                  \/ clock' = clock + 1 /\ stateAt' = Append(stateAt, ledger.state)
            \/ /\ clock' = clock /\ stateAt' = stateAt
               /\ \E e : /\ ledger'.entries = Append(ledger.entries, e)
                         /\ CompletedAt(e, clock)
<1> DEFINE m == Len(ledger.pending)
<1>1. /\ LedgerTypeOK(ledger) /\ HonestBooks(ledger) /\ clock \in Nat /\ m \in Nat
      /\ ledger.pending \in Seq(PendingInput)
  BY Shapes
<1>2. ASSUME NEW i \in Input, NEW o \in Output, NEW f \in Forecast, Record(i, o, f)
      PROVE  /\ ledger'.pending = ledger.pending /\ ledger'.genesis = ledger.genesis
             /\ clock' = clock /\ stateAt' = stateAt
             /\ \E e : ledger'.entries = Append(ledger.entries, e) /\ CompletedAt(e, clock)
  <2> DEFINE e == NextEntry(ledger, i, clock, o, clock, f)
  <2>1. i \in Value /\ o \in Value
    BY LedgerAssumption
  <2>2. ledger' = AppendEntry(ledger, i, clock, o, clock, f)
    BY <1>2 DEF Record, RecordWith
  <2>3. EntryShape(e) /\ e.outTs = clock /\ e.ts = clock
    BY NextEntryShape DEF NextEntry
  <2> HIDE DEF e
  <2>4. /\ ledger'.entries = Append(ledger.entries, e)
        /\ ledger'.pending = ledger.pending /\ ledger'.genesis = ledger.genesis
    BY <1>1, <2>1, <2>2, AppendEntryShape DEF e
  <2>5. CompletedAt(e, clock)
    BY <1>1, <2>3 DEF CompletedAt
  <2> QED BY <1>2, <2>4, <2>5 DEF Record
<1>3. ASSUME NEW i \in Input, OpenInput(i)
      PROVE  /\ Waiting(ledger', clock') /\ ledger'.genesis = ledger.genesis
             /\ ledger'.entries = ledger.entries /\ ledger'.state = ledger.state
             /\ clock' = clock /\ stateAt' = stateAt
  <2> DEFINE p == [ticket |-> ledger.nextTicket, ts |-> clock, input |-> i]
  <2>1. /\ ledger'.pending = Append(ledger.pending, p)
        /\ ledger'.entries = ledger.entries /\ ledger'.state = ledger.state
        /\ ledger'.genesis = ledger.genesis
    BY <1>1, <1>3 DEF OpenInput, OpenInputWith, LedgerTypeOK
  <2>2. p \in PendingInput /\ p.ts = clock
    BY <1>1, LedgerAssumption, Shapes DEF PendingInput
  <2> HIDE DEF p
  <2>3. /\ Len(ledger'.pending) = m + 1 /\ ledger'.pending[m + 1] = p
        /\ \A j \in 1..m : ledger'.pending[j] = ledger.pending[j]
    BY <1>1, <2>1, <2>2
  <2>4. clock' = clock /\ stateAt' = stateAt
    BY <1>3 DEF OpenInput
  <2>5. Waiting(ledger', clock')
    BY <1>1, <2>2, <2>3, <2>4 DEF Waiting
  <2> QED BY <2>1, <2>4, <2>5
<1>4. ASSUME NEW k \in 1..MaxTickets, NEW o \in Output, NEW f \in Forecast,
             SettleOutput(k, o, f)
      PROVE  /\ Waiting(ledger', clock') /\ ledger'.genesis = ledger.genesis
             /\ clock' = clock /\ stateAt' = stateAt
             /\ \E e : ledger'.entries = Append(ledger.entries, e) /\ CompletedAt(e, clock)
  <2> DEFINE at == PositionOf(ledger, k)
             p == ledger.pending[at]
             t == WithoutPending(ledger, k)
             e == NextEntry(t, p.input, p.ts, o, clock, f)
  <2>1. k \in Nat /\ o \in Value /\ HasTicket(ledger, k)
    BY <1>4, LedgerAssumption DEF SettleOutput
  <2>2. at \in 1..m
    BY <2>1 DEF HasTicket, PositionOf
  <2>3. p \in PendingInput /\ LedgerTypeOK(t) /\ t.entries = ledger.entries
    BY <1>1, <2>1, TakePending
  <2>4. t.pending = RemoveAt(ledger.pending, at) /\ t.genesis = ledger.genesis
    BY <1>1 DEF WithoutPending, LedgerTypeOK
  <2>5. ledger' = AppendEntry(t, p.input, p.ts, o, clock, f)
    BY <1>4 DEF SettleOutput, SettleOutputWith
  <2>6. EntryShape(e) /\ e.outTs = clock /\ e.ts = p.ts
    BY NextEntryShape DEF NextEntry
  <2>7. p.ts <= clock
    BY <2>2 DEF Waiting
  <2>8. p.input \in Value /\ p.ts \in Nat
    BY <2>3 DEF PendingInput
  <2> HIDE DEF t, p, at
  <2>9. /\ ledger'.entries = Append(ledger.entries, e)
        /\ ledger'.pending = t.pending /\ ledger'.genesis = t.genesis
    BY <1>1, <2>1, <2>3, <2>5, <2>8, AppendEntryShape
  <2> HIDE DEF e
  <2>10. CompletedAt(e, clock)
    BY <2>6, <2>7 DEF CompletedAt
  <2>11. /\ Len(ledger'.pending) = m - 1
         /\ \A j \in 1..(at - 1) : ledger'.pending[j] = ledger.pending[j]
         /\ \A j \in at..(m - 1) : ledger'.pending[j] = ledger.pending[j + 1]
    <3>1. ledger'.pending = RemoveAt(ledger.pending, at)
      BY <2>4, <2>9
    <3>2. at \in 1..Len(ledger.pending)
      BY <2>2
    <3> HIDE DEF m
    <3>3. /\ Len(RemoveAt(ledger.pending, at)) = Len(ledger.pending) - 1
          /\ \A j \in 1..(at - 1) :
               RemoveAt(ledger.pending, at)[j] = ledger.pending[j]
          /\ \A j \in at..(Len(ledger.pending) - 1) :
               RemoveAt(ledger.pending, at)[j] = ledger.pending[j + 1]
      BY <1>1, <3>2, RemoveAtFacts
    <3> QED BY <3>1, <3>3 DEF m
  <2>12. clock' = clock /\ stateAt' = stateAt
    BY <1>4 DEF SettleOutput
  <2>13. Waiting(ledger', clock')
    <3> SUFFICES ASSUME NEW j \in 1..(m - 1) PROVE ledger'.pending[j].ts <= clock
      BY <2>11, <2>12 DEF Waiting
    <3>1. CASE j \in 1..(at - 1)
      <4>1. j \in 1..m
        BY <1>1
      <4> QED BY <2>11, <3>1, <4>1 DEF Waiting
    <3>2. CASE j \in at..(m - 1)
      <4>1. j + 1 \in 1..m
        BY <1>1
      <4> QED BY <2>11, <3>2, <4>1 DEF Waiting
    <3> QED BY <1>1, <2>2, <3>1, <3>2
  <2> QED BY <2>4, <2>9, <2>10, <2>12, <2>13
<1>5. ASSUME Tick
      PROVE  /\ Waiting(ledger', clock') /\ ledger' = ledger
             /\ clock' = clock + 1 /\ stateAt' = Append(stateAt, ledger.state)
  <2>1. ledger' = ledger /\ clock' = clock + 1 /\ stateAt' = Append(stateAt, ledger.state)
    BY <1>5 DEF Tick
  <2>2. \A j \in 1..m : ledger.pending[j].ts \in Nat
    <3> SUFFICES ASSUME NEW j \in 1..m PROVE ledger.pending[j].ts \in Nat
      OBVIOUS
    <3>1. ledger.pending[j] \in PendingInput
      BY <1>1
    <3> QED BY <3>1 DEF PendingInput
  <2>3. Waiting(ledger', clock')
    BY <1>1, <2>1, <2>2 DEF Waiting
  <2> QED BY <2>1, <2>3
<1>6. CASE UNCHANGED vars
  BY <1>6 DEF vars, Waiting
<1>7. CASE Next
  <2>1. CASE \E i \in Input, o \in Output, f \in Forecast : Record(i, o, f)
    BY <1>2, <2>1 DEF Waiting
  <2>2. CASE \E i \in Input : OpenInput(i)
    BY <1>3, <2>2
  <2>3. CASE \E k \in 1..MaxTickets, o \in Output, f \in Forecast : SettleOutput(k, o, f)
    BY <1>4, <2>3
  <2>4. CASE Tick
    BY <1>5, <2>4
  <2> QED BY <1>7, <2>1, <2>2, <2>3, <2>4 DEF Next
<1> QED BY <1>6, <1>7

\* What KeptUntil computes for the first n entries, for every n up to N.
UpTo(es, untilTs, N, g) ==
  g = [n \in 0..N |-> IF n = 0 THEN << >>
                      ELSE IF es[n].ts <= untilTs THEN Append(g[n - 1], es[n])
                      ELSE g[n - 1]]

LEMMA UpToExists ==
  ASSUME NEW es, NEW untilTs, NEW N \in Nat
  PROVE  \E g : UpTo(es, untilTs, N, g)
<1> DEFINE S == {n \in Nat : \E g : UpTo(es, untilTs, n, g)}
<1>1. 0 \in S
  <2> DEFINE g == [n \in 0..0 |-> << >>]
  <2>1. g = [n \in 0..0 |-> IF n = 0 THEN << >>
                            ELSE IF es[n].ts <= untilTs THEN Append(g[n - 1], es[n])
                            ELSE g[n - 1]]
    OBVIOUS
  <2> QED BY <2>1 DEF UpTo
<1>2. ASSUME NEW n \in S PROVE n + 1 \in S
  <2>1. PICK g : UpTo(es, untilTs, n, g)
    OBVIOUS
  <2> DEFINE last == IF es[n + 1].ts <= untilTs THEN Append(g[n], es[n + 1])
                     ELSE g[n]
             h == [k \in 0..(n + 1) |-> IF k = n + 1 THEN last ELSE g[k]]
  <2>2. ASSUME NEW k \in 0..(n + 1)
        PROVE  h[k] = IF k = 0 THEN << >>
                      ELSE IF es[k].ts <= untilTs THEN Append(h[k - 1], es[k])
                      ELSE h[k - 1]
    <3>1. CASE k = n + 1
      <4>1. k \in 0..(n + 1) /\ k # 0 /\ k - 1 = n /\ n \in 0..(n + 1) /\ n # n + 1
        BY <3>1
      <4>2. h[k] = last /\ h[k - 1] = g[n]
        BY <3>1, <4>1
      <4> QED BY <3>1, <4>1, <4>2
    <3>2. CASE k # n + 1
      <4>1. k \in 0..n /\ h[k] = g[k] /\ (k # 0 => h[k - 1] = g[k - 1])
        BY <3>2
      <4> HIDE DEF h
      <4> QED BY <2>1, <4>1 DEF UpTo
    <3> QED BY <3>1, <3>2
  <2>3. h = [k \in 0..(n + 1) |->
               IF k = 0 THEN << >>
               ELSE IF es[k].ts <= untilTs THEN Append(h[k - 1], es[k])
               ELSE h[k - 1]]
    <3>1. h = [k \in 0..(n + 1) |-> h[k]]
      OBVIOUS
    <3> HIDE DEF h
    <3> QED BY <2>2, <3>1
  <2>4. UpTo(es, untilTs, n + 1, h)
    <3> HIDE DEF h
    <3> QED BY <2>3 DEF UpTo
  <2> QED BY <2>4
<1> HIDE DEF S
<1>3. S = Nat
  <2>1. S \in SUBSET Nat
    BY DEF S
  <2> QED BY <1>1, <1>2, <2>1, Induct
<1> QED BY <1>3 DEF S

\* When exactly the first n entries are at or before the cut, replay keeps them.
LEMMA KeptIsPrefix ==
  ASSUME NEW es, IsSeq(es), NEW untilTs, NEW n \in 0..Len(es),
         \A i \in 1..n : es[i].ts <= untilTs,
         \A i \in (n + 1)..Len(es) : ~ (es[i].ts <= untilTs)
  PROVE  KeptUntil(es, untilTs) = SubSeq(es, 1, n)
<1> DEFINE N == Len(es)
           g == CHOOSE g : UpTo(es, untilTs, N, g)
           least(k) == IF k <= n THEN k ELSE n
           T == ToSet(es)
<1>1. es \in Seq(T) /\ N \in Nat /\ n \in Nat /\ n <= N
  BY DEF IsSeq
<1>2. UpTo(es, untilTs, N, g)
  BY <1>1, UpToExists
<1>3. KeptUntil(es, untilTs) = g[N]
  BY DEF KeptUntil, UpTo
<1> HIDE DEF g, T, N
<1>4. /\ g[0] = << >>
      /\ \A k \in 1..N : g[k] = IF es[k].ts <= untilTs THEN Append(g[k - 1], es[k])
                                ELSE g[k - 1]
  <2>1. g = [k \in 0..N |-> IF k = 0 THEN << >>
                            ELSE IF es[k].ts <= untilTs THEN Append(g[k - 1], es[k])
                            ELSE g[k - 1]]
    BY <1>2 DEF UpTo
  <2>2. 0 \in 0..N /\ \A k \in 1..N : k \in 0..N /\ k # 0
    BY <1>1
  <2>3. \A k \in 0..N : g[k] = IF k = 0 THEN << >>
                               ELSE IF es[k].ts <= untilTs
                                    THEN Append(g[k - 1], es[k])
                               ELSE g[k - 1]
    BY <2>1, Zenon
  <2> QED BY <2>2, <2>3, Zenon
<1> DEFINE S == {k \in Nat : k <= N => g[k] = SubSeq(es, 1, least(k))}
<1>5. 0 \in S
  <2>1. SubSeq(es, 1, 0) = << >>
    BY <1>1
  <2>2. least(0) = 0
    BY <1>1
  <2> HIDE DEF least
  <2> QED BY <1>4, <2>1, <2>2
<1>6. ASSUME NEW k \in S PROVE k + 1 \in S
  <2> SUFFICES ASSUME k + 1 <= N PROVE g[k + 1] = SubSeq(es, 1, least(k + 1))
    OBVIOUS
  <2>1. k \in Nat /\ k + 1 \in 1..N /\ (k + 1) - 1 = k /\ g[k] = SubSeq(es, 1, least(k))
    BY <1>1
  <2>2. CASE k + 1 <= n
    <3>1. es[k + 1].ts <= untilTs
      BY <2>1, <2>2
    <3>2. g[k + 1] = Append(SubSeq(es, 1, k), es[k + 1])
      <4>1. least(k) = k
        BY <1>1, <2>1, <2>2
      <4>2. g[k + 1] = Append(g[(k + 1) - 1], es[k + 1])
        BY <1>4, <2>1, <3>1, Zenon
      <4> QED BY <2>1, <4>1, <4>2
    <3>3. SubSeq(es, 1, k + 1) = Append(SubSeq(es, 1, k), es[k + 1])
      BY <1>1, <2>1 DEF N
    <3> QED BY <2>2, <3>2, <3>3
  <2>3. CASE ~ (k + 1 <= n)
    <3>1. k + 1 \in (n + 1)..Len(es)
      BY <1>1, <2>1, <2>3 DEF N
    <3>2. g[k + 1] = g[k]
      BY <1>4, <2>1, <3>1
    <3>3. least(k + 1) = least(k)
      BY <1>1, <2>1, <2>3
    <3> QED BY <2>1, <3>2, <3>3
  <2> QED BY <2>2, <2>3
<1>7. S = Nat
  <2>1. S \in SUBSET Nat
    OBVIOUS
  <2> HIDE DEF S
  <2> QED BY <1>5, <1>6, <2>1, Induct
<1>8. g[N] = SubSeq(es, 1, n)
  <2>1. least(N) = n
    BY <1>1
  <2> QED BY <1>1, <1>7, <2>1
<1> QED BY <1>3, <1>8

\* What replay gives when exactly the first n entries are at or before the cut:
\* those entries, and the state they leave.
LEMMA ReplayIsPrefix ==
  ASSUME NEW l, IsSeq(l.entries), NEW untilTs, NEW n \in 0..Len(l.entries),
         \A i \in 1..n : l.entries[i].ts <= untilTs,
         \A i \in (n + 1)..Len(l.entries) : ~ (l.entries[i].ts <= untilTs)
  PROVE  /\ Replay(l, untilTs).state = ExpectedBefore(l, n + 1)
         /\ Replay(l, untilTs).entries = SubSeq(l.entries, 1, n)
<1> DEFINE es == l.entries
           kept == KeptUntil(es, untilTs)
<1>1. kept = SubSeq(es, 1, n)
  BY KeptIsPrefix
<1>2. es \in Seq(ToSet(es)) /\ n \in Nat /\ Len(es) \in Nat
  BY DEF IsSeq
<1>3. /\ Len(kept) = n /\ \A i \in 1..n : kept[i] = es[i]
      /\ (kept = << >>) <=> (n = 0)
  <2> HIDE DEF kept
  <2>1. kept \in Seq(ToSet(es)) /\ Len(kept) = n /\ \A i \in 1..n : kept[i] = es[i]
    BY <1>1, <1>2, PrefixFacts
  <2> QED BY <2>1
<1>4. /\ Replay(l, untilTs).entries = kept
      /\ Replay(l, untilTs).state
           = IF kept = << >> THEN UnwrapOr(l.genesis, Null) ELSE Last(kept).after
  BY DEF Replay
<1> HIDE DEF kept
<1>5. CASE n = 0
  BY <1>3, <1>4, <1>5, <1>1 DEF ExpectedBefore
<1>6. CASE n # 0
  <2>1. Last(kept) = es[n]
    BY <1>2, <1>3, <1>6 DEF Last
  <2>2. ExpectedBefore(l, n + 1) = es[n].after
    BY <1>2, <1>6 DEF ExpectedBefore
  <2> QED BY <1>1, <1>3, <1>4, <1>6, <2>1, <2>2
<1> QED BY <1>5, <1>6

\* The history of state() at the ends of past times is the chain's: at the end
\* of time t it was what the entries completed by then leave, and they are a
\* prefix of the chain.
PastState(t) ==
  \E n \in 0..Len(ledger.entries) :
    /\ \A i \in 1..n : ledger.entries[i].outTs <= t
    /\ \A i \in (n + 1)..Len(ledger.entries) : ledger.entries[i].outTs > t
    /\ stateAt[t + 1] = ExpectedBefore(ledger, n + 1)

TimeInv ==
  /\ IInv
  /\ Waiting(ledger, clock)
  /\ Len(stateAt) = clock
  /\ \A i \in 1..Len(ledger.entries) :
       /\ EntryShape(ledger.entries[i])
       /\ ledger.entries[i].ts <= ledger.entries[i].outTs
       /\ ledger.entries[i].outTs <= clock
  /\ \A t \in 0..(clock - 1) : PastState(t)

LEMMA TimeInit == Init => TimeInv
<1> SUFFICES ASSUME Init PROVE TimeInv
  OBVIOUS
<1>1. /\ ledger.pending = << >> /\ ledger.entries = << >>
      /\ clock = 0 /\ stateAt = << >>
  BY DEF Init, NewLedger, WithGenesis
<1>2. Len(ledger.pending) = 0 /\ Len(ledger.entries) = 0 /\ Len(stateAt) = 0
  BY <1>1
<1> QED BY <1>1, <1>2, InitIInv DEF TimeInv, Waiting

\* Time passing makes the present state a past one.
LEMMA TimeTick ==
  ASSUME TimeInv, ledger'.entries = ledger.entries, ledger'.genesis = ledger.genesis,
         clock' = clock + 1, stateAt' = Append(stateAt, ledger.state),
         IInv', Waiting(ledger', clock')
  PROVE  TimeInv'
<1> DEFINE N == Len(ledger.entries)
<1>1. /\ N \in Nat /\ clock \in Nat /\ stateAt \in Seq(Value) /\ ledger.state \in Value
      /\ ledger.state = ExpectedBefore(ledger, N + 1)
      /\ \A i \in 1..N : ledger.entries[i].outTs \in Nat
  BY Shapes DEF TimeInv, IInv, TypeOK, LedgerTypeOK, HonestBooks
<1>2. /\ Len(stateAt') = clock' /\ stateAt'[clock + 1] = ledger.state
      /\ \A t \in 0..(clock - 1) : stateAt'[t + 1] = stateAt[t + 1]
  BY <1>1 DEF TimeInv
<1>3. \A i : ExpectedBefore(ledger', i) = ExpectedBefore(ledger, i)
  BY DEF ExpectedBefore
<1>4. ASSUME NEW t \in 0..clock PROVE PastState(t)'
  <2>1. CASE t = clock
    <3>1. \A i \in 1..N : ledger.entries[i].outTs <= t
      BY <2>1 DEF TimeInv
    <3>2. N \in 0..Len(ledger.entries)
      BY <1>1
    <3>3. \A i \in (N + 1)..N : FALSE
      BY <1>1
    <3> QED BY <2>1, <1>1, <1>2, <1>3, <3>1, <3>2, <3>3 DEF PastState
  <2>2. CASE t # clock
    <3>1. t \in 0..(clock - 1)
      BY <2>2, <1>1
    <3>2. PastState(t) /\ stateAt'[t + 1] = stateAt[t + 1]
      BY <1>2, <3>1 DEF TimeInv
    <3> QED BY <1>3, <3>2 DEF PastState
  <2> QED BY <2>1, <2>2
<1>5. \A i \in 1..N : /\ EntryShape(ledger.entries[i])
                      /\ ledger.entries[i].ts <= ledger.entries[i].outTs
                      /\ ledger.entries[i].outTs <= clock'
  BY <1>1 DEF TimeInv
<1> QED BY <1>1, <1>2, <1>4, <1>5 DEF TimeInv

\* An entry that completes now leaves the past as it was.
LEMMA TimeEntry ==
  ASSUME TimeInv, NEW e, ledger'.entries = Append(ledger.entries, e),
         CompletedAt(e, clock), ledger'.genesis = ledger.genesis,
         clock' = clock, stateAt' = stateAt,
         IInv', Waiting(ledger', clock')
  PROVE  TimeInv'
<1> DEFINE N == Len(ledger.entries)
<1>1. N \in Nat /\ clock \in Nat
  BY Shapes DEF TimeInv
<1>2. /\ Len(ledger'.entries) = N + 1 /\ ledger'.entries[N + 1] = e
      /\ \A i \in 1..N : ledger'.entries[i] = ledger.entries[i]
  BY Shapes, AppendFacts DEF TimeInv, IsSeq
<1>3. \A i \in 1..(N + 1) : ExpectedBefore(ledger', i) = ExpectedBefore(ledger, i)
  BY <1>1, <1>2 DEF ExpectedBefore
<1>4. \A i \in 1..(N + 1) : /\ EntryShape(ledger'.entries[i])
                            /\ ledger'.entries[i].ts <= ledger'.entries[i].outTs
                            /\ ledger'.entries[i].outTs <= clock
  <2> SUFFICES ASSUME NEW i \in 1..(N + 1)
               PROVE  /\ EntryShape(ledger'.entries[i])
                      /\ ledger'.entries[i].ts <= ledger'.entries[i].outTs
                      /\ ledger'.entries[i].outTs <= clock
    OBVIOUS
  <2>1. CASE i = N + 1
    BY <2>1, <1>1, <1>2 DEF CompletedAt
  <2>2. CASE i # N + 1
    <3>1. i \in 1..N
      BY <2>2, <1>1
    <3> QED BY <1>2, <3>1 DEF TimeInv
  <2> QED BY <2>1, <2>2
<1>5. ASSUME NEW t \in 0..(clock - 1) PROVE PastState(t)'
  <2>1. PICK n \in 0..N :
          /\ \A i \in 1..n : ledger.entries[i].outTs <= t
          /\ \A i \in (n + 1)..N : ledger.entries[i].outTs > t
          /\ stateAt[t + 1] = ExpectedBefore(ledger, n + 1)
    BY DEF TimeInv, PastState
  <2>2. n \in 0..(N + 1) /\ n + 1 \in 1..(N + 1)
    BY <1>1
  <2>3. \A i \in 1..n : ledger'.entries[i].outTs <= t
    BY <1>1, <1>2, <2>1
  <2>4. \A i \in (n + 1)..(N + 1) : ledger'.entries[i].outTs > t
    <3> SUFFICES ASSUME NEW i \in (n + 1)..(N + 1)
                 PROVE  ledger'.entries[i].outTs > t
      OBVIOUS
    <3>1. CASE i = N + 1
      BY <3>1, <1>1, <1>2 DEF CompletedAt
    <3>2. CASE i # N + 1
      <4>1. i \in (n + 1)..N /\ i \in 1..N
        BY <3>2, <1>1
      <4> QED BY <1>2, <2>1, <4>1
    <3> QED BY <3>1, <3>2
  <2> QED BY <1>2, <1>3, <2>1, <2>2, <2>3, <2>4 DEF PastState
<1> QED BY <1>2, <1>4, <1>5 DEF TimeInv

LEMMA TimeStep ==
  ASSUME TimeInv, [Next]_vars
  PROVE  TimeInv'
<1>1. IInv'
  BY StepKeepsBooks DEF TimeInv
<1>2. /\ Waiting(ledger', clock') /\ ledger'.genesis = ledger.genesis
      /\ \/ /\ ledger'.entries = ledger.entries /\ ledger'.state = ledger.state
            /\ \/ clock' = clock /\ stateAt' = stateAt
               \/ clock' = clock + 1 /\ stateAt' = Append(stateAt, ledger.state)
         \/ /\ clock' = clock /\ stateAt' = stateAt
            /\ \E e : /\ ledger'.entries = Append(ledger.entries, e)
                      /\ CompletedAt(e, clock)
  BY StepTimes DEF TimeInv
<1>3. CASE /\ ledger'.entries = ledger.entries
           /\ clock' = clock /\ stateAt' = stateAt
  <2>1. \A i : ExpectedBefore(ledger', i) = ExpectedBefore(ledger, i)
    BY <1>2, <1>3 DEF ExpectedBefore
  <2>2. \A t : PastState(t) => PastState(t)'
    BY <1>3, <2>1 DEF PastState
  <2> QED BY <1>1, <1>2, <1>3, <2>2 DEF TimeInv
<1>4. CASE /\ ledger'.entries = ledger.entries
           /\ clock' = clock + 1 /\ stateAt' = Append(stateAt, ledger.state)
  BY <1>1, <1>2, <1>4, TimeTick
<1>5. CASE /\ clock' = clock /\ stateAt' = stateAt
           /\ \E e : /\ ledger'.entries = Append(ledger.entries, e)
                     /\ CompletedAt(e, clock)
  <2>1. PICK e : ledger'.entries = Append(ledger.entries, e) /\ CompletedAt(e, clock)
    BY <1>5
  <2> QED BY <1>1, <1>2, <1>5, <2>1, TimeEntry
<1> QED BY <1>2, <1>3, <1>4, <1>5

LEMMA TimeAlways == Spec => []TimeInv
<1>1. TimeInv /\ [Next]_vars => TimeInv'
  BY TimeStep
<1> QED BY <1>1, TimeInit, PTL DEF Spec

\* replay(now) is the live state and the whole history, whatever the order of
\* the settlements, and replay(t) of a past time is what state() was then
\* unless some input of that time or before was answered only after it
\* (CellLedger::replay, whose cut is on the time of the question).
THEOREM ReplayAgreesAlways == Spec => []ReplayAgreesUnlessLate
<1>1. TimeInv => ReplayAgreesUnlessLate
  <2> SUFFICES ASSUME TimeInv PROVE ReplayAgreesUnlessLate
    OBVIOUS
  <2> DEFINE es == ledger.entries
             N == Len(es)
  <2>1. /\ IsSeq(es) /\ N \in Nat /\ clock \in Nat
        /\ ledger.state = ExpectedBefore(ledger, N + 1)
    BY Shapes DEF TimeInv, HonestBooks
  <2>2. \A i \in 1..N : /\ es[i].ts \in Nat /\ es[i].outTs \in Nat
                        /\ es[i].ts <= es[i].outTs /\ es[i].outTs <= clock
    BY Shapes DEF TimeInv, LedgerTypeOK
  <2>3. /\ Replay(ledger, clock).state = ledger.state
        /\ Replay(ledger, clock).entries = es
    <3>1. \A i \in 1..N : es[i].ts <= clock
      BY <2>1, <2>2
    <3>2. N \in 0..N /\ \A i \in (N + 1)..N : FALSE
      BY <2>1
    <3>3. SubSeq(es, 1, N) = es
      BY <2>1 DEF IsSeq
    <3>4. /\ Replay(ledger, clock).state = ExpectedBefore(ledger, N + 1)
          /\ Replay(ledger, clock).entries = SubSeq(es, 1, N)
      BY <2>1, <3>1, <3>2, ReplayIsPrefix
    <3> QED BY <2>1, <3>3, <3>4
  <2>4. ASSUME NEW t \in 0..(clock - 1),
               ~ \E e \in ToSet(es) : e.ts <= t /\ t < e.outTs
        PROVE  Replay(ledger, t).state = stateAt[t + 1]
    <3>1. PICK n \in 0..N :
            /\ \A i \in 1..n : es[i].outTs <= t
            /\ \A i \in (n + 1)..N : es[i].outTs > t
            /\ stateAt[t + 1] = ExpectedBefore(ledger, n + 1)
      BY DEF TimeInv, PastState
    <3>2. n \in Nat /\ t \in Nat
      BY <2>1
    <3>3. \A i \in 1..N : es[i] \in ToSet(es)
      BY <2>1 DEF ToSet, IsSeq
    <3>4. ASSUME NEW i \in 1..n PROVE es[i].ts <= t
      <4>1. i \in 1..N
        BY <2>1, <3>2
      <4> QED BY <2>2, <3>1, <3>2, <4>1
    <3>5. ASSUME NEW i \in (n + 1)..N PROVE ~ (es[i].ts <= t)
      <4>1. i \in 1..N
        BY <2>1, <3>2
      <4>2. es[i].outTs > t /\ es[i].outTs \in Nat
        BY <2>2, <3>1, <4>1
      <4> QED BY <2>4, <3>2, <3>3, <4>1, <4>2
    <3> HIDE DEF es, N
    <3>6. Replay(ledger, t).state = ExpectedBefore(ledger, n + 1)
      BY <2>1, <3>4, <3>5, ReplayIsPrefix DEF es, N
    <3> QED BY <3>1, <3>6
  <2> QED BY <2>3, <2>4 DEF ReplayAgreesUnlessLate
<1> QED BY <1>1, TimeAlways, PTL

-----------------------------------------------------------------------------
(***************************************************************************)
(* A ledger through JSON, and tampering.                                   *)
(***************************************************************************)

\* An entry is written and read back as it is, unless it forecasts null.
LEMMA JsonKeepsEntry ==
  ASSUME NEW e, EntryShape(e), e.expected # Some(Null)
  PROVE  JsonEntry(e) = e
<1>1. JsonEntry(e) = [e EXCEPT !.expected = e.expected]
  BY DEF JsonEntry, JsonOption
<1> QED BY <1>1 DEF EntryShape

\* Two ledgers of the same entries whose geneses count for the same value
\* pass the same audits.
LEMMA SameAudits ==
  ASSUME NEW l, NEW m, m.entries = l.entries, m.cell = l.cell,
         m.genesisTs = l.genesisTs,
         UnwrapOr(m.genesis, Null) = UnwrapOr(l.genesis, Null)
  PROVE  /\ ChainHash(m) = ChainHash(l)
         /\ ChainIntact(m) <=> ChainIntact(l)
         /\ ContinuityIntact(m) <=> ContinuityIntact(l)
<1>1. GenesisCommit(m) = GenesisCommit(l)
  BY DEF GenesisCommit
<1>2. \A i : ExpectedPrev(m, i) = ExpectedPrev(l, i)
  BY <1>1 DEF ExpectedPrev
<1>3. \A i : ExpectedBefore(m, i) = ExpectedBefore(l, i)
  BY DEF ExpectedBefore
<1>4. ChainHash(m) = ChainHash(l)
  BY <1>1 DEF ChainHash
<1>5. ChainIntact(m) <=> ChainIntact(l)
  BY <1>2 DEF ChainIntact, BreaksAt
<1>6. ContinuityIntact(m) <=> ContinuityIntact(l)
  BY <1>3 DEF ContinuityIntact
<1> QED BY <1>4, <1>5, <1>6

\* "Serializes wholesale via serde": at any moment a ledger that holds no null
\* forecast reads back with its head, its chain and its books.  A genesis of
\* null, which comes back as no genesis, commits to the same hash.
THEOREM RoundTripsAlways == Spec => []RoundTrips
<1>1. TimeInv => RoundTrips
  <2> SUFFICES ASSUME TimeInv,
                      ~ \E e \in ToSet(ledger.entries) : e.expected = Some(Null)
               PROVE  LET restored == JsonLedger(ledger) IN
                        /\ ChainHash(restored) = ChainHash(ledger)
                        /\ ChainIntact(restored)
                        /\ Balanced(restored) <=> Balanced(ledger)
                        /\ restored.state = ledger.state
    BY DEF RoundTrips
  <2> DEFINE m == JsonLedger(ledger)
             es == ledger.entries
             fs == [i \in 1..Len(es) |-> JsonEntry(es[i])]
  <2>1. LedgerTypeOK(ledger) /\ HonestBooks(ledger) /\ IsSeq(es)
    BY Shapes DEF TimeInv
  <2>2. fs = es
    <3>1. \A i \in 1..Len(es) : es[i] \in ToSet(es)
      BY <2>1 DEF ToSet, IsSeq
    <3>2. ASSUME NEW i \in 1..Len(es) PROVE JsonEntry(es[i]) = es[i]
      BY <3>1, JsonKeepsEntry DEF TimeInv
    <3>3. es = [i \in 1..Len(es) |-> es[i]]
      BY <2>1 DEF IsSeq
    <3> HIDE DEF es
    <3> QED BY <3>2, <3>3
  <2>3. m = [ledger EXCEPT !.genesis = JsonOption(ledger.genesis), !.entries = fs]
    BY DEF JsonLedger
  <2> HIDE DEF m, fs
  <2>4. /\ m.entries = es /\ m.cell = ledger.cell /\ m.genesisTs = ledger.genesisTs
        /\ m.genesis = JsonOption(ledger.genesis) /\ m.state = ledger.state
        /\ m.pending = ledger.pending
    BY <2>1, <2>2, <2>3 DEF LedgerTypeOK
  <2>5. UnwrapOr(m.genesis, Null) = UnwrapOr(ledger.genesis, Null)
    <3>1. Some(Null) # None /\ Some(Null)[1] = Null
      BY DEF Some, None
    <3> QED BY <2>4, <3>1 DEF JsonOption, UnwrapOr
  <2>6. /\ ChainHash(m) = ChainHash(ledger)
        /\ ChainIntact(m) <=> ChainIntact(ledger)
        /\ ContinuityIntact(m) <=> ContinuityIntact(ledger)
    BY <2>4, <2>5, SameAudits
  <2>7. ChainIntact(ledger) /\ ContinuityIntact(ledger)
    BY <2>1 DEF HonestBooks
  <2> QED BY <2>4, <2>6, <2>7 DEF Balanced, m
<1> QED BY <1>1, TimeAlways, PTL

\* Equal seals are over equal bodies.
LEMMA SealsTell ==
  ASSUME NEW a, NEW b, Seal(a) = Seal(b)
  PROVE  /\ a.seq = b.seq /\ a.ts = b.ts /\ a.input = b.input
         /\ a.after = b.after /\ a.expected = b.expected
<1>1. CanonicalJson(a) = CanonicalJson(b)
  BY ShaInjective DEF Seal
<1> DEFINE c(e) == << e.seq, e.ts, e.input, e.outTs, e.before, e.after,
                      e.expected, e.prev >>
<1>2. c(a) = c(b)
  BY <1>1 DEF CanonicalJson
<1>3. c(a)[1] = c(b)[1] /\ c(a)[2] = c(b)[2] /\ c(a)[3] = c(b)[3]
  BY <1>2
<1>4. c(a)[6] = c(b)[6] /\ c(a)[7] = c(b)[7]
  BY <1>2
<1> QED BY <1>3, <1>4

\* No seal is a genesis commit.
LEMMA SealIsNotGenesis ==
  ASSUME NEW e, NEW l
  PROVE  Seal(e) # GenesisCommit(l)
<1> SUFFICES ASSUME Seal(e) = GenesisCommit(l) PROVE FALSE
  OBVIOUS
<1>1. CanonicalJson(e)
        = << "quilt-cell-ledger/1", l.cell, UnwrapOr(l.genesis, Null), l.genesisTs >>
  BY ShaInjective DEF Seal, GenesisCommit
<1>2. Len(<< e.seq, e.ts, e.input, e.outTs, e.before, e.after, e.expected, e.prev >>) = 8
  OBVIOUS
<1>3. Len(<< "quilt-cell-ledger/1", l.cell, UnwrapOr(l.genesis, Null), l.genesisTs >>) = 4
  OBVIOUS
<1> QED BY <1>1, <1>2, <1>3 DEF CanonicalJson

\* An altered entry keeps its hash, which no longer fits it; sealed anew it
\* has another.
LEMMA AlteredFacts ==
  ASSUME NEW x, EntryShape(x), x.ts \in Nat, NEW e \in Altered(x)
  PROVE  /\ e.hash = x.hash
         /\ Seal(e) # Seal(x)
         /\ Resealed(e).hash = Seal(e)
<1> DEFINE rec(ts, input, after, expected) ==
             [seq |-> x.seq, ts |-> ts, input |-> input, outTs |-> x.outTs,
              before |-> x.before, after |-> after, expected |-> expected,
              prev |-> x.prev, hash |-> x.hash]
<1>1. x = rec(x.ts, x.input, x.after, x.expected)
  BY DEF EntryShape
<1>2. CASE \E v \in Value \ {x.after} : e = [x EXCEPT !.after = v]
  <2>1. PICK v \in Value \ {x.after} : e = [x EXCEPT !.after = v]
    BY <1>2
  <2>2. e.after # x.after /\ e.hash = x.hash /\ Resealed(e).hash = Seal(e)
    BY <1>1, <2>1 DEF Resealed
  <2> QED BY <2>2, SealsTell
<1>3. CASE \E v \in Value \ {x.input} : e = [x EXCEPT !.input = v]
  <2>1. PICK v \in Value \ {x.input} : e = [x EXCEPT !.input = v]
    BY <1>3
  <2>2. e.input # x.input /\ e.hash = x.hash /\ Resealed(e).hash = Seal(e)
    BY <1>1, <2>1 DEF Resealed
  <2> QED BY <2>2, SealsTell
<1>4. CASE \E o \in ({None} \cup {Some(v) : v \in Value}) \ {x.expected} :
             e = [x EXCEPT !.expected = o]
  <2>1. PICK o : o # x.expected /\ e = [x EXCEPT !.expected = o]
    BY <1>4
  <2>2. e.expected # x.expected /\ e.hash = x.hash
        /\ Resealed(e).hash = Seal(e)
    BY <1>1, <2>1 DEF Resealed
  <2> QED BY <2>2, SealsTell
<1>5. CASE e = [x EXCEPT !.ts = @ + 1]
  <2>1. e.ts = x.ts + 1 /\ e.hash = x.hash /\ Resealed(e).hash = Seal(e)
    BY <1>1, <1>5 DEF Resealed
  <2>2. e.ts # x.ts
    BY <2>1
  <2> QED BY <2>1, <2>2, SealsTell
<1> QED BY <1>2, <1>3, <1>4, <1>5 DEF Altered

\* The ways of tampering, one by one.
LEMMA TamperingsAre ==
  ASSUME NEW es, NEW fs \in Tamperings(es)
  PROVE  \/ \E i \in 1..Len(es) : \E e \in Altered(es[i]) : fs = [es EXCEPT ![i] = e]
         \/ \E i \in 1..(Len(es) - 1) : \E e \in Altered(es[i]) :
              fs = [es EXCEPT ![i] = Resealed(e)]
         \/ \E i \in 1..(Len(es) - 1) : fs = RemoveAt(es, i)
         \/ \E i \in 1..(Len(es) - 1) : fs = [es EXCEPT ![i] = es[i+1], ![i+1] = es[i]]
<1> DEFINE inner == 1..(Len(es) - 1)
           A == UNION {{[es EXCEPT ![i] = e] : e \in Altered(es[i])} : i \in 1..Len(es)}
           B == UNION {{[es EXCEPT ![i] = Resealed(e)] : e \in Altered(es[i])} : i \in inner}
           C == {RemoveAt(es, i) : i \in inner}
           D == {[es EXCEPT ![i] = es[i+1], ![i+1] = es[i]] : i \in inner}
<1>1. fs \in A \/ fs \in B \/ fs \in C \/ fs \in D
  <2>1. Tamperings(es) = A \cup B \cup C \cup D
    BY DEF Tamperings
  <2> HIDE DEF A, B, C, D
  <2> QED BY <2>1
<1>2. fs \in A => \E i \in 1..Len(es) : \E e \in Altered(es[i]) : fs = [es EXCEPT ![i] = e]
  OBVIOUS
<1>3. fs \in B => \E i \in inner : \E e \in Altered(es[i]) :
                     fs = [es EXCEPT ![i] = Resealed(e)]
  OBVIOUS
<1>4. fs \in C => \E i \in inner : fs = RemoveAt(es, i)
  OBVIOUS
<1>5. fs \in D => \E i \in inner : fs = [es EXCEPT ![i] = es[i+1], ![i+1] = es[i]]
  OBVIOUS
<1> HIDE DEF A, B, C, D
<1> QED BY <1>1, <1>2, <1>3, <1>4, <1>5

\* A chain with entries put in place of its own.
LEMMA WithEntries ==
  ASSUME NEW l, LedgerTypeOK(l), NEW fs
  PROVE  LET m == [l EXCEPT !.entries = fs] IN
           m.entries = fs /\ GenesisCommit(m) = GenesisCommit(l)
<1> DEFINE m == [l EXCEPT !.entries = fs]
<1>1. m.entries = fs /\ m.cell = l.cell /\ m.genesis = l.genesis
      /\ m.genesisTs = l.genesisTs
  BY DEF LedgerTypeOK
<1> QED BY <1>1 DEF GenesisCommit

\* What an honest chain says of its own hashes.
LEMMA OwnHashes ==
  ASSUME NEW l, HonestBooks(l), NEW i \in 1..Len(l.entries)
  PROVE  /\ l.entries[i].hash = Seal(l.entries[i])
         /\ l.entries[i].prev = ExpectedPrev(l, i)
         /\ l.entries[i].seq = i
BY DEF HonestBooks, ChainIntact, BreaksAt

\* An entry that comes one place too early names the wrong predecessor.
LEMMA EarlyEntryBreaks ==
  ASSUME NEW l, HonestBooks(l), Len(l.entries) \in Nat,
         NEW i \in 1..(Len(l.entries) - 1), NEW m,
         GenesisCommit(m) = GenesisCommit(l),
         i \in 1..Len(m.entries), m.entries[i] = l.entries[i + 1],
         i > 1 => m.entries[i - 1] = l.entries[i - 1]
  PROVE  ~ ChainIntact(m)
<1> DEFINE es == l.entries
<1>1. i \in 1..Len(es) /\ i + 1 \in 1..Len(es) /\ (i + 1) - 1 = i /\ i + 1 # 1
  OBVIOUS
<1>2. /\ es[i + 1].prev = es[i].hash /\ es[i].hash = Seal(es[i]) /\ es[i].seq = i
  <2>1. es[i + 1].prev = ExpectedPrev(l, i + 1)
    BY <1>1, OwnHashes
  <2>2. ExpectedPrev(l, i + 1) = es[i].hash
    BY <1>1 DEF ExpectedPrev
  <2> QED BY <1>1, <2>1, <2>2, OwnHashes
<1>3. CASE i = 1
  <2>1. ExpectedPrev(m, i) = GenesisCommit(l)
    BY <1>3 DEF ExpectedPrev
  <2>2. m.entries[i].prev # ExpectedPrev(m, i)
    BY <1>2, <2>1, SealIsNotGenesis
  <2> QED BY <2>2 DEF ChainIntact, BreaksAt
<1>4. CASE i # 1
  <2>1. i > 1 /\ i - 1 \in 1..Len(es) /\ i - 1 # i
    BY <1>4
  <2>2. ExpectedPrev(m, i) = es[i - 1].hash
    BY <1>4, <2>1 DEF ExpectedPrev
  <2>3. es[i - 1].hash = Seal(es[i - 1]) /\ es[i - 1].seq = i - 1
    BY <2>1, OwnHashes
  <2>4. Seal(es[i - 1]) # Seal(es[i])
    BY <1>2, <2>1, <2>3, SealsTell
  <2>5. m.entries[i].prev # ExpectedPrev(m, i)
    BY <1>2, <2>2, <2>3, <2>4
  <2> QED BY <2>5 DEF ChainIntact, BreaksAt
<1> QED BY <1>3, <1>4

\* An entry put in place of another.
LEMMA Replaced ==
  ASSUME NEW es, IsSeq(es), NEW i \in 1..Len(es), NEW e
  PROVE  /\ Len(es) \in Nat /\ Len([es EXCEPT ![i] = e]) = Len(es)
         /\ [es EXCEPT ![i] = e][i] = e
         /\ \A j \in 1..Len(es) : j # i => [es EXCEPT ![i] = e][j] = es[j]
<1> DEFINE T == ToSet(es) \cup {e}
<1>1. es \in Seq(T) /\ e \in T
  <2>1. ToSet(es) \subseteq T /\ es \in Seq(ToSet(es))
    BY DEF IsSeq
  <2> QED BY <2>1
<1> HIDE DEF T
<1> QED BY <1>1

\* verify_chain reports a chain tampered with in any of these ways.
LEMMA TamperingBreaks ==
  ASSUME NEW l, LedgerTypeOK(l), HonestBooks(l),
         \A i \in 1..Len(l.entries) : EntryShape(l.entries[i]),
         NEW fs \in Tamperings(l.entries)
  PROVE  ~ ChainIntact([l EXCEPT !.entries = fs])
<1> DEFINE es == l.entries
           m == [l EXCEPT !.entries = fs]
<1>1. IsSeq(es) /\ Len(es) \in Nat /\ \A i \in 1..Len(es) : es[i].ts \in Nat
  BY AppendFacts DEF LedgerTypeOK, IsSeq
<1>2. m.entries = fs /\ GenesisCommit(m) = GenesisCommit(l)
  BY WithEntries
<1> HIDE DEF m
<1>3. ASSUME NEW i \in 1..Len(es), NEW e \in Altered(es[i]), fs = [es EXCEPT ![i] = e]
      PROVE  ~ ChainIntact(m)
  <2>1. EntryShape(es[i]) /\ es[i].ts \in Nat /\ es[i].hash = Seal(es[i])
    BY <1>1, OwnHashes
  <2>2. e.hash # Seal(e)
    BY <2>1, AlteredFacts
  <2>3. Len(fs) = Len(es) /\ fs[i] = e
    BY <1>1, <1>3, Replaced
  <2>4. BreaksAt(m, i) /\ i \in 1..Len(m.entries)
    BY <1>2, <2>2, <2>3 DEF BreaksAt
  <2> QED BY <2>4 DEF ChainIntact
<1>4. ASSUME NEW i \in 1..(Len(es) - 1), NEW e \in Altered(es[i]),
             fs = [es EXCEPT ![i] = Resealed(e)]
      PROVE  ~ ChainIntact(m)
  <2> DEFINE r == Resealed(e)
  <2>1. i \in 1..Len(es) /\ i + 1 \in 1..Len(es) /\ (i + 1) - 1 = i /\ i + 1 # 1 /\ i + 1 # i
    BY <1>1
  <2>2. EntryShape(es[i]) /\ es[i].ts \in Nat /\ es[i].hash = Seal(es[i])
        /\ es[i + 1].prev = ExpectedPrev(l, i + 1)
    BY <1>1, <2>1, OwnHashes
  <2>3. r.hash # es[i].hash
    BY <2>2, AlteredFacts
  <2> HIDE DEF r
  <2>4. fs = [es EXCEPT ![i] = r]
    BY <1>4 DEF r
  <2>5. Len(fs) = Len(es) /\ fs[i] = r /\ fs[i + 1] = es[i + 1]
    BY <1>1, <2>1, <2>4, Replaced
  <2>6. ExpectedPrev(l, i + 1) = es[i].hash /\ ExpectedPrev(m, i + 1) = r.hash
    BY <1>2, <2>1, <2>5 DEF ExpectedPrev
  <2>7. BreaksAt(m, i + 1) /\ i + 1 \in 1..Len(m.entries)
    BY <1>2, <2>1, <2>2, <2>3, <2>5, <2>6 DEF BreaksAt
  <2> QED BY <2>7 DEF ChainIntact
<1>5. ASSUME NEW i \in 1..(Len(es) - 1), fs = RemoveAt(es, i)
      PROVE  ~ ChainIntact(m)
  <2>1. i \in 1..Len(es) /\ es \in Seq(ToSet(es))
    BY <1>1 DEF IsSeq
  <2>2. /\ Len(fs) = Len(es) - 1
        /\ \A j \in 1..(i - 1) : fs[j] = es[j]
        /\ \A j \in i..(Len(es) - 1) : fs[j] = es[j + 1]
    BY <1>5, <2>1, RemoveAtFacts
  <2>3. i \in 1..Len(fs) /\ fs[i] = es[i + 1] /\ (i > 1 => fs[i - 1] = es[i - 1])
    <3>1. i \in i..(Len(es) - 1) /\ (i > 1 => i - 1 \in 1..(i - 1))
      BY <1>1
    <3>2. i \in 1..Len(fs)
      BY <1>1, <2>2
    <3> QED BY <2>2, <3>1, <3>2
  <2> QED BY <1>1, <1>2, <2>3, EarlyEntryBreaks
<1>6. ASSUME NEW i \in 1..(Len(es) - 1),
             fs = [es EXCEPT ![i] = es[i+1], ![i+1] = es[i]]
      PROVE  ~ ChainIntact(m)
  <2>1. i \in 1..Len(es) /\ i + 1 \in 1..Len(es) /\ i + 1 # i
    BY <1>1
  <2> DEFINE gs == [es EXCEPT ![i] = es[i+1]]
             x == es[i]
  <2>2. Len(gs) = Len(es) /\ gs[i] = es[i + 1] /\ IsSeq(gs)
        /\ \A j \in 1..Len(es) : j # i => gs[j] = es[j]
    <3> DEFINE y == es[i + 1]
               hs == [es EXCEPT ![i] = y]
    <3>1. y \in ToSet(es)
      BY <1>1, <2>1 DEF IsSeq, ToSet
    <3> HIDE DEF y
    <3>2. hs \in Seq(ToSet(es))
      BY <1>1, <2>1, <3>1 DEF IsSeq
    <3>3. IsSeq(hs)
      <4> HIDE DEF hs
      <4> QED BY <3>2, SeqOfOwn DEF IsSeq
    <3>4. /\ Len(hs) = Len(es) /\ hs[i] = y
          /\ \A j \in 1..Len(es) : j # i => hs[j] = es[j]
      BY <1>1, <2>1, Replaced
    <3> HIDE DEF hs
    <3> QED BY <3>3, <3>4 DEF y, hs
  <2>3. fs = [gs EXCEPT ![i+1] = x]
    BY <1>6
  <2> HIDE DEF gs, x
  <2>4. Len(fs) = Len(gs) /\ \A j \in 1..Len(gs) : j # i + 1 => fs[j] = gs[j]
    BY <2>1, <2>2, <2>3, Replaced
  <2>5. i \in 1..Len(fs) /\ fs[i] = es[i + 1] /\ (i > 1 => fs[i - 1] = es[i - 1])
    BY <1>1, <2>1, <2>2, <2>4
  <2> QED BY <1>1, <1>2, <2>5, EarlyEntryBreaks
<1> QED BY <1>3, <1>4, <1>5, <1>6, TamperingsAre DEF m

\* A chain does not verify under another genesis.
LEMMA GenesisIsCommitted ==
  ASSUME NEW l, LedgerTypeOK(l), HonestBooks(l), l.entries # << >>,
         NEW v, v # UnwrapOr(l.genesis, Null)
  PROVE  ~ ChainIntact([l EXCEPT !.genesis = Some(v)])
<1> DEFINE m == [l EXCEPT !.genesis = Some(v)]
<1>1. m.entries = l.entries /\ m.cell = l.cell /\ m.genesis = Some(v)
      /\ m.genesisTs = l.genesisTs
  BY DEF LedgerTypeOK
<1>2. UnwrapOr(Some(v), Null) = v
  BY DEF UnwrapOr, Some, None
<1> HIDE DEF m
<1>3. GenesisCommit(m) # GenesisCommit(l)
  <2> SUFFICES ASSUME GenesisCommit(m) = GenesisCommit(l) PROVE FALSE
    OBVIOUS
  <2> DEFINE c(g) == << "quilt-cell-ledger/1", l.cell, g, l.genesisTs >>
  <2>1. c(v) = c(UnwrapOr(l.genesis, Null))
    BY <1>1, <1>2, ShaInjective DEF GenesisCommit
  <2>2. c(v)[3] = c(UnwrapOr(l.genesis, Null))[3]
    BY <2>1
  <2> QED BY <2>2
<1>4. 1 \in 1..Len(l.entries)
  <2>1. Len(l.entries) \in Nat /\ Len(l.entries) # 0
    BY AppendFacts DEF LedgerTypeOK, IsSeq
  <2> QED BY <2>1
<1>5. l.entries[1].prev = GenesisCommit(l)
  BY <1>4, OwnHashes DEF ExpectedPrev
<1>6. BreaksAt(m, 1) /\ 1 \in 1..Len(m.entries)
  BY <1>1, <1>3, <1>4, <1>5 DEF BreaksAt, ExpectedPrev
<1> QED BY <1>6 DEF ChainIntact, m

\* Whatever was recorded, and in whatever order, verify_chain reports every
\* edit, every resealed edit of an inner entry, every removal of an inner
\* entry, every swap of neighbours and every other genesis: the last two
\* because an entry's seal holds its sequence number and is no genesis commit.
THEOREM TamperEvidentAlways == Spec => []TamperEvident
<1>1. TimeInv => TamperEvident
  <2> SUFFICES ASSUME TimeInv PROVE TamperEvident
    OBVIOUS
  <2>1. /\ LedgerTypeOK(ledger) /\ HonestBooks(ledger)
        /\ \A i \in 1..Len(ledger.entries) : EntryShape(ledger.entries[i])
    BY Shapes DEF TimeInv
  <2>2. ASSUME NEW fs \in Tamperings(ledger.entries)
        PROVE  ~ ChainIntact([ledger EXCEPT !.entries = fs])
    BY <2>1, TamperingBreaks
  <2>3. ASSUME ledger.entries # << >>, NEW v \in Value \ {UnwrapOr(ledger.genesis, Null)}
        PROVE  ~ ChainIntact([ledger EXCEPT !.genesis = Some(v)])
    BY <2>1, <2>3, GenesisIsCommitted
  <2> QED BY <2>2, <2>3 DEF TamperEvident
<1> QED BY <1>1, TimeAlways, PTL

-----------------------------------------------------------------------------
(***************************************************************************)
(* The ledger that a mirror rebuilds.                                      *)
(***************************************************************************)

\* An entry with one field altered that still carries the seal it was given
\* has not been altered.
LEMMA AlteredIsSeen ==
  ASSUME NEW e, EntryShape(e), e.hash = Seal(e), NEW v,
         NEW a, a = [e EXCEPT !.after = v] \/ a = [e EXCEPT !.expected = v],
         a.hash = Seal(a)
  PROVE  a = e
<1>1. a.hash = e.hash
  BY DEF EntryShape
<1>2. CanonicalJson(a) = CanonicalJson(e)
  BY <1>1, ShaInjective DEF Seal
<1>3. CanonicalJson(a)[6] = CanonicalJson(e)[6] /\ CanonicalJson(a)[7] = CanonicalJson(e)[7]
  BY <1>2
<1>4. a.after = e.after /\ a.expected = e.expected
  BY <1>3 DEF CanonicalJson
<1>5. CASE a = [e EXCEPT !.after = v]
  <2>1. v = e.after
    BY <1>4, <1>5 DEF EntryShape
  <2> QED BY <1>5, <2>1 DEF EntryShape
<1>6. CASE a = [e EXCEPT !.expected = v]
  <2>1. v = e.expected
    BY <1>4, <1>6 DEF EntryShape
  <2> QED BY <1>6, <2>1 DEF EntryShape
<1> QED BY <1>5, <1>6

-----------------------------------------------------------------------------
\* restore_entry keeps honest books honest: its gates are what append_entry
\* makes true by construction.
LEMMA RestoreHonest ==
  ASSUME NEW l, HonestBooks(l), IsSeq(l.entries), NEW e, Restorable(l, e),
         NEW m, m.entries = Append(l.entries, e), m.nextSeq = l.nextSeq + 1,
         m.state = e.after, m.cell = l.cell, m.genesis = l.genesis,
         m.genesisTs = l.genesisTs
  PROVE  HonestBooks(m)
<1> DEFINE n == Len(l.entries)
<1>1. /\ Len(m.entries) = n + 1 /\ n \in Nat
      /\ m.entries[n + 1] = e
      /\ \A i \in 1..n : m.entries[i] = l.entries[i]
      /\ (l.entries = << >>) <=> (n = 0)
  BY AppendFacts DEF IsSeq
<1>2. GenesisCommit(m) = GenesisCommit(l)
  BY DEF GenesisCommit
<1>3. /\ ExpectedPrev(m, n + 1) = ChainHash(l)
      /\ \A i \in 1..n : ExpectedPrev(m, i) = ExpectedPrev(l, i)
  BY <1>1, <1>2 DEF ExpectedPrev, ChainHash, Last
<1>4. /\ ExpectedBefore(m, n + 1) = l.state
      /\ \A i \in 1..n : ExpectedBefore(m, i) = ExpectedBefore(l, i)
      /\ ExpectedBefore(m, n + 2) = e.after
  <2>1. l.state = ExpectedBefore(l, n + 1)
    BY DEF HonestBooks
  <2> QED BY <2>1, <1>1 DEF ExpectedBefore
<1>5. ChainIntact(m)
  <2> SUFFICES ASSUME NEW i \in 1..(n + 1) PROVE ~ BreaksAt(m, i)
    BY <1>1 DEF ChainIntact
  <2>1. CASE i = n + 1
    BY <2>1, <1>1, <1>3 DEF BreaksAt, Restorable
  <2>2. CASE i \in 1..n
    BY <2>2, <1>1, <1>3 DEF HonestBooks, ChainIntact, BreaksAt
  <2> QED BY <2>1, <2>2, <1>1
<1>6. ContinuityIntact(m)
  <2> SUFFICES ASSUME NEW i \in 1..(n + 1)
               PROVE  m.entries[i].before = ExpectedBefore(m, i)
    BY <1>1 DEF ContinuityIntact
  <2>1. CASE i = n + 1
    BY <2>1, <1>1, <1>4 DEF Restorable
  <2>2. CASE i \in 1..n
    BY <2>2, <1>1, <1>4 DEF HonestBooks, ContinuityIntact
  <2> QED BY <2>1, <2>2, <1>1
<1>7. /\ \A i \in 1..Len(m.entries) : m.entries[i].seq = i
      /\ m.nextSeq = Len(m.entries) + 1
      /\ m.state = ExpectedBefore(m, Len(m.entries) + 1)
  <2>1. /\ l.nextSeq = n + 1
        /\ \A i \in 1..n : l.entries[i].seq = i
    BY DEF HonestBooks
  <2> QED BY <2>1, <1>1, <1>4 DEF Restorable
<1> QED BY <1>5, <1>6, <1>7 DEF HonestBooks

-----------------------------------------------------------------------------
\* What the live chain must be besides honest: made of entries, under the
\* genesis time of ledgers that have a genesis.
LiveOK ==
  /\ IInv
  /\ \A i \in 1..Len(ledger.entries) : EntryShape(ledger.entries[i])
  /\ ledger.genesis # None => ledger.genesisTs = Some(0)

\* The mirror is a fresh ledger of the cell with honest books of its own, and
\* agrees with the live chain as far as it goes; it goes nowhere when that has
\* a genesis.
MirrorOK ==
  /\ mirror = [cell |-> Cell, genesis |-> None, genesisTs |-> None,
               state |-> mirror.state, nextSeq |-> mirror.nextSeq, nextTicket |-> 1,
               entries |-> mirror.entries, pending |-> << >>]
  /\ IsSeq(mirror.entries)
  /\ HonestBooks(mirror)
  /\ Len(mirror.entries) <= Len(ledger.entries)
  /\ \A i \in 1..Len(mirror.entries) : mirror.entries[i] = ledger.entries[i]
  /\ ledger.genesis # None => mirror.entries = << >>

MInv == LiveOK /\ MirrorOK

LEMMA MInvInit == MirrorInit => MInv
<1> SUFFICES ASSUME MirrorInit PROVE MInv
  OBVIOUS
<1>1. IInv /\ ledger.entries = << >> /\ Len(ledger.entries) = 0
  <2>1. ledger.entries = << >>
    BY DEF MirrorInit, Init, NewLedger, WithGenesis
  <2>2. IInv
    BY InitIInv DEF MirrorInit
  <2> QED BY <2>1, <2>2
<1>2. ledger.genesis # None => ledger.genesisTs = Some(0)
  BY DEF MirrorInit, Init, NewLedger, WithGenesis
<1>3. /\ mirror = [cell |-> Cell, genesis |-> None, genesisTs |-> None,
                   state |-> Null, nextSeq |-> 1, nextTicket |-> 1,
                   entries |-> << >>, pending |-> << >>]
  BY DEF MirrorInit, NewLedger
<1>4. mirror.entries = << >> /\ Len(mirror.entries) = 0 /\ mirror.state = Null
      /\ mirror.genesis = None /\ mirror.nextSeq = 1
  BY <1>3
<1>5. HonestBooks(mirror)
  BY <1>4 DEF HonestBooks, ChainIntact, ContinuityIntact, ExpectedBefore, UnwrapOr
<1>6. IsSeq(mirror.entries)
  BY <1>4 DEF IsSeq
<1> QED BY <1>1, <1>2, <1>3, <1>4, <1>5, <1>6 DEF MInv, LiveOK, MirrorOK

\* A step of the live ledger's caller leaves its genesis alone and its chain
\* as it was, or one entry longer.
LEMMA ChainGrows ==
  ASSUME IInv, [Next]_vars
  PROVE  /\ ledger'.genesis = ledger.genesis /\ ledger'.genesisTs = ledger.genesisTs
         /\ \/ ledger'.entries = ledger.entries
            \/ \E e : EntryShape(e) /\ ledger'.entries = Append(ledger.entries, e)
<1>1. LedgerTypeOK(ledger) /\ HonestBooks(ledger) /\ clock \in Nat
  BY DEF IInv, TypeOK, BooksHonest
<1>2. ASSUME NEW i \in Input, NEW o \in Output, NEW f \in Forecast, Record(i, o, f)
      PROVE  /\ ledger'.genesis = ledger.genesis /\ ledger'.genesisTs = ledger.genesisTs
             /\ \E e : EntryShape(e) /\ ledger'.entries = Append(ledger.entries, e)
  <2>1. ledger' = AppendEntry(ledger, i, clock, o, clock, f)
    BY <1>2 DEF Record, RecordWith
  <2>2. i \in Value /\ o \in Value
    BY LedgerAssumption
  <2> QED BY <1>1, <2>1, <2>2, AppendEntryShape, NextEntryShape
<1>3. ASSUME NEW i \in Input, OpenInput(i)
      PROVE  /\ ledger'.genesis = ledger.genesis /\ ledger'.genesisTs = ledger.genesisTs
             /\ ledger'.entries = ledger.entries
  BY <1>1, <1>3 DEF OpenInput, OpenInputWith, LedgerTypeOK
<1>4. ASSUME NEW k \in 1..MaxTickets, NEW o \in Output, NEW f \in Forecast,
             SettleOutput(k, o, f)
      PROVE  /\ ledger'.genesis = ledger.genesis /\ ledger'.genesisTs = ledger.genesisTs
             /\ \E e : EntryShape(e) /\ ledger'.entries = Append(ledger.entries, e)
  <2> DEFINE p == ledger.pending[PositionOf(ledger, k)]
             t == WithoutPending(ledger, k)
  <2>1. ledger' = AppendEntry(t, p.input, p.ts, o, clock, f)
    BY <1>4 DEF SettleOutput, SettleOutputWith
  <2>2. k \in Nat /\ HasTicket(ledger, k) /\ o \in Value
    BY <1>4, LedgerAssumption DEF SettleOutput
  <2>3. p \in PendingInput /\ LedgerTypeOK(t) /\ t.entries = ledger.entries
    BY <1>1, <2>2, TakePending
  <2>4. t.genesis = ledger.genesis /\ t.genesisTs = ledger.genesisTs
    BY <1>1 DEF WithoutPending, LedgerTypeOK
  <2> HIDE DEF p, t
  <2>5. p.input \in Value /\ p.ts \in Nat
    BY <2>3 DEF PendingInput
  <2> DEFINE e == NextEntry(t, p.input, p.ts, o, clock, f)
  <2>6. EntryShape(e)
    BY NextEntryShape
  <2> HIDE DEF e
  <2>7. /\ ledger'.entries = Append(t.entries, e)
        /\ ledger'.genesis = t.genesis /\ ledger'.genesisTs = t.genesisTs
    BY <1>1, <2>1, <2>2, <2>3, <2>5, AppendEntryShape DEF e
  <2> QED BY <2>3, <2>4, <2>6, <2>7
<1>5. CASE Tick \/ UNCHANGED vars
  BY <1>5 DEF Tick, vars
<1> QED BY <1>2, <1>3, <1>4, <1>5 DEF Next

LEMMA CallerKeepsMirror ==
  ASSUME MInv, [Next]_vars, UNCHANGED mirror
  PROVE  MInv'
<1>1. /\ IInv' /\ IsSeq(ledger.entries)
      /\ ledger'.genesis = ledger.genesis /\ ledger'.genesisTs = ledger.genesisTs
  BY StepKeepsBooks, ChainGrows DEF MInv, LiveOK, IInv, TypeOK, LedgerTypeOK
<1>2. mirror' = mirror
  OBVIOUS
<1>3. CASE ledger'.entries = ledger.entries
  BY <1>1, <1>2, <1>3 DEF MInv, LiveOK, MirrorOK
<1>4. ASSUME NEW e, EntryShape(e), ledger'.entries = Append(ledger.entries, e)
      PROVE  MInv'
  <2>1. /\ Len(ledger'.entries) = Len(ledger.entries) + 1
        /\ Len(ledger.entries) \in Nat
        /\ ledger'.entries[Len(ledger.entries) + 1] = e
        /\ \A i \in 1..Len(ledger.entries) : ledger'.entries[i] = ledger.entries[i]
    BY <1>1, <1>4, AppendFacts DEF IsSeq
  <2>2. \A i \in 1..Len(ledger'.entries) : EntryShape(ledger'.entries[i])
    BY <1>4, <2>1 DEF MInv, LiveOK
  <2>3. Len(mirror.entries) \in Nat
    BY AppendFacts DEF IsSeq, MInv, MirrorOK
  <2> QED BY <1>1, <1>2, <2>1, <2>2, <2>3 DEF MInv, LiveOK, MirrorOK
<1> QED BY <1>3, <1>4, ChainGrows DEF MInv, LiveOK

\* Of all that may be delivered, the gates let in the next entry of the live
\* chain only, and no entry of a chain with a genesis.
LEMMA OnlyTheNextPasses ==
  ASSUME MInv, NEW e \in Deliverable, Restorable(mirror, e)
  PROVE  /\ Len(mirror.entries) < Len(ledger.entries)
         /\ e = ledger.entries[Len(mirror.entries) + 1]
         /\ ledger.genesis = None
<1> DEFINE n == Len(mirror.entries)
           es == ledger.entries
<1>1. /\ n \in Nat /\ Len(es) \in Nat /\ n <= Len(es)
      /\ mirror.nextSeq = n + 1
      /\ (mirror.entries = << >>) <=> (n = 0)
      /\ (es = << >>) <=> (Len(es) = 0)
  BY AppendFacts DEF IsSeq, MInv, MirrorOK, LiveOK, IInv, TypeOK, LedgerTypeOK, HonestBooks
<1>2. \A i \in 1..Len(es) : /\ EntryShape(es[i]) /\ es[i].seq = i
                            /\ es[i].hash = Seal(es[i])
                            /\ es[i].prev = ExpectedPrev(ledger, i)
  BY DEF MInv, LiveOK, IInv, BooksHonest, HonestBooks, ChainIntact, BreaksAt
<1>3. GenesisCommit(mirror) = Sha256(<< "quilt-cell-ledger/1", Cell, Null, None >>)
  <2>1. mirror.cell = Cell /\ mirror.genesis = None /\ mirror.genesisTs = None
    BY DEF MInv, MirrorOK
  <2> QED BY <2>1 DEF GenesisCommit, UnwrapOr
<1>4. e.seq = n + 1 /\ e.prev = ChainHash(mirror) /\ e.hash = Seal(e)
  BY <1>1 DEF Restorable
<1>5. ASSUME NEW i \in 1..Len(es), e = es[i]
      PROVE  n < Len(es) /\ e = es[n + 1]
  BY <1>1, <1>2, <1>4, <1>5
<1>6. ASSUME es # << >>, e = ForeignFirst
      PROVE  FALSE
  <2>1. /\ e.seq = 1
        /\ e.prev = ChainHash(NewLedger(OtherCell))
    BY <1>6 DEF ForeignFirst, NextEntry, NewLedger
  <2>2. e.prev = Sha256(<< "quilt-cell-ledger/1", OtherCell, Null, None >>)
    BY <2>1 DEF NewLedger, ChainHash, GenesisCommit, UnwrapOr
  <2>3. ChainHash(mirror) = GenesisCommit(mirror)
    BY <1>1, <1>4, <2>1 DEF ChainHash
  <2>4. << "quilt-cell-ledger/1", OtherCell, Null, None >>
          = << "quilt-cell-ledger/1", Cell, Null, None >>
    BY <1>3, <1>4, <2>2, <2>3, ShaInjective
  <2> QED BY <2>4, MirrorAssumption
<1>7. \E i \in 1..Len(es) : e = es[i]
  <2>1. CASE e \in ToSet(es)
    BY <2>1 DEF ToSet
  <2>2. ASSUME NEW x \in ToSet(es), NEW v,
               e = [x EXCEPT !.after = v] \/ e = [x EXCEPT !.expected = v]
        PROVE  \E i \in 1..Len(es) : e = es[i]
    <3>1. PICK i \in 1..Len(es) : x = es[i]
      BY DEF ToSet
    <3>2. EntryShape(x) /\ x.hash = Seal(x) /\ e.hash = Seal(e)
      BY <1>2, <1>4, <3>1
    <3>3. e = x
      BY <2>2, <3>2, AlteredIsSeen, Zenon
    <3> QED BY <3>1, <3>3
  <2>3. \/ e \in ToSet(es)
        \/ \E x \in ToSet(es), v \in Value : e = [x EXCEPT !.after = v]
        \/ \E x \in ToSet(es), o \in Forecast : e = [x EXCEPT !.expected = o]
        \/ es # << >> /\ e = ForeignFirst
    BY DEF Deliverable
  <2> QED BY <1>6, <2>1, <2>2, <2>3
<1>8. n < Len(es) /\ e = es[n + 1]
  BY <1>5, <1>7
<1>9. ASSUME ledger.genesis # None
      PROVE  FALSE
  <2>1. n = 0 /\ ChainHash(mirror) = GenesisCommit(mirror)
    BY <1>1, <1>9 DEF MInv, MirrorOK, ChainHash
  <2>2. e.prev = GenesisCommit(ledger)
    BY <1>1, <1>2, <1>8, <2>1 DEF ExpectedPrev
  <2>3. ledger.genesisTs = Some(0) /\ ledger.cell = Cell
    BY <1>9 DEF MInv, LiveOK, IInv, TypeOK, LedgerTypeOK
  <2> DEFINE a == << "quilt-cell-ledger/1", Cell, UnwrapOr(ledger.genesis, Null), Some(0) >>
             b == << "quilt-cell-ledger/1", Cell, Null, None >>
  <2>4. a = b
    <3>1. Sha256(a) = Sha256(b)
      BY <1>3, <1>4, <2>1, <2>2, <2>3 DEF GenesisCommit
    <3> QED BY <3>1, ShaInjective
  <2>5. a[4] = b[4]
    BY <2>4
  <2>6. Some(0) = None
    BY <2>5
  <2> QED BY <2>6 DEF Some, None
<1> QED BY <1>8, <1>9

LEMMA CourierKeepsMirror ==
  ASSUME MInv, NEW e \in Deliverable, Restore(e)
  PROVE  MInv'
<1>1. LiveOK' /\ ledger' = ledger
  BY DEF Restore, vars, MInv, LiveOK, IInv, TypeOK, BooksHonest
<1>2. CASE ~ Restorable(mirror, e)
  <2>1. mirror' = mirror
    BY <1>2 DEF Restore, RestoreEntry
  <2> QED BY <1>1, <2>1 DEF MInv, MirrorOK
<1>3. CASE Restorable(mirror, e)
  <2> DEFINE n == Len(mirror.entries)
             E == Append(mirror.entries, e)
             s == mirror.nextSeq + 1
             a == e.after
  <2>1. n < Len(ledger.entries) /\ e = ledger.entries[n + 1] /\ ledger.genesis = None
    BY <1>3, OnlyTheNextPasses
  <2>2. /\ IsSeq(E) /\ Len(E) = n + 1 /\ n \in Nat /\ E[n + 1] = e
        /\ \A i \in 1..n : E[i] = mirror.entries[i]
    BY AppendFacts DEF IsSeq, MInv, MirrorOK
  <2>3. mirror' = [mirror EXCEPT !.state = a, !.nextSeq = s, !.entries = E]
    BY <1>3 DEF Restore, RestoreEntry
  <2>4. mirror = [cell |-> Cell, genesis |-> None, genesisTs |-> None,
                  state |-> mirror.state, nextSeq |-> mirror.nextSeq, nextTicket |-> 1,
                  entries |-> mirror.entries, pending |-> << >>]
    BY DEF MInv, MirrorOK
  <2> HIDE DEF E, s, a
  <2>5. /\ mirror' = [cell |-> Cell, genesis |-> None, genesisTs |-> None,
                      state |-> a, nextSeq |-> s, nextTicket |-> 1,
                      entries |-> E, pending |-> << >>]
        /\ mirror.cell = Cell /\ mirror.genesis = None /\ mirror.genesisTs = None
    <3> DEFINE t == mirror.state
               k == mirror.nextSeq
               D == mirror.entries
    <3>1. mirror = [cell |-> Cell, genesis |-> None, genesisTs |-> None,
                    state |-> t, nextSeq |-> k, nextTicket |-> 1,
                    entries |-> D, pending |-> << >>]
      BY <2>4
    <3> HIDE DEF t, k, D
    <3> QED BY <2>3, <3>1
  <2>6. HonestBooks(mirror')
    BY <1>3, <2>5, RestoreHonest DEF MInv, MirrorOK, E, s, a
  <2>7. \A i \in 1..(n + 1) : E[i] = ledger.entries[i]
    BY <2>1, <2>2 DEF MInv, MirrorOK
  <2>8. Len(ledger.entries) \in Nat
    BY AppendFacts DEF IsSeq, MInv, LiveOK, IInv, TypeOK, LedgerTypeOK
  <2>9. mirror'.entries = E /\ mirror'.state = a /\ mirror'.nextSeq = s
    BY <2>5
  <2>10. mirror' = [cell |-> Cell, genesis |-> None, genesisTs |-> None,
                    state |-> mirror'.state, nextSeq |-> mirror'.nextSeq,
                    nextTicket |-> 1, entries |-> mirror'.entries, pending |-> << >>]
    BY <2>5, <2>9
  <2> QED BY <1>1, <2>1, <2>2, <2>6, <2>7, <2>8, <2>9, <2>10 DEF MInv, MirrorOK
<1> QED BY <1>2, <1>3

\* Whatever an unreliable courier delivers, in whatever order and how often, a
\* fresh ledger that restores it is a prefix of the live one, with honest books
\* of its own, and stays empty where the live one has a genesis (restore_entry).
THEOREM MirrorStaysPrefix == MirrorSpec => []MirrorIsPrefix
<1>1. MInv /\ [MirrorNext]_mirrorVars => MInv'
  <2> SUFFICES ASSUME MInv, [MirrorNext]_mirrorVars PROVE MInv'
    OBVIOUS
  <2>1. CASE Next /\ UNCHANGED mirror
    BY <2>1, CallerKeepsMirror
  <2>2. ASSUME NEW e \in Deliverable, Restore(e)
        PROVE  MInv'
    BY <2>2, CourierKeepsMirror
  <2>3. CASE UNCHANGED mirrorVars
    BY <2>3, CallerKeepsMirror DEF mirrorVars
  <2> QED BY <2>1, <2>2, <2>3 DEF MirrorNext
<1>2. MInv => MirrorIsPrefix
  <2> SUFFICES ASSUME MInv PROVE MirrorIsPrefix
    OBVIOUS
  <2> DEFINE n == Len(mirror.entries)
  <2>1. /\ IsSeq(mirror.entries) /\ IsSeq(ledger.entries)
        /\ n <= Len(ledger.entries)
        /\ \A i \in 1..n : mirror.entries[i] = ledger.entries[i]
        /\ HonestBooks(mirror)
    BY DEF MInv, MirrorOK, LiveOK, IInv, TypeOK, LedgerTypeOK
  <2>2. n \in Nat /\ ((mirror.entries = << >>) <=> (n = 0))
    BY <2>1, AppendFacts DEF IsSeq
  <2>3. IsPrefix(mirror.entries, ledger.entries)
    BY <2>1 DEF IsPrefix, IsSeq
  <2>4. mirror.state = IF mirror.entries = << >> THEN Null
                       ELSE Last(mirror.entries).after
    <3>1. mirror.state = ExpectedBefore(mirror, n + 1) /\ mirror.genesis = None
      BY <2>1 DEF HonestBooks, MInv, MirrorOK
    <3> QED BY <2>2, <3>1 DEF ExpectedBefore, UnwrapOr, Last
  <2> QED BY <2>1, <2>3, <2>4 DEF MirrorIsPrefix, HonestBooks, MInv, MirrorOK
<1> QED BY <1>1, <1>2, MInvInit, PTL DEF MirrorSpec

-----------------------------------------------------------------------------
(***************************************************************************)
(* Vectors of integers.                                                    *)
(***************************************************************************)
Vector(n) == [1..n -> Int]

\* w is the combination a u + b v.
Combines(n, w, a, u, b, v) == \A i \in 1..n : w[i] = a * u[i] + b * v[i]

\* g holds the sums of the first numbers of v.
SumsTo(v, n, g) == g = [k \in 0..n |-> IF k = 0 THEN 0 ELSE g[k - 1] + v[k]]

LEMMA SumsExist ==
  ASSUME NEW n \in Nat, NEW v \in Vector(n)
  PROVE  \E g : SumsTo(v, n, g) /\ g \in [0..n -> Int]
<1> DEFINE S == {m \in Nat : m <= n => \E g : SumsTo(v, m, g) /\ g \in [0..m -> Int]}
<1>1. 0 \in S
  <2> DEFINE g == [k \in 0..0 |-> 0]
  <2>1. g = [k \in 0..0 |-> IF k = 0 THEN 0 ELSE g[k - 1] + v[k]]
    OBVIOUS
  <2>2. g \in [0..0 -> Int]
    OBVIOUS
  <2> QED BY <2>1, <2>2 DEF SumsTo
<1>2. ASSUME NEW m \in S PROVE m + 1 \in S
  <2> SUFFICES ASSUME m + 1 <= n
               PROVE  \E g : SumsTo(v, m + 1, g) /\ g \in [0..(m + 1) -> Int]
    OBVIOUS
  <2>1. m \in Nat /\ m <= n /\ v[m + 1] \in Int
    BY DEF Vector
  <2>2. PICK g : SumsTo(v, m, g) /\ g \in [0..m -> Int]
    BY <2>1
  <2> DEFINE last == g[m] + v[m + 1]
             h == [k \in 0..(m + 1) |-> IF k = m + 1 THEN last ELSE g[k]]
  <2>3. ASSUME NEW k \in 0..(m + 1)
        PROVE  h[k] = IF k = 0 THEN 0 ELSE h[k - 1] + v[k]
    <3>1. CASE k = m + 1
      <4>1. k \in 0..(m + 1) /\ k # 0 /\ k - 1 = m /\ m \in 0..(m + 1) /\ m # m + 1
        BY <2>1, <3>1
      <4>2. h[k] = last /\ h[k - 1] = g[m]
        BY <3>1, <4>1
      <4> QED BY <3>1, <4>1, <4>2
    <3>2. CASE k # m + 1
      <4>1. k \in 0..m /\ h[k] = g[k] /\ (k # 0 => h[k - 1] = g[k - 1])
        BY <2>1, <3>2
      <4> HIDE DEF h
      <4> QED BY <2>2, <4>1 DEF SumsTo
    <3> QED BY <3>1, <3>2
  <2>4. h = [k \in 0..(m + 1) |-> IF k = 0 THEN 0 ELSE h[k - 1] + v[k]]
    <3>1. h = [k \in 0..(m + 1) |-> h[k]]
      OBVIOUS
    <3> HIDE DEF h
    <3> QED BY <2>3, <3>1
  <2>5. h \in [0..(m + 1) -> Int]
    <3>1. last \in Int
      BY <2>1, <2>2
    <3>2. \A k \in 0..(m + 1) : k # m + 1 => g[k] \in Int
      BY <2>1, <2>2
    <3> HIDE DEF last
    <3> QED BY <3>1, <3>2
  <2>6. SumsTo(v, m + 1, h)
    <3> HIDE DEF h
    <3> QED BY <2>4 DEF SumsTo
  <2> HIDE DEF h
  <2> QED BY <2>5, <2>6
<1> HIDE DEF S
<1>3. S = Nat
  <2>1. S \in SUBSET Nat
    BY DEF S
  <2> QED BY <1>1, <1>2, <2>1, Induct
<1> QED BY <1>3 DEF S

\* A sum is the last of the sums of the first numbers.
LEMMA SumIs ==
  ASSUME NEW n \in Nat, NEW v \in Vector(n)
  PROVE  \E g \in [0..n -> Int] :
           /\ g[0] = 0
           /\ \A k \in 1..n : g[k] = g[k - 1] + v[k]
           /\ SumOf(v) = g[n]
<1> DEFINE g == CHOOSE g : SumsTo(v, n, g)
<1>1. PICK h : SumsTo(v, n, h) /\ h \in [0..n -> Int]
  BY SumsExist
<1>2. Len(v) = n
  BY DEF Vector
<1>3. SumsTo(v, n, g)
  BY <1>1
<1>4. SumOf(v) = g[n]
  BY <1>2 DEF SumOf, SumsTo
<1> HIDE DEF g
<1>5. \A k \in 0..n : g[k] = IF k = 0 THEN 0 ELSE g[k - 1] + v[k]
  <2>1. g = [k \in 0..n |-> IF k = 0 THEN 0 ELSE g[k - 1] + v[k]]
    BY <1>3 DEF SumsTo
  <2> QED BY <2>1, Zenon
<1>6. 0 \in 0..n /\ \A k \in 1..n : k \in 0..n /\ k # 0
  OBVIOUS
<1>7. g[0] = 0 /\ \A k \in 1..n : g[k] = g[k - 1] + v[k]
  BY <1>5, <1>6, Zenon
<1>8. g \in [0..n -> Int]
  <2> DEFINE S == {k \in Nat : k <= n => g[k] \in Int}
  <2>1. 0 \in S
    BY <1>7
  <2>2. ASSUME NEW k \in S PROVE k + 1 \in S
    <3> SUFFICES ASSUME k + 1 <= n PROVE g[k + 1] \in Int
      OBVIOUS
    <3>1. k + 1 \in 1..n /\ (k + 1) - 1 = k /\ g[k] \in Int /\ v[k + 1] \in Int
      BY DEF Vector
    <3> QED BY <1>7, <3>1
  <2>3. S = Nat
    <3>1. S \in SUBSET Nat
      OBVIOUS
    <3> HIDE DEF S
    <3> QED BY <2>1, <2>2, <3>1, Induct
  <2>4. \A k \in 0..n : g[k] \in Int
    BY <2>3
  <2>5. g = [k \in 0..n |-> g[k]]
    <3>1. g = [k \in 0..n |-> IF k = 0 THEN 0 ELSE g[k - 1] + v[k]]
      BY <1>3 DEF SumsTo
    <3> QED BY <3>1
  <2> QED BY <2>4, <2>5
<1> QED BY <1>4, <1>7, <1>8

LEMMA Distribute ==
  ASSUME NEW a \in Int, NEW b \in Int, NEW x \in Int, NEW y \in Int,
         NEW p \in Int, NEW q \in Int
  PROVE  a * x + b * y + (a * p + b * q) = a * (x + p) + b * (y + q)
OBVIOUS

\* Sums are linear.
LEMMA SumLinear ==
  ASSUME NEW n \in Nat, NEW u \in Vector(n), NEW v \in Vector(n), NEW w \in Vector(n),
         NEW a \in Int, NEW b \in Int, Combines(n, w, a, u, b, v)
  PROVE  SumOf(w) = a * SumOf(u) + b * SumOf(v)
<1>1. PICK f \in [0..n -> Int] : f[0] = 0 /\ (\A k \in 1..n : f[k] = f[k - 1] + u[k]) /\ SumOf(u) = f[n]
  BY SumIs
<1>2. PICK g \in [0..n -> Int] : g[0] = 0 /\ (\A k \in 1..n : g[k] = g[k - 1] + v[k]) /\ SumOf(v) = g[n]
  BY SumIs
<1>3. PICK h \in [0..n -> Int] : h[0] = 0 /\ (\A k \in 1..n : h[k] = h[k - 1] + w[k]) /\ SumOf(w) = h[n]
  BY SumIs
<1> DEFINE S == {k \in Nat : k <= n => h[k] = a * f[k] + b * g[k]}
<1>4. 0 \in S
  BY <1>1, <1>2, <1>3
<1>5. ASSUME NEW k \in S PROVE k + 1 \in S
  <2> SUFFICES ASSUME k + 1 <= n PROVE h[k + 1] = a * f[k + 1] + b * g[k + 1]
    OBVIOUS
  <2>1. k + 1 \in 1..n /\ (k + 1) - 1 = k /\ k \in 0..n /\ h[k] = a * f[k] + b * g[k]
    OBVIOUS
  <2>2. /\ f[k + 1] = f[k] + u[k + 1] /\ g[k + 1] = g[k] + v[k + 1]
        /\ h[k + 1] = h[k] + (a * u[k + 1] + b * v[k + 1])
    BY <1>1, <1>2, <1>3, <2>1 DEF Combines
  <2>3. f[k] \in Int /\ g[k] \in Int /\ u[k + 1] \in Int /\ v[k + 1] \in Int
    BY <2>1 DEF Vector
  <2>4. PICK x \in Int, y \in Int, p \in Int, q \in Int :
          f[k] = x /\ g[k] = y /\ u[k + 1] = p /\ v[k + 1] = q
    BY <2>3
  <2>5. a * x + b * y + (a * p + b * q) = a * (x + p) + b * (y + q)
    BY Distribute
  <2>6. h[k + 1] = a * x + b * y + (a * p + b * q)
    BY <2>1, <2>2, <2>4, Zenon
  <2> QED BY <2>2, <2>4, <2>5, <2>6, Zenon
<1>6. S = Nat
  <2>1. S \in SUBSET Nat
    OBVIOUS
  <2> HIDE DEF S
  <2> QED BY <1>4, <1>5, <2>1, Induct
<1>7. n <= n /\ n \in S
  <2> HIDE DEF S
  <2> QED BY <1>6
<1>8. h[n] = a * f[n] + b * g[n]
  BY <1>7
<1> QED BY <1>1, <1>2, <1>3, <1>8, Zenon

\* A sum is a number, and of numbers none below zero it is none below zero.
LEMMA SumRange ==
  ASSUME NEW n \in Nat, NEW v \in Vector(n)
  PROVE  /\ SumOf(v) \in Int
         /\ (\A i \in 1..n : v[i] >= 0) => SumOf(v) >= 0
<1>1. PICK g \in [0..n -> Int] : g[0] = 0 /\ (\A k \in 1..n : g[k] = g[k - 1] + v[k]) /\ SumOf(v) = g[n]
  BY SumIs
<1>2. ASSUME \A i \in 1..n : v[i] >= 0 PROVE g[n] >= 0
  <2> DEFINE S == {k \in Nat : k <= n => g[k] >= 0}
  <2>1. 0 \in S
    BY <1>1
  <2>2. ASSUME NEW k \in S PROVE k + 1 \in S
    <3> SUFFICES ASSUME k + 1 <= n PROVE g[k + 1] >= 0
      OBVIOUS
    <3>1. /\ k + 1 \in 1..n /\ (k + 1) - 1 = k /\ k \in 0..n /\ g[k] >= 0
          /\ v[k + 1] \in Int /\ v[k + 1] >= 0
      BY <1>2 DEF Vector
    <3>2. g[k + 1] = g[k] + v[k + 1] /\ g[k] \in Int
      BY <1>1, <3>1
    <3> QED BY <3>1, <3>2
  <2>3. S = Nat
    <3>1. S \in SUBSET Nat
      OBVIOUS
    <3> HIDE DEF S
    <3> QED BY <2>1, <2>2, <3>1, Induct
  <2> QED BY <2>3
<1> QED BY <1>1, <1>2

\* The inner product.
LEMMA DotTyped ==
  ASSUME NEW n \in Nat, NEW u \in Vector(n), NEW v \in Vector(n)
  PROVE  /\ Dot(u, v) \in Int /\ Dot(u, v) = Dot(v, u)
         /\ Square(u) \in Int /\ Square(u) >= 0
<1>1. ASSUME NEW x \in Vector(n), NEW y \in Vector(n)
      PROVE  /\ [i \in DOMAIN x |-> x[i] * y[i]] \in Vector(n)
             /\ [i \in DOMAIN x |-> x[i] * y[i]] = [i \in DOMAIN y |-> y[i] * x[i]]
  BY DEF Vector
<1>2. Dot(u, v) \in Int /\ Dot(u, v) = Dot(v, u)
  BY <1>1, SumRange DEF Dot
<1>3. Square(u) \in Int /\ Square(u) >= 0
  <2> DEFINE s == [i \in DOMAIN u |-> u[i] * u[i]]
  <2>1. s \in Vector(n) /\ \A i \in 1..n : s[i] = u[i] * u[i] /\ u[i] \in Int
    BY <1>1 DEF Vector
  <2>2. \A z \in Int : z * z >= 0
    OBVIOUS
  <2>3. \A i \in 1..n : s[i] >= 0
    BY <2>1, <2>2
  <2>4. Square(u) = SumOf(s)
    BY DEF Square, Dot
  <2> HIDE DEF s
  <2> QED BY <2>1, <2>3, <2>4, SumRange
<1> QED BY <1>2, <1>3

LEMMA Scatter ==
  ASSUME NEW a \in Int, NEW b \in Int, NEW x \in Int, NEW p \in Int, NEW q \in Int
  PROVE  x * (a * p + b * q) = a * (x * p) + b * (x * q)
OBVIOUS

LEMMA DotLinear ==
  ASSUME NEW n \in Nat, NEW x \in Vector(n),
         NEW u \in Vector(n), NEW v \in Vector(n), NEW w \in Vector(n),
         NEW a \in Int, NEW b \in Int, Combines(n, w, a, u, b, v)
  PROVE  Dot(x, w) = a * Dot(x, u) + b * Dot(x, v)
<1> DEFINE xu == [i \in DOMAIN x |-> x[i] * u[i]]
           xv == [i \in DOMAIN x |-> x[i] * v[i]]
           xw == [i \in DOMAIN x |-> x[i] * w[i]]
<1>1. /\ \A i \in 1..n : xu[i] = x[i] * u[i] /\ xv[i] = x[i] * v[i] /\ xw[i] = x[i] * w[i]
      /\ xu \in Vector(n) /\ xv \in Vector(n) /\ xw \in Vector(n)
  <2>1. ASSUME NEW y \in Vector(n)
        PROVE  /\ [i \in DOMAIN x |-> x[i] * y[i]] \in Vector(n)
               /\ \A i \in 1..n : [j \in DOMAIN x |-> x[j] * y[j]][i] = x[i] * y[i]
    BY DEF Vector
  <2> QED BY <2>1
<1>2. Dot(x, u) = SumOf(xu) /\ Dot(x, v) = SumOf(xv) /\ Dot(x, w) = SumOf(xw)
  BY DEF Dot
<1> HIDE DEF xu, xv, xw
<1>3. ASSUME NEW i \in 1..n PROVE xw[i] = a * xu[i] + b * xv[i]
  <2>1. PICK y \in Int, p \in Int, q \in Int : x[i] = y /\ u[i] = p /\ v[i] = q
    BY DEF Vector
  <2>2. y * (a * p + b * q) = a * (y * p) + b * (y * q)
    BY Scatter
  <2>3. w[i] = a * p + b * q
    BY <2>1, Zenon DEF Combines
  <2>4. xw[i] = y * (a * p + b * q) /\ xu[i] = y * p /\ xv[i] = y * q
    BY <1>1, <2>1, <2>3, Zenon
  <2> QED BY <2>2, <2>4, Zenon
<1>4. Combines(n, xw, a, xu, b, xv)
  BY <1>3 DEF Combines
<1> QED BY <1>1, <1>2, <1>4, SumLinear

LEMMA Binomial ==
  ASSUME NEW a \in Int, NEW b \in Int, NEW x \in Int, NEW y \in Int, NEW z \in Int
  PROVE  a * (a * x + b * y) + b * (a * y + b * z)
           = a * a * x + 2 * (a * b) * y + b * b * z
OBVIOUS

LEMMA SquareLinear ==
  ASSUME NEW n \in Nat, NEW u \in Vector(n), NEW v \in Vector(n), NEW w \in Vector(n),
         NEW a \in Int, NEW b \in Int, Combines(n, w, a, u, b, v)
  PROVE  Square(w) = a * a * Square(u) + 2 * (a * b) * Dot(u, v) + b * b * Square(v)
<1>1. Dot(w, w) = a * Dot(w, u) + b * Dot(w, v)
  BY DotLinear
<1>2. Dot(u, w) = a * Dot(u, u) + b * Dot(u, v) /\ Dot(v, w) = a * Dot(v, u) + b * Dot(v, v)
  <2>1. Dot(u, w) = a * Dot(u, u) + b * Dot(u, v)
    BY DotLinear
  <2>2. Dot(v, w) = a * Dot(v, u) + b * Dot(v, v)
    BY DotLinear
  <2> QED BY <2>1, <2>2
<1>3. Dot(w, u) = Dot(u, w) /\ Dot(w, v) = Dot(v, w) /\ Dot(v, u) = Dot(u, v)
  BY DotTyped
<1>4. PICK x \in Int, y \in Int, z \in Int : Dot(u, u) = x /\ Dot(u, v) = y /\ Dot(v, v) = z
  BY DotTyped
<1>5. Dot(w, w) = a * (a * x + b * y) + b * (a * y + b * z)
  BY <1>1, <1>2, <1>3, <1>4, Zenon
<1>6. a * (a * x + b * y) + b * (a * y + b * z) = a * a * x + 2 * (a * b) * y + b * b * z
  BY Binomial
<1> QED BY <1>4, <1>5, <1>6, Zenon DEF Square

\* x (x z - y y) is none below zero, so if x is above zero x z is not below y y.
LEMMA Discriminant ==
  ASSUME NEW x \in Int, NEW y \in Int, NEW z \in Int, NEW m \in Int, x > 0, m = 0 - y,
         x * x * z + 2 * (x * m) * y + m * m * x >= 0
  PROVE  y * y <= x * z
<1>1. x * x * z + 2 * (x * m) * y + m * m * x = x * (x * z - y * y)
  OBVIOUS
<1>2. PICK d \in Int : d = x * z - y * y
  OBVIOUS
<1>3. x * d >= 0
  BY <1>1, <1>2
<1>4. d >= 0
  BY <1>3
<1>5. x * z \in Int /\ y * y \in Int
  OBVIOUS
<1> QED BY <1>2, <1>4, <1>5

\* The inner product is within the lengths (Cauchy and Schwarz).
LEMMA DotWithin ==
  ASSUME NEW n \in Nat, NEW u \in Vector(n), NEW v \in Vector(n), Square(u) > 0
  PROVE  Dot(u, v) * Dot(u, v) <= Square(u) * Square(v)
<1>1. PICK x \in Int, y \in Int, z \in Int : Square(u) = x /\ Dot(u, v) = y /\ Square(v) = z
  BY DotTyped
<1>2. PICK m \in Int : m = 0 - y
  OBVIOUS
<1> DEFINE w == [i \in 1..n |-> x * v[i] + m * u[i]]
<1>3. w \in Vector(n) /\ Combines(n, w, x, v, m, u)
  BY DEF Vector, Combines
<1> HIDE DEF w
<1>4. Square(w) = x * x * Square(v) + 2 * (x * m) * Dot(v, u) + m * m * Square(u)
  BY <1>3, SquareLinear
<1>5. Dot(v, u) = y /\ Square(w) >= 0
  BY <1>1, <1>3, DotTyped
<1>6. x * x * z + 2 * (x * m) * y + m * m * x >= 0
  BY <1>1, <1>4, <1>5, Zenon
<1>7. y * y <= x * z
  BY <1>1, <1>2, <1>6, Discriminant
<1> QED BY <1>1, <1>7, Zenon

\* And so whatever the lengths are.
LEMMA DotWithinAll ==
  ASSUME NEW n \in Nat, NEW u \in Vector(n), NEW v \in Vector(n)
  PROVE  Dot(u, v) * Dot(u, v) <= Square(u) * Square(v)
<1>1. PICK x \in Int, y \in Int, z \in Int :
        Square(u) = x /\ Dot(u, v) = y /\ Square(v) = z /\ Dot(v, u) = y /\ x >= 0 /\ z >= 0
  BY DotTyped
<1>2. CASE x > 0
  BY <1>1, <1>2, DotWithin
<1>3. CASE z > 0
  <2>1. y * y <= z * x
    BY <1>1, <1>3, DotWithin
  <2>2. z * x = x * z
    OBVIOUS
  <2> QED BY <1>1, <2>1, <2>2
<1>4. CASE x = 0 /\ z = 0
  <2>1. ASSUME NEW k \in Int PROVE 2 * (1 * k) * y >= 0
    <3> DEFINE w == [i \in 1..n |-> 1 * u[i] + k * v[i]]
    <3>1. w \in Vector(n) /\ Combines(n, w, 1, u, k, v)
      BY DEF Vector, Combines
    <3> HIDE DEF w
    <3>2. Square(w) = 1 * 1 * Square(u) + 2 * (1 * k) * Dot(u, v) + k * k * Square(v)
      BY <3>1, SquareLinear
    <3>3. Square(w) \in Int /\ Square(w) >= 0
      BY <3>1, DotTyped
    <3>4. Square(w) = 0 + 2 * (1 * k) * y + k * k * 0
      BY <1>1, <1>4, <3>2
    <3> QED BY <3>3, <3>4
  <2>2. 2 * (1 * 1) * y >= 0 /\ 2 * (1 * (0 - 1)) * y >= 0
    BY <2>1
  <2>3. y = 0
    BY <2>2
  <2> QED BY <1>1, <1>4, <2>3
<1> QED BY <1>1, <1>2, <1>3, <1>4

-----------------------------------------------------------------------------
(***************************************************************************)
(* Numbers the identities come down to.                                    *)
(***************************************************************************)

\* Roots are in the order of their squares.
LEMMA RootsOrder ==
  ASSUME NEW s \in Nat, NEW t \in Int, t * t <= s * s
  PROVE  t <= s
<1> SUFFICES ASSUME t > s PROVE FALSE
  OBVIOUS
<1>1. PICK d \in Nat : t = s + d /\ d > 0
  <2>1. t - s \in Nat /\ t - s > 0 /\ t = s + (t - s)
    OBVIOUS
  <2> QED BY <2>1
<1>2. t * t = s * s + 2 * (s * d) + d * d
  BY <1>1
<1>3. s * d \in Nat /\ d * d > 0 /\ s * s \in Nat
  BY <1>1
<1> QED BY <1>2, <1>3

LEMMA Products ==
  ASSUME NEW a \in Nat, NEW b \in Int, NEW c \in Nat, NEW d \in Int, a <= b, c <= d
  PROVE  a * c <= b * d
<1>1. PICK x \in Nat, y \in Nat : b = a + x /\ d = c + y
  <2>1. b - a \in Nat /\ d - c \in Nat /\ b = a + (b - a) /\ d = c + (d - c)
    OBVIOUS
  <2> QED BY <2>1
<1>2. b * d = a * c + a * y + x * c + x * y
  BY <1>1
<1>3. a * y \in Nat /\ x * c \in Nat /\ x * y \in Nat /\ a * c \in Nat
  OBVIOUS
<1> QED BY <1>2, <1>3

\* The means of two numbers, squared.
LEMMA MeansOrder ==
  ASSUME NEW u \in Int, NEW v \in Int
  PROVE  4 * (u * v) <= (u + v) * (u + v)
<1>1. (u + v) * (u + v) = 4 * (u * v) + (u - v) * (u - v)
  OBVIOUS
<1>2. PICK d \in Int : d = u - v
  OBVIOUS
<1>3. d * d >= 0 /\ d * d \in Int /\ u * v \in Int
  OBVIOUS
<1> QED BY <1>1, <1>2, <1>3

\* Warmth is within direction drift: g, h and k are the products of the states
\* without their parts along the axis.
LEMMA WarmthAlgebra ==
  ASSUME NEW A \in Nat, NEW B \in Nat, NEW g \in Nat, NEW h \in Nat, NEW k \in Int,
         k * k <= g * h,
         NEW x \in Int, x = B * g + A * h, NEW y \in Int, y = 0 - 2 * k
  PROVE  NotNegative(x, y, A * B)
<1>1. PICK u \in Nat, v \in Nat : u = B * g /\ v = A * h
  OBVIOUS
<1>2. x = u + v /\ x >= 0
  BY <1>1
<1>3. 4 * (u * v) <= x * x
  BY <1>2, MeansOrder
<1>4. PICK N \in Nat, c \in Nat, d \in Nat : N = A * B /\ c = k * k /\ d = g * h
  <2>1. k * k \in Nat
    OBVIOUS
  <2> QED BY <2>1
<1>5. u * v = N * d
  BY <1>1, <1>4
<1>6. y * y * N = 4 * (N * c)
  BY <1>4
<1>7. N * c <= N * d
  BY <1>4, Products
<1>8. N * c \in Nat /\ N * d \in Nat /\ x * x \in Int
  OBVIOUS
<1>9. y * y * N <= x * x
  BY <1>3, <1>5, <1>6, <1>7, <1>8
<1> QED BY <1>2, <1>4, <1>9 DEF NotNegative

\* Direction drift is within surprise where N is no less than the unit's square.
LEMMA SurpriseAlgebra ==
  ASSUME NEW S \in Nat, NEW N \in Nat, 4 * N <= S * S, NEW D \in Int, D * D <= N,
         NEW V \in Nat, V * V <= N,
         NEW x \in Int, x = N * (S - 2 * D - 2 * V), NEW y \in Int, y = 2 * (V * D)
  PROVE  NotNegative(x, y, N)
<1>1. 2 * V <= S
  <2>1. (2 * V) * (2 * V) = 4 * (V * V) /\ V * V \in Nat /\ S * S \in Int
    OBVIOUS
  <2>2. (2 * V) * (2 * V) <= S * S
    BY <2>1
  <2> QED BY <2>2, RootsOrder
<1>2. 2 * D <= S
  <2>1. (2 * D) * (2 * D) = 4 * (D * D) /\ D * D \in Int /\ S * S \in Int
    OBVIOUS
  <2>2. (2 * D) * (2 * D) <= S * S
    BY <2>1
  <2> QED BY <2>2, RootsOrder
<1>3. PICK k \in Int : k = S - 2 * D - 2 * V
  OBVIOUS
<1>4. x = N * k
  BY <1>3
<1>5. PICK p \in Int : p = V * D /\ y = 2 * p
  OBVIOUS
<1>6. CASE k >= 0 /\ D >= 0
  <2>1. x >= 0 /\ y >= 0
    BY <1>4, <1>6
  <2>2. x * x \in Int /\ y * y * N \in Int
    OBVIOUS
  <2> QED BY <2>1, <2>2 DEF NotNegative
<1>7. CASE D < 0
  <2>1. PICK d \in Nat : d = 0 - D
    BY <1>7
  <2>2. 2 * d <= k
    BY <1>1, <1>3, <2>1
  <2>3. (2 * d) * (2 * d) <= k * k
    BY <2>2, Products
  <2>4. PICK c \in Nat, e \in Nat, f \in Nat : c = (2 * d) * (2 * d) /\ e = k * k /\ f = V * V
    <3>1. (2 * d) * (2 * d) \in Nat /\ k * k \in Nat /\ V * V \in Nat
      OBVIOUS
    <3> QED BY <3>1
  <2>5. f * c <= N * e
    BY <2>3, <2>4, Products
  <2>6. y * y = f * c
    BY <1>5, <2>1, <2>4
  <2>7. x * x = N * (N * e)
    BY <1>4, <2>4
  <2>8. N * (f * c) <= N * (N * e)
    <3>1. f * c \in Nat /\ N * e \in Nat
      OBVIOUS
    <3> QED BY <2>5, <3>1, Products
  <2>9. y * y * N <= x * x
    BY <2>6, <2>7, <2>8
  <2>10. x >= 0
    BY <1>4, <2>1, <2>2
  <2> QED BY <2>9, <2>10 DEF NotNegative
<1>8. CASE k < 0 /\ D >= 0
  <2>1. PICK m \in Nat : m = 0 - k
    BY <1>8
  <2>2. PICK a \in Nat, b \in Nat : a = S - 2 * D /\ b = S - 2 * V
    <3>1. S - 2 * D \in Nat /\ S - 2 * V \in Nat
      BY <1>1, <1>2
    <3> QED BY <3>1
  <2>3. S * m = 4 * p - a * b
    BY <1>3, <1>5, <2>1, <2>2
  <2>4. S * m <= 4 * p
    <3>1. a * b \in Nat
      OBVIOUS
    <3> QED BY <2>3, <3>1
  <2>5. (S * m) * (S * m) <= (4 * p) * (4 * p)
    <3>1. S * m \in Nat
      OBVIOUS
    <3> QED BY <2>4, <3>1, Products
  <2>6. PICK e \in Nat, s \in Nat : e = m * m /\ s = S * S
    OBVIOUS
  <2>7. (4 * N) * e <= s * e
    BY <2>6, Products
  <2>8. s * e = (S * m) * (S * m) /\ (4 * p) * (4 * p) = 4 * (y * y)
    BY <1>5, <2>6
  <2>9. N * e <= y * y
    <3>1. (4 * N) * e = 4 * (N * e) /\ N * e \in Nat /\ y * y \in Int /\ s * e \in Int
      OBVIOUS
    <3> QED BY <2>5, <2>7, <2>8, <3>1
  <2>10. x * x = N * (N * e)
    BY <1>4, <2>1, <2>6
  <2>11. N * (N * e) <= N * (y * y)
    <3>1. N * e \in Nat /\ y * y \in Int
      OBVIOUS
    <3> QED BY <2>9, <3>1, Products
  <2>12. x * x <= y * y * N
    <3>1. N * (y * y) = y * y * N
      OBVIOUS
    <3> QED BY <2>10, <2>11, <3>1
  <2>13. y >= 0
    BY <1>5, <1>8
  <2> QED BY <2>12, <2>13 DEF NotNegative
<1> QED BY <1>6, <1>7, <1>8

LEMMA PythagorasAlgebra ==
  ASSUME NEW W \in Int, NEW imb \in Int, NEW leg \in Int, NEW m \in Int, m = 0 - leg
  PROVE  imb * W * W - leg * leg * W
           - (W * W * imb + 2 * (W * m) * leg + m * m * W) = 0
<1>1. W * W * imb = imb * W * W
  OBVIOUS
<1>2. m * m * W = leg * leg * W
  OBVIOUS
<1>3. (W * m) * leg = 0 - leg * leg * W
  OBVIOUS
<1>4. imb * W * W \in Int /\ leg * leg * W \in Int
  OBVIOUS
<1> QED BY <1>1, <1>2, <1>3, <1>4

-----------------------------------------------------------------------------
(***************************************************************************)
(* The field view.                                                         *)
(***************************************************************************)

\* The view is that of two vectors.
FieldInv ==
  view # None => \E before, after \in Seq(Int) : view = Compute(before, after)

\* What the view is made of.
LEMMA EdgeVectors ==
  ASSUME NEW n \in Nat, NEW b \in Vector(n), NEW a \in Vector(n), NEW w \in Vector(n),
         NEW p \in Int, NEW q \in Int, NEW m \in Int, m = 0 - q
  PROVE  /\ Diff(Times(p, a), Times(q, b)) \in Vector(n)
         /\ Combines(n, Diff(Times(p, a), Times(q, b)), p, a, m, b)
<1>1. Times(p, a) = [i \in 1..n |-> p * a[i]] /\ Times(q, b) = [i \in 1..n |-> q * b[i]]
  BY DEF Vector, Times
<1>2. Diff(Times(p, a), Times(q, b)) = [i \in 1..n |-> p * a[i] - q * b[i]]
  BY <1>1 DEF Diff
<1>3. ASSUME NEW i \in 1..n PROVE p * a[i] - q * b[i] \in Int /\ p * a[i] - q * b[i] = p * a[i] + m * b[i]
  <2>1. a[i] \in Int /\ b[i] \in Int
    BY DEF Vector
  <2>2. PICK x \in Int, y \in Int : x = a[i] /\ y = b[i]
    BY <2>1
  <2>3. m * y = 0 - q * y /\ p * x \in Int /\ q * y \in Int
    OBVIOUS
  <2>4. p * x - q * y \in Int /\ p * x - q * y = p * x + m * y
    BY <2>3
  <2> QED BY <2>2, <2>4, Zenon
<1> QED BY <1>2, <1>3 DEF Vector, Combines

LEMMA DiffVector ==
  ASSUME NEW n \in Nat, NEW b \in Vector(n), NEW a \in Vector(n)
  PROVE  Diff(a, b) \in Vector(n) /\ Combines(n, Diff(a, b), 1, a, 0 - 1, b)
<1>1. Diff(a, b) = [i \in 1..n |-> a[i] - b[i]]
  BY DEF Vector, Diff
<1>2. ASSUME NEW i \in 1..n PROVE a[i] - b[i] \in Int /\ a[i] - b[i] = 1 * a[i] + (0 - 1) * b[i]
  BY DEF Vector
<1> QED BY <1>1, <1>2 DEF Vector, Combines

\* The squared drift is a surd over the product of the states' squares.
LEMMA DriftIs ==
  ASSUME NEW n \in Nat, NEW b \in Vector(n), NEW a \in Vector(n)
  PROVE  DirectionDrift(b, a) = Surd(2 * (Square(a) * Square(b)), 0 - 2 * Dot(a, b))
<1>a. PICK A \in Int, B \in Int, D \in Int : A = Square(a) /\ B = Square(b) /\ D = Dot(a, b)
  BY DotTyped
<1> DEFINE aa == [i \in 1..n |-> a[i] * a[i]]
           bb == [i \in 1..n |-> b[i] * b[i]]
           ab == [i \in 1..n |-> a[i] * b[i]]
           ws == [i \in 1..n |-> B * aa[i] + A * bb[i]]
           rs == [i \in 1..n |-> (0 - 2) * ab[i] + 0 * ab[i]]
<1>1. DOMAIN a = 1..n /\ DOMAIN b = 1..n
  BY DEF Vector
<1>2. SumOf(aa) = A /\ SumOf(bb) = B /\ SumOf(ab) = D
  BY <1>a, <1>1 DEF Square, Dot
<1>3. \A i \in 1..n : a[i] \in Int /\ b[i] \in Int
  BY DEF Vector
<1>4. aa \in Vector(n) /\ bb \in Vector(n) /\ ab \in Vector(n)
  BY <1>3 DEF Vector
<1>5. \A i \in 1..n : aa[i] \in Int /\ bb[i] \in Int /\ ab[i] \in Int
  BY <1>3
<1>6. ws \in Vector(n) /\ rs \in Vector(n)
  <2> HIDE DEF aa, bb, ab
  <2> QED BY <1>5 DEF Vector
<1>7. Combines(n, ws, B, aa, A, bb) /\ Combines(n, rs, 0 - 2, ab, 0, ab)
  <2> HIDE DEF aa, bb, ab
  <2> QED BY DEF Combines
<1>8. /\ [i \in DOMAIN a |-> SquaredDrift(a[i], b[i], b, a).whole] = ws
      /\ [i \in DOMAIN a |-> SquaredDrift(a[i], b[i], b, a).root] = rs
  <2>1. ASSUME NEW i \in 1..n
        PROVE  /\ SquaredDrift(a[i], b[i], b, a).whole = ws[i]
               /\ SquaredDrift(a[i], b[i], b, a).root = rs[i]
    <3>1. PICK p \in Int, q \in Int : p = a[i] /\ q = b[i]
      BY <1>3
    <3>2. SquaredDrift(p, q, b, a) = [whole |-> B * p * p + A * q * q, root |-> -2 * p * q]
      BY <1>a DEF SquaredDrift, Surd
    <3>3. B * p * p + A * q * q = B * (p * p) + A * (q * q)
      OBVIOUS
    <3>4. -2 * p * q = (0 - 2) * (p * q) + 0 * (p * q)
      OBVIOUS
    <3>5. ws[i] = B * (p * p) + A * (q * q) /\ rs[i] = (0 - 2) * (p * q) + 0 * (p * q)
      BY <3>1
    <3> HIDE DEF ws, rs, aa, bb, ab
    <3> QED BY <3>1, <3>2, <3>3, <3>4, <3>5
  <2> HIDE DEF ws, rs, aa, bb, ab
  <2>2. ws = [i \in 1..n |-> ws[i]] /\ rs = [i \in 1..n |-> rs[i]]
    BY <1>6 DEF Vector
  <2> QED BY <1>1, <2>1, <2>2
<1>9. DirectionDrift(b, a) = Surd(SumOf(ws), SumOf(rs))
  <2> HIDE DEF ws, rs
  <2> QED BY <1>8 DEF DirectionDrift
<1> HIDE DEF ws, rs, aa, bb, ab
<1>10. SumOf(ws) = B * A + A * B
  BY <1>2, <1>4, <1>6, <1>7, SumLinear
<1>11. SumOf(rs) = (0 - 2) * D + 0 * D
  <2>1. 0 - 2 \in Int /\ 0 \in Int
    OBVIOUS
  <2> QED BY <1>2, <1>4, <1>6, <1>7, <2>1, SumLinear
<1>12. B * A + A * B = 2 * (A * B) /\ (0 - 2) * D + 0 * D = 0 - 2 * D
  OBVIOUS
<1> QED BY <1>a, <1>9, <1>10, <1>11, <1>12, Zenon

\* A state without its part along the axis: times the axis it is nothing, and
\* times another state it is what is left of the two.
LEMMA PartOff ==
  ASSUME NEW n \in Nat, NEW w \in Vector(n), NEW a \in Vector(n)
  PROVE  \E r \in Vector(n) :
           /\ Dot(w, r) = 0
           /\ \A y \in Vector(n) :
                Dot(y, r) = Square(w) * Dot(y, a) - Dot(w, a) * Dot(y, w)
<1>1. PICK W \in Int, p \in Int : W = Square(w) /\ p = Dot(w, a)
  BY DotTyped
<1>2. PICK m \in Int : m = 0 - p
  OBVIOUS
<1> DEFINE r == [i \in 1..n |-> W * a[i] + m * w[i]]
<1>3. r \in Vector(n) /\ Combines(n, r, W, a, m, w)
  BY DEF Vector, Combines
<1> HIDE DEF r
<1>4. ASSUME NEW y \in Vector(n) PROVE Dot(y, r) = W * Dot(y, a) - p * Dot(y, w)
  <2>1. PICK f \in Int, g \in Int : f = Dot(y, a) /\ g = Dot(y, w)
    BY DotTyped
  <2>2. Dot(y, r) = W * f + m * g
    BY <1>3, <2>1, DotLinear
  <2>3. W * f + m * g = W * f - p * g
    BY <1>2
  <2> QED BY <2>1, <2>2, <2>3
<1>5. Dot(w, r) = 0
  <2>1. Dot(w, r) = W * Dot(w, a) - p * Dot(w, w)
    BY <1>4
  <2>2. W * p - p * W = 0
    OBVIOUS
  <2> QED BY <1>1, <2>1, <2>2 DEF Square
<1> QED BY <1>1, <1>3, <1>4, <1>5

\* Cauchy and Schwarz again, of what two states have off the axis.
LEMMA PartsOffWithin ==
  ASSUME NEW n \in Nat, NEW w \in Vector(n), NEW a \in Vector(n), NEW b \in Vector(n),
         Square(w) > 0
  PROVE  LET g == Square(w) * Square(a) - Dot(w, a) * Dot(w, a)
             h == Square(w) * Square(b) - Dot(w, b) * Dot(w, b)
             k == Square(w) * Dot(a, b) - Dot(w, a) * Dot(w, b)
         IN  g >= 0 /\ h >= 0 /\ k * k <= g * h
<1>a. PICK W \in Int, A \in Int, B \in Int :
        W = Square(w) /\ W > 0 /\ A = Square(a) /\ B = Square(b)
  BY DotTyped
<1>b. PICK D \in Int, p \in Int, q \in Int : D = Dot(a, b) /\ p = Dot(w, a) /\ q = Dot(w, b)
  BY DotTyped
<1>c. PICK g \in Int, h \in Int, k \in Int :
        g = W * A - p * p /\ h = W * B - q * q /\ k = W * D - p * q
  OBVIOUS
<1>1. g >= 0 /\ h >= 0
  <2>1. p * p <= W * A /\ q * q <= W * B
    BY <1>a, <1>b, DotWithinAll
  <2>2. p * p \in Int /\ W * A \in Int /\ q * q \in Int /\ W * B \in Int
    OBVIOUS
  <2> QED BY <1>c, <2>1, <2>2
<1>2. PICK r \in Vector(n) :
        /\ Dot(w, r) = 0
        /\ \A y \in Vector(n) : Dot(y, r) = W * Dot(y, a) - p * Dot(y, w)
  BY <1>a, <1>b, PartOff
<1>3. PICK s \in Vector(n) :
        /\ Dot(w, s) = 0
        /\ \A y \in Vector(n) : Dot(y, s) = W * Dot(y, b) - q * Dot(y, w)
  BY <1>a, <1>b, PartOff
<1>4. Dot(a, w) = p /\ Dot(b, w) = q /\ Dot(b, a) = D /\ Dot(r, w) = 0 /\ Dot(s, w) = 0
  BY <1>b, <1>2, <1>3, DotTyped
<1>5. Dot(a, r) = g /\ Dot(b, s) = h /\ Dot(b, r) = k
  <2>1. Dot(a, r) = W * A - p * p
    BY <1>a, <1>2, <1>4 DEF Square
  <2>2. Dot(b, s) = W * B - q * q
    BY <1>a, <1>3, <1>4 DEF Square
  <2>3. Dot(b, r) = W * D - p * q
    BY <1>2, <1>4
  <2> QED BY <1>c, <2>1, <2>2, <2>3
<1>6. Dot(r, a) = g /\ Dot(s, b) = h /\ Dot(r, b) = k
  BY <1>5, DotTyped
<1>7. Square(r) = W * g /\ Square(s) = W * h /\ Dot(r, s) = W * k
  <2>1. Dot(r, r) = W * g - p * 0
    BY <1>2, <1>4, <1>6
  <2>2. Dot(s, s) = W * h - q * 0
    BY <1>3, <1>4, <1>6
  <2>3. Dot(r, s) = W * k - q * 0
    BY <1>3, <1>4, <1>6
  <2>4. W * g - p * 0 = W * g /\ W * h - q * 0 = W * h /\ W * k - q * 0 = W * k
    OBVIOUS
  <2> QED BY <2>1, <2>2, <2>3, <2>4 DEF Square
<1>8. (W * k) * (W * k) <= (W * g) * (W * h)
  BY <1>7, DotWithinAll
<1>9. PICK V \in Nat, c \in Int, d \in Int : V = W * W /\ V > 0 /\ c = k * k /\ d = g * h
  <2>1. W * W > 0 /\ W * W \in Nat
    BY <1>a
  <2> QED BY <2>1
<1>10. V * c <= V * d
  <2>1. (W * k) * (W * k) = V * c /\ (W * g) * (W * h) = V * d
    <3>1. (W * k) * (W * k) = (W * W) * (k * k) /\ (W * g) * (W * h) = (W * W) * (g * h)
      OBVIOUS
    <3> QED BY <1>9, <3>1, Zenon
  <2> QED BY <1>8, <2>1, Zenon
<1>11. c <= d
  <2> SUFFICES ASSUME c > d PROVE FALSE
    OBVIOUS
  <2>1. PICK z \in Nat : c = d + z /\ z > 0
    <3>1. c - d \in Nat /\ c - d > 0 /\ c = d + (c - d)
      OBVIOUS
    <3> QED BY <3>1
  <2>2. V * c = V * d + V * z
    BY <2>1
  <2>3. V * z > 0 /\ V * d \in Int
    BY <1>9, <2>1
  <2> QED BY <1>10, <2>2, <2>3
<1>12. k * k <= g * h
  BY <1>9, <1>11
<1> QED BY <1>a, <1>b, <1>c, <1>1, <1>12

\* The identities, of any two vectors that have a view.
LEMMA EdgeIdentities ==
  ASSUME FieldAssumption, NEW b \in Seq(Int), NEW a \in Seq(Int), HasView(b, a),
         NEW e, e = FieldEdge(b, a)
  PROVE  /\ RadialDirectionSplitResidual(e) = Surd(0, 0)
         /\ WarmPythagorasResidual(e) = 0
         /\ WarmthWithinDrift(e)
         /\ e.beforeSq * e.afterSq >= Unit * Unit * (Unit * Unit) => DriftWithinSurprise(e)
<1>1. PICK n \in Nat : b \in Vector(n) /\ a \in Vector(n) /\ Warm \in Vector(n)
  <2>1. Warm \in Seq(Int)
    BY DEF FieldAssumption
  <2>2. /\ b = [i \in 1..Len(b) |-> b[i]] /\ a = [i \in 1..Len(a) |-> a[i]]
        /\ Warm = [i \in 1..Len(Warm) |-> Warm[i]] /\ Len(b) \in Nat
        /\ \A i \in 1..Len(b) : b[i] \in Int
        /\ \A i \in 1..Len(a) : a[i] \in Int
        /\ \A i \in 1..Len(Warm) : Warm[i] \in Int
    BY <2>1
  <2>3. Len(a) = Len(b) /\ Len(Warm) = Len(b)
    BY DEF HasView
  <2> QED BY <2>2, <2>3 DEF Vector
<1>2. PICK A \in Nat, B \in Nat, W \in Nat :
        /\ A = Square(a) /\ B = Square(b) /\ W = Square(Warm)
        /\ A # 0 /\ B # 0 /\ W # 0
  <2>1. Square(a) \in Nat /\ Square(b) \in Nat /\ Square(Warm) \in Nat
    <3>1. /\ Square(a) \in Int /\ Square(a) >= 0 /\ Square(b) \in Int /\ Square(b) >= 0
          /\ Square(Warm) \in Int /\ Square(Warm) >= 0
      BY <1>1, DotTyped
    <3> QED BY <3>1
  <2> QED BY <2>1 DEF HasView
<1>3. PICK D \in Int, p \in Int, q \in Int : D = Dot(a, b) /\ p = Dot(Warm, a) /\ q = Dot(Warm, b)
  BY <1>1, DotTyped
<1>4. PICK delta \in Vector(n) : delta = Diff(a, b) /\ Combines(n, delta, 1, a, 0 - 1, b)
  BY <1>1, DiffVector
<1>5. PICK leg \in Int, imb \in Int : leg = Dot(Warm, delta) /\ imb = Square(delta)
  BY <1>1, DotTyped
<1>6. PICK m \in Int : m = 0 - leg
  OBVIOUS
<1>7. PICK perp \in Vector(n) :
        /\ perp = Diff(Times(W, delta), Times(leg, Warm))
        /\ Combines(n, perp, W, delta, m, Warm)
  BY <1>1, <1>6, EdgeVectors
<1>8. PICK N \in Nat : N = A * B
  OBVIOUS
<1>9. /\ e.imbalanceSq = imb /\ e.muSq = Surd(2 * N, 0 - 2 * D)
      /\ e.warmthSq = SquaredDrift(p, q, b, a) /\ e.leg = leg
      /\ e.perpSq = Square(perp) /\ e.beforeSq = B /\ e.afterSq = A
  <2>1. DirectionDrift(b, a) = Surd(2 * N, 0 - 2 * D)
    BY <1>1, <1>2, <1>3, <1>8, DriftIs, Zenon
  <2>2. e = [imbalanceSq |-> imb, muSq |-> DirectionDrift(b, a),
             warmthSq |-> SquaredDrift(p, q, b, a), leg |-> leg, perpSq |-> Square(perp),
             beforeSq |-> B, afterSq |-> A]
    <3>1. Square(Warm) = W /\ Diff(a, b) = delta /\ Dot(Warm, delta) = leg
      BY <1>2, <1>4, <1>5
    <3>2. e = [imbalanceSq |-> Square(delta), muSq |-> DirectionDrift(b, a),
               warmthSq |-> SquaredDrift(Dot(Warm, a), Dot(Warm, b), b, a),
               leg |-> leg, perpSq |-> Square(Diff(Times(W, delta), Times(leg, Warm))),
               beforeSq |-> Square(b), afterSq |-> Square(a)]
      BY <3>1 DEF FieldEdge
    <3> QED BY <1>2, <1>3, <1>5, <1>7, <3>2
  <2> QED BY <2>1, <2>2
<1>10. e.muSq.whole = 2 * N /\ e.muSq.root = 0 - 2 * D
  BY <1>9 DEF Surd
<1>11. e.beforeSq * e.afterSq = N
  BY <1>8, <1>9
<1>12. imb = A - 2 * D + B
  <2>1. imb = 1 * 1 * Square(a) + 2 * (1 * (0 - 1)) * Dot(a, b) + (0 - 1) * (0 - 1) * Square(b)
    <3>1. 0 - 1 \in Int /\ 1 \in Int
      OBVIOUS
    <3> QED BY <1>1, <1>4, <1>5, <3>1, SquareLinear
  <2> QED BY <1>2, <1>3, <2>1
<1>13. RadialDirectionSplitResidual(e) = Surd(0, 0)
  <2>1. N * (imb - B - A - (0 - 2 * D)) = 0 /\ 2 * N - 2 * N = 0
    <3>1. imb - B - A - (0 - 2 * D) = 0
      BY <1>12
    <3> QED BY <3>1
  <2> QED BY <1>9, <1>10, <1>11, <2>1 DEF RadialDirectionSplitResidual
<1>14. WarmPythagorasResidual(e) = 0
  <2>1. Square(perp) = W * W * imb + 2 * (W * m) * leg + m * m * W
    <3>1. Square(perp) = W * W * Square(delta) + 2 * (W * m) * Dot(delta, Warm)
                           + m * m * Square(Warm)
      BY <1>1, <1>7, SquareLinear
    <3>2. Dot(delta, Warm) = leg
      BY <1>1, <1>5, DotTyped
    <3> QED BY <1>2, <1>5, <3>1, <3>2, Zenon
  <2>2. imb * W * W - leg * leg * W
           - (W * W * imb + 2 * (W * m) * leg + m * m * W) = 0
    BY <1>6, PythagorasAlgebra
  <2> QED BY <1>2, <1>9, <2>1, <2>2, Zenon DEF WarmPythagorasResidual
<1>15. WarmthWithinDrift(e)
  <2>1. PICK g \in Int, h \in Int, k \in Int :
          g = W * A - p * p /\ h = W * B - q * q /\ k = W * D - p * q
    OBVIOUS
  <2>2. g >= 0 /\ h >= 0 /\ k * k <= g * h
    <3>1. Square(Warm) > 0
      BY <1>2
    <3>2. LET x == Square(Warm) * Square(a) - Dot(Warm, a) * Dot(Warm, a)
              y == Square(Warm) * Square(b) - Dot(Warm, b) * Dot(Warm, b)
              z == Square(Warm) * Dot(a, b) - Dot(Warm, a) * Dot(Warm, b)
          IN  x >= 0 /\ y >= 0 /\ z * z <= x * y
      BY <1>1, <3>1, PartsOffWithin
    <3> QED BY <1>2, <1>3, <2>1, <3>2
  <2>3. e.warmthSq.whole = B * p * p + A * q * q /\ e.warmthSq.root = -2 * p * q
    BY <1>2, <1>9 DEF SquaredDrift, Surd
  <2>4. W * (2 * N) - (B * p * p + A * q * q) = B * g + A * h
    BY <1>8, <2>1
  <2>5. W * (0 - 2 * D) - (-2 * p * q) = 0 - 2 * k
    BY <2>1
  <2>6. NotNegative(B * g + A * h, 0 - 2 * k, A * B)
    <3>1. g \in Nat /\ h \in Nat /\ B * g + A * h \in Int /\ 0 - 2 * k \in Int
      BY <2>2
    <3> QED BY <2>2, <3>1, WarmthAlgebra, Zenon
  <2> QED BY <1>2, <1>8, <1>10, <1>11, <2>3, <2>4, <2>5, <2>6 DEF WarmthWithinDrift
<1>16. ASSUME e.beforeSq * e.afterSq >= Unit * Unit * (Unit * Unit)
       PROVE  DriftWithinSurprise(e)
  <2>1. PICK V \in Nat, S \in Nat : V = Unit * Unit /\ S = A + B
    BY DEF FieldAssumption
  <2>2. V * V <= N
    BY <1>8, <1>11, <1>16, <2>1
  <2>3. D * D <= N
    BY <1>1, <1>2, <1>3, <1>8, DotWithinAll
  <2>4. 4 * N <= S * S
    BY <1>8, <2>1, MeansOrder
  <2>5. imb * N - V * (2 * N) = N * (S - 2 * D - 2 * V)
    <3>1. imb = S - 2 * D
      BY <1>12, <2>1
    <3> QED BY <3>1
  <2>6. - (V * (0 - 2 * D)) = 2 * (V * D)
    OBVIOUS
  <2>7. NotNegative(N * (S - 2 * D - 2 * V), 2 * (V * D), N)
    <3>1. N * (S - 2 * D - 2 * V) \in Int /\ 2 * (V * D) \in Int
      OBVIOUS
    <3> QED BY <2>2, <2>3, <2>4, <3>1, SurpriseAlgebra, Zenon
  <2> QED BY <1>9, <1>10, <1>11, <2>1, <2>5, <2>6, <2>7 DEF DriftWithinSurprise
<1> QED BY <1>13, <1>14, <1>15, <1>16

LEMMA FieldStep ==
  ASSUME FieldAssumption, FieldInv, [FieldNext]_fieldVars
  PROVE  FieldInv'
<1>1. ASSUME NEW value, AppendEvent(value) PROVE FieldInv'
  <2> SUFFICES ASSUME view' # None
               PROVE  \E before, after \in Seq(Int) : view' = Compute(before, after)
    BY DEF FieldInv
  <2>1. PICK entry : view' = FromEntry(entry)
    BY <1>1 DEF AppendEvent
  <2>2. /\ entry.before \in DOMAIN VectorOf /\ entry.after \in DOMAIN VectorOf
        /\ view' = Compute(VectorOf[entry.before], VectorOf[entry.after])
    BY <2>1 DEF FromEntry
  <2> QED BY <2>2 DEF FieldAssumption
<1>2. ASSUME NEW value \in State, AppendEvent(value) PROVE FieldInv'
  BY <1>1, <1>2
<1>3. ASSUME NEW op \in Op, RecordOp(op) PROVE FieldInv'
  BY <1>1, <1>3 DEF RecordOp
<1>4. CASE UNCHANGED fieldVars
  BY <1>4 DEF fieldVars, FieldInv
<1> QED BY <1>2, <1>3, <1>4 DEF FieldNext

\* Whatever vectors a cell's history takes it through, of any dimension and any
\* lengths, the two lenses on an edge the ledger seals agree: surprise splits
\* into magnitude drift and direction drift, and into the warm leg and what is
\* orthogonal to it, warmth is within direction drift, and direction drift is
\* within surprise where the norms multiply to 1.0 or more (field_edge.rs,
\* identities 1 to 3).
THEOREM LensesAlwaysAgree ==
  ASSUME FieldAssumption
  PROVE  FieldInit /\ [][FieldNext]_fieldVars => []LensesAgree
<1>1. FieldInit => FieldInv
  BY DEF FieldInit, FieldInv
<1>2. FieldInv /\ [FieldNext]_fieldVars => FieldInv'
  BY FieldStep
<1>3. FieldInv => LensesAgree
  <2> SUFFICES ASSUME FieldInv, view # None PROVE LensesAgree
    BY DEF LensesAgree
  <2>1. PICK b \in Seq(Int), a \in Seq(Int) : view = Compute(b, a)
    BY DEF FieldInv
  <2>2. HasView(b, a) /\ view = Some(FieldEdge(b, a))
    BY <2>1 DEF Compute
  <2>3. view[1] = FieldEdge(b, a)
    BY <2>2 DEF Some
  <2> HIDE DEF FieldInv
  <2> QED BY <2>2, <2>3, EdgeIdentities DEF LensesAgree
<1> QED BY <1>1, <1>2, <1>3, PTL
=============================================================================
