--------------------------- MODULE BindingProofs ---------------------------
(***************************************************************************)
(* Theorems about what other languages bind to: the C ABI, for any         *)
(* threads, cells, texts and number of calls, and the WebAssembly engine,  *)
(* for any sheets, readings and formula language.                          *)
(***************************************************************************)
EXTENDS CAbi, WasmEngine, Lemmas, FiniteSetTheorems

\* A ledger is a record of its fields, whatever is in them.
LedgerShape(l) ==
  /\ l \in [cell : {l.cell}, genesis : {l.genesis}, genesisTs : {l.genesisTs},
            state : {l.state}, nextSeq : {l.nextSeq}, nextTicket : {l.nextTicket},
            entries : {l.entries}, pending : {l.pending}]
  /\ IsSeq(l.entries)

\* What the table holds for a cell: a chain that verifies, scored from its
\* genesis, if it has one.
GoodBook(l) ==
  /\ LedgerShape(l)
  /\ ChainIntact(l)
  /\ l.entries = << >> => l.genesis \in {None, Some(l.state)}
  /\ l.entries # << >> => l.entries[1].expected = l.genesis

\* record appends one entry, the next one, and the book stays good.
LEMMA RecordGood ==
  ASSUME NEW l, GoodBook(l), NEW input, NEW output, NEW ts
  PROVE  LET m == RecordWith(l, input, output, ts, None)
         IN  /\ GoodBook(m)
             /\ m.entries # << >>
             /\ SealsOf(m) = SealsOf(l) \cup {ChainHash(m)}
             /\ m.genesis = l.genesis /\ m.genesisTs = l.genesisTs
<1> DEFINE e == NextEntry(l, input, ts, output, ts, None)
           E == Append(l.entries, e)
           m == RecordWith(l, input, output, ts, None)
           n == Len(l.entries)
<1>1. m = [l EXCEPT !.nextSeq = l.nextSeq + 1, !.state = output, !.entries = E]
  BY DEF RecordWith, AppendEntry
<1>2. /\ e.prev = ChainHash(l) /\ e.hash = Seal(e) /\ e.expected = Scored(l, None)
  BY DEF NextEntry, Seal, CanonicalJson
<1>3. /\ IsSeq(E) /\ Len(E) = n + 1 /\ n \in Nat /\ E[n + 1] = e
      /\ \A i \in 1..n : E[i] = l.entries[i]
      /\ (l.entries = << >>) <=> (n = 0)
      /\ (E = << >>) <=> (Len(E) = 0)
  <2> HIDE DEF e
  <2>1. IsSeq(l.entries)
    BY DEF GoodBook, LedgerShape
  <2>2. /\ IsSeq(E) /\ Len(E) = n + 1 /\ n \in Nat /\ E[n + 1] = e
        /\ \A i \in 1..n : E[i] = l.entries[i]
        /\ (l.entries = << >>) <=> (n = 0)
    BY <2>1, AppendFacts DEF IsSeq
  <2>3. (E = << >>) <=> (Len(E) = 0)
    BY <2>2, AppendFacts DEF IsSeq
  <2> QED BY <2>2, <2>3
<1> HIDE DEF e, E, m
<1>4. /\ m.entries = E /\ m.cell = l.cell /\ m.genesis = l.genesis
      /\ m.genesisTs = l.genesisTs
      /\ LedgerShape(m)
  <2>1. l \in [cell : {l.cell}, genesis : {l.genesis}, genesisTs : {l.genesisTs},
            state : {l.state}, nextSeq : {l.nextSeq}, nextTicket : {l.nextTicket},
            entries : {l.entries}, pending : {l.pending}]
    BY DEF GoodBook, LedgerShape
  <2>2. /\ m.entries = E /\ m.cell = l.cell /\ m.genesis = l.genesis
        /\ m.genesisTs = l.genesisTs /\ m.state = output /\ m.nextSeq = l.nextSeq + 1
        /\ m.nextTicket = l.nextTicket /\ m.pending = l.pending
    BY <2>1, <1>1
  <2>3. m \in [cell : {m.cell}, genesis : {m.genesis}, genesisTs : {m.genesisTs},
            state : {m.state}, nextSeq : {m.nextSeq}, nextTicket : {m.nextTicket},
            entries : {m.entries}, pending : {m.pending}]
    BY <2>1, <2>2, <1>1
  <2> QED BY <2>2, <2>3, <1>3 DEF LedgerShape
<1>5. E # << >> /\ ChainHash(m) = e.hash
  BY <1>3, <1>4 DEF ChainHash, Last
<1>6. ChainIntact(m)
  <2>1. GenesisCommit(m) = GenesisCommit(l)
    BY <1>4 DEF GenesisCommit
  <2>2. /\ ExpectedPrev(m, n + 1) = ChainHash(l)
        /\ \A i \in 1..n : ExpectedPrev(m, i) = ExpectedPrev(l, i)
    BY <1>3, <1>4, <2>1 DEF ExpectedPrev, ChainHash, Last
  <2> SUFFICES ASSUME NEW i \in 1..(n + 1) PROVE ~ BreaksAt(m, i)
    BY <1>3, <1>4 DEF ChainIntact
  <2>3. CASE i = n + 1
    BY <2>2, <2>3, <1>2, <1>3, <1>4 DEF BreaksAt
  <2>4. CASE i \in 1..n
    BY <2>2, <2>4, <1>3, <1>4 DEF GoodBook, ChainIntact, BreaksAt
  <2> QED BY <2>3, <2>4, <1>3
<1>7. SealsOf(m) = SealsOf(l) \cup {ChainHash(m)}
  <2>1. \A i \in 1..n : m.entries[i].hash = l.entries[i].hash
    BY <1>3, <1>4
  <2>2. m.entries[n + 1].hash = ChainHash(m) /\ Len(m.entries) = n + 1
    BY <1>3, <1>4, <1>5
  <2>3. 1..(n + 1) = 1..n \cup {n + 1}
    BY <1>3
  <2> QED BY <2>1, <2>2, <2>3, <1>3 DEF SealsOf
<1>8. m.entries[1].expected = m.genesis
  <2>1. CASE n = 0
    <3>1. e.expected = l.genesis
      BY <2>1, <1>2, <1>3 DEF GoodBook, Scored, IsSome, None, Some
    <3> QED BY <3>1, <2>1, <1>3, <1>4
  <2>2. CASE n # 0
    <3>1. 1 \in 1..n
      BY <2>2, <1>3
    <3> QED BY <3>1, <2>2, <1>3, <1>4 DEF GoodBook
  <2> QED BY <2>1, <2>2
<1> QED BY <1>4, <1>5, <1>6, <1>7, <1>8 DEF m, GoodBook

\* A new ledger is good, with and without a genesis.
LEMMA NewGood ==
  /\ \A id : GoodBook(NewLedger(id)) /\ NewLedger(id).entries = << >>
             /\ NewLedger(id).genesis = None
  /\ \A id, g, ts : /\ GoodBook(WithGenesis(id, g, ts))
                    /\ WithGenesis(id, g, ts).entries = << >>
                    /\ WithGenesis(id, g, ts).genesis = Some(g)
                    /\ WithGenesis(id, g, ts).genesisTs = Some(ts)
<1>1. IsSeq(<< >>) /\ Len(<< >>) = 0
  BY DEF IsSeq, ToSet
<1>2. \A id : GoodBook(NewLedger(id)) /\ NewLedger(id).entries = << >>
              /\ NewLedger(id).genesis = None
  BY <1>1 DEF GoodBook, LedgerShape, ChainIntact, NewLedger
<1>3. ASSUME NEW id, NEW g, NEW ts
      PROVE  /\ GoodBook(WithGenesis(id, g, ts))
             /\ WithGenesis(id, g, ts).entries = << >>
             /\ WithGenesis(id, g, ts).genesis = Some(g)
             /\ WithGenesis(id, g, ts).genesisTs = Some(ts)
  <2> DEFINE l == WithGenesis(id, g, ts)
             k == NewLedger(id)
             c == Some(g)
             t == Some(ts)
  <2>1. /\ l \in [cell : {id}, genesis : {c}, genesisTs : {t}, state : {g},
                  nextSeq : {1}, nextTicket : {1}, entries : {<< >>}, pending : {<< >>}]
        /\ l.cell = id /\ l.genesis = c /\ l.genesisTs = t /\ l.state = g
        /\ l.nextSeq = 1 /\ l.nextTicket = 1 /\ l.entries = << >> /\ l.pending = << >>
    <3>1. k \in [cell : {id}, genesis : {None}, genesisTs : {None}, state : {Null},
                 nextSeq : {1}, nextTicket : {1}, entries : {<< >>}, pending : {<< >>}]
      BY DEF NewLedger
    <3>2. l = [k EXCEPT !.genesis = c, !.genesisTs = t, !.state = g]
      BY DEF WithGenesis
    <3> HIDE DEF k, l, c, t
    <3> QED BY <3>1, <3>2
  <2> HIDE DEF l
  <2>2. LedgerShape(l)
    BY <1>1, <2>1 DEF LedgerShape
  <2>3. ChainIntact(l)
    BY <1>1, <2>1 DEF ChainIntact
  <2>4. l.entries = << >> /\ l.genesis = Some(l.state) /\ l.state = g /\ l.genesisTs = Some(ts)
    BY <2>1
  <2> QED BY <2>2, <2>3, <2>4 DEF l, GoodBook
<1> QED BY <1>2, <1>3

LEMMA NoSeals == ASSUME NEW l, l.entries = << >> PROVE SealsOf(l) = {}
  BY DEF SealsOf

-----------------------------------------------------------------------------
\* The table of ledgers.  What a reset leaves behind is of an earlier life, so
\* the lives of receipts and roots are never ahead of the table's.
BooksOK ==
  /\ life \in Nat
  /\ \A r \in receipts \cup roots : r.life \in 0..life
  /\ \A id \in DOMAIN books : GoodBook(books[id]) /\ SealsOf(books[id]) = ReceiptsOf(id)
  /\ \A r \in receipts : r.life = life => r.cell \in DOMAIN books
  /\ \A a \in roots :
       a.life = life => /\ a.cell \in DOMAIN books
                        /\ books[a.cell].genesis = Some(a.genesis)
                        /\ books[a.cell].genesisTs = Some(a.ts)

LEMMA BooksOKSuffices == BooksOK => ReceiptsStay
  BY DEF BooksOK, ReceiptsStay, GoodBook

LEMMA BooksOKInit == AbiInit => BooksOK
  BY DEF AbiInit, BooksOK

LEMMA InitKeepsBooks ==
  ASSUME BooksOK, NEW t \in Thread, LedgerInit(t)
  PROVE  BooksOK'
<1> DEFINE c == doing[t]
           made == WithGenesis(c.cell, c.input, c.ts)
           root == [cell |-> c.cell, genesis |-> c.input, ts |-> c.ts, life |-> life]
<1>1. CASE books' = books /\ roots' = roots
  BY <1>1 DEF LedgerInit, BooksOK, ReceiptsOf
<1>2. CASE /\ c.cell \notin DOMAIN books
           /\ books' = Inserted(books, c.cell, made)
           /\ roots' = roots \cup {root}
  <2>1. /\ receipts' = receipts /\ life' = life
        /\ DOMAIN books' = DOMAIN books \cup {c.cell}
        /\ books'[c.cell] = made
        /\ \A id \in DOMAIN books : books'[id] = books[id]
    <3> HIDE DEF made
    <3> QED BY <1>2 DEF LedgerInit, Inserted
  <2>2. /\ GoodBook(made) /\ SealsOf(made) = {}
        /\ made.genesis = Some(c.input) /\ made.genesisTs = Some(c.ts)
    BY NewGood, NoSeals
  <2> HIDE DEF made
  <2>3. \A id : ReceiptsOf(id)' = ReceiptsOf(id)
    BY <2>1 DEF ReceiptsOf
  <2>4. ReceiptsOf(c.cell) = {}
    BY <1>2 DEF BooksOK, ReceiptsOf
  <2>5. \A id \in DOMAIN books' : GoodBook(books'[id]) /\ SealsOf(books'[id]) = ReceiptsOf(id)'
    BY <2>1, <2>2, <2>3, <2>4 DEF BooksOK
  <2>6. life' \in Nat /\ \A r \in receipts' \cup roots' : r.life \in 0..life'
    BY <1>2, <2>1 DEF BooksOK
  <2>7. \A r \in receipts' : r.life = life' => r.cell \in DOMAIN books'
    BY <2>1 DEF BooksOK
  <2>8. ASSUME NEW a \in roots', a.life = life'
        PROVE  /\ a.cell \in DOMAIN books'
               /\ books'[a.cell].genesis = Some(a.genesis)
               /\ books'[a.cell].genesisTs = Some(a.ts)
    <3>1. CASE a = root
      BY <3>1, <2>1, <2>2
    <3>2. CASE a \in roots
      BY <3>2, <2>1, <2>8 DEF BooksOK
    <3> QED BY <3>1, <3>2, <1>2
  <2> QED BY <2>5, <2>6, <2>7, <2>8 DEF BooksOK
<1> QED BY <1>1, <1>2 DEF LedgerInit, MayInit

LEMMA RecordKeepsBooks ==
  ASSUME BooksOK, NEW t \in Thread, LedgerRecord(t)
  PROVE  BooksOK'
<1> DEFINE c == doing[t]
           book == BookOf(c.cell)
           next == RecordWith(book, c.input, c.output, c.ts, None)
           receipt == [cell |-> c.cell, seal |-> ChainHash(next), life |-> life]
<1>1. CASE books' = books /\ receipts' = receipts
  BY <1>1 DEF LedgerRecord, BooksOK, ReceiptsOf
<1>2. CASE /\ books' = Inserted(books, c.cell, next)
           /\ receipts' = receipts \cup {receipt}
  <2>1. /\ roots' = roots /\ life' = life
        /\ DOMAIN books' = DOMAIN books \cup {c.cell}
        /\ books'[c.cell] = next
        /\ \A id \in DOMAIN books : id # c.cell => books'[id] = books[id]
    <3> HIDE DEF next
    <3> QED BY <1>2 DEF LedgerRecord, Inserted
  <2>2. GoodBook(book) /\ SealsOf(book) = ReceiptsOf(c.cell)
    <3>1. CASE c.cell \in DOMAIN books
      BY <3>1 DEF BookOf, BooksOK
    <3>2. CASE c.cell \notin DOMAIN books
      <4>1. ReceiptsOf(c.cell) = {}
        BY <3>2 DEF BooksOK, ReceiptsOf
      <4> QED BY <3>2, <4>1, NewGood, NoSeals DEF BookOf
    <3> QED BY <3>1, <3>2
  <2>3. /\ GoodBook(next)
        /\ SealsOf(next) = SealsOf(book) \cup {receipt.seal}
        /\ next.genesis = book.genesis /\ next.genesisTs = book.genesisTs
    <3> HIDE DEF book
    <3> QED BY <2>2, RecordGood
  <2> HIDE DEF next
  <2>4. /\ \A id : id = c.cell => ReceiptsOf(id)' = ReceiptsOf(id) \cup {receipt.seal}
        /\ \A id : id # c.cell => ReceiptsOf(id)' = ReceiptsOf(id)
    <3>1. receipt.cell = c.cell /\ receipt.life = life
      OBVIOUS
    <3> HIDE DEF receipt
    <3> QED BY <1>2, <2>1, <3>1 DEF ReceiptsOf
  <2>5. \A id \in DOMAIN books' : GoodBook(books'[id]) /\ SealsOf(books'[id]) = ReceiptsOf(id)'
    <3> HIDE DEF receipt
    <3> SUFFICES ASSUME NEW id \in DOMAIN books'
                 PROVE  GoodBook(books'[id]) /\ SealsOf(books'[id]) = ReceiptsOf(id)'
      OBVIOUS
    <3>1. CASE id = c.cell
      BY <3>1, <2>1, <2>2, <2>3, <2>4
    <3>2. CASE id # c.cell
      BY <3>2, <2>1, <2>4 DEF BooksOK
    <3> QED BY <3>1, <3>2
  <2>6. life' \in Nat /\ \A r \in receipts' \cup roots' : r.life \in 0..life'
    BY <1>2, <2>1 DEF BooksOK
  <2>7. \A r \in receipts' : r.life = life' => r.cell \in DOMAIN books'
    BY <1>2, <2>1 DEF BooksOK
  <2>8. ASSUME NEW a \in roots', a.life = life'
        PROVE  /\ a.cell \in DOMAIN books'
               /\ books'[a.cell].genesis = Some(a.genesis)
               /\ books'[a.cell].genesisTs = Some(a.ts)
    <3>1. /\ a.cell \in DOMAIN books
          /\ books[a.cell].genesis = Some(a.genesis)
          /\ books[a.cell].genesisTs = Some(a.ts)
      BY <2>1, <2>8 DEF BooksOK
    <3>2. CASE a.cell = c.cell
      BY <3>1, <3>2, <2>1, <2>3 DEF BookOf
    <3>3. CASE a.cell # c.cell
      BY <3>1, <3>3, <2>1
    <3> QED BY <3>2, <3>3
  <2> QED BY <2>5, <2>6, <2>7, <2>8 DEF BooksOK
<1> QED BY <1>1, <1>2 DEF LedgerRecord

LEMMA ResetKeepsBooks ==
  ASSUME BooksOK, NEW t \in Thread, LedgersReset(t)
  PROVE  BooksOK'
<1>1. books' = << >> /\ life' = life + 1 /\ receipts' = receipts /\ roots' = roots
  BY DEF LedgersReset
<1>2. \A r \in receipts \cup roots : r.life \in 0..life' /\ r.life # life'
  BY <1>1 DEF BooksOK
<1> QED BY <1>1, <1>2 DEF BooksOK

\* Every other step leaves the table and its history alone.
LEMMA OthersKeepBooks ==
  ASSUME BooksOK, UNCHANGED << books, receipts, roots, life >>
  PROVE  BooksOK'
  BY DEF BooksOK, ReceiptsOf

\* The callers' records are what the table holds: ReceiptsStay.
THEOREM TableIsTheRecords == AbiSpec => []ReceiptsStay
<1>1. BooksOK /\ [AbiNext]_abiVars => BooksOK'
  <2> SUFFICES ASSUME BooksOK, [AbiNext]_abiVars PROVE BooksOK'
    OBVIOUS
  <2>1. CASE UNCHANGED abiVars
    BY <2>1, OthersKeepBooks DEF abiVars
  <2>2. ASSUME NEW t \in Thread, Work(t) PROVE BooksOK'
    <3>1. CASE LedgerInit(t)
      BY <3>1, InitKeepsBooks
    <3>2. CASE LedgerRecord(t)
      BY <3>2, RecordKeepsBooks
    <3>3. CASE LedgersReset(t)
      BY <3>3, ResetKeepsBooks
    <3>4. CASE LedgerRead(t) \/ StringFree(t)
      BY <3>4, OthersKeepBooks DEF LedgerRead, StringFree
    <3>5. CASE EngineNew(t) \/ EngineFree(t) \/ EngineLoadSheet(t) \/ EngineGet(t) \/ EngineSet(t)
      BY <3>5, OthersKeepBooks
         DEF EngineNew, EngineFree, EngineLoadSheet, EngineGet, EngineSet
    <3> QED BY <2>2, <3>1, <3>2, <3>3, <3>4, <3>5 DEF Work
  <2>3. ASSUME NEW t \in Thread, NEW req, Enter(t, req) PROVE BooksOK'
    BY <2>3, OthersKeepBooks DEF Enter
  <2>4. ASSUME NEW t \in Thread, Return(t) PROVE BooksOK'
    BY <2>4, OthersKeepBooks DEF Return
  <2> QED BY <2>1, <2>2, <2>3, <2>4 DEF AbiNext
<1> QED BY <1>1, BooksOKInit, BooksOKSuffices, PTL DEF AbiSpec

-----------------------------------------------------------------------------
\* The errors.  A call holds its error back until it returns, and its thread
\* has none until then.
ErrorsOK ==
  /\ doing = [u \in Thread |-> doing[u]]
  /\ lastError = [u \in Thread |-> lastError[u]]
  /\ returned = [u \in Thread |-> returned[u]]
  /\ \A u \in Thread :
       /\ doing[u] = [k \in DOMAIN doing[u] |-> doing[u][k]]
       /\ "stage" \in DOMAIN doing[u]
       /\ IF doing[u].stage = "out" THEN lastError[u] = returned[u].error
                                   ELSE lastError[u] = NoError

LEMMA ErrorsOKInit == AbiInit => ErrorsOK
  BY DEF AbiInit, ErrorsOK, Idle, Success

LEMMA EnterKeepsErrors ==
  ASSUME ErrorsOK, NEW t \in Thread, NEW req, Enter(t, req)
  PROVE  ErrorsOK'
<1> DEFINE call == Inserted(req, "stage", "in")
<1>1. /\ call = [k \in DOMAIN call |-> call[k]]
      /\ "stage" \in DOMAIN call /\ call.stage = "in"
  BY DEF Inserted
<1> HIDE DEF call
<1> QED BY <1>1 DEF Enter, ErrorsOK, ClearErr, call

LEMMA AnswerKeepsErrors ==
  ASSUME ErrorsOK, NEW t \in Thread, NEW result, doing[t].stage = "in", Answer(t, result)
  PROVE  ErrorsOK'
<1> DEFINE call == [doing[t] EXCEPT !.stage = "done"]
<1>1. /\ call = [k \in DOMAIN call |-> call[k]]
      /\ "stage" \in DOMAIN call /\ call.stage = "done"
  BY DEF ErrorsOK
<1>2. /\ doing' = [doing EXCEPT ![t] = call]
      /\ returned' = [returned EXCEPT ![t] = result]
      /\ lastError' = lastError
  BY DEF Answer
<1> HIDE DEF call
<1>3. /\ doing' = [u \in Thread |-> doing'[u]]
      /\ returned' = [u \in Thread |-> returned'[u]]
      /\ doing'[t] = call
      /\ \A u \in Thread \ {t} : doing'[u] = doing[u] /\ returned'[u] = returned[u]
  BY <1>2 DEF ErrorsOK
<1>4. ASSUME NEW u \in Thread
      PROVE  /\ doing'[u] = [k \in DOMAIN doing'[u] |-> doing'[u][k]]
             /\ "stage" \in DOMAIN doing'[u]
             /\ IF doing'[u].stage = "out" THEN lastError'[u] = returned'[u].error
                                          ELSE lastError'[u] = NoError
  <2>1. CASE u = t
    BY <2>1, <1>1, <1>2, <1>3 DEF ErrorsOK
  <2>2. CASE u # t
    <3>1. doing'[u] = doing[u] /\ returned'[u] = returned[u] /\ lastError'[u] = lastError[u]
      BY <2>2, <1>2, <1>3
    <3>2. /\ doing[u] = [k \in DOMAIN doing[u] |-> doing[u][k]]
          /\ "stage" \in DOMAIN doing[u]
          /\ IF doing[u].stage = "out" THEN lastError[u] = returned[u].error
                                      ELSE lastError[u] = NoError
      BY DEF ErrorsOK
    <3> QED BY <3>1, <3>2
  <2> QED BY <2>1, <2>2
<1> QED BY <1>2, <1>3, <1>4 DEF ErrorsOK

LEMMA ReturnKeepsErrors ==
  ASSUME ErrorsOK, NEW t \in Thread, Return(t)
  PROVE  ErrorsOK'
<1>1. Idle = [k \in DOMAIN Idle |-> Idle[k]] /\ "stage" \in DOMAIN Idle /\ Idle.stage = "out"
  BY DEF Idle
<1>2. doing[t].stage # "out"
  BY DEF Return
<1> QED BY <1>1, <1>2 DEF Return, ErrorsOK

\* Each thread reads the error of its own last call: LastErrorIsOwn.
THEOREM LastErrorAlwaysOwn == AbiSpec => []LastErrorIsOwn
<1>1. ErrorsOK => LastErrorIsOwn
  BY DEF ErrorsOK, LastErrorIsOwn
<1>2. ErrorsOK /\ [AbiNext]_abiVars => ErrorsOK'
  <2> SUFFICES ASSUME ErrorsOK, [AbiNext]_abiVars PROVE ErrorsOK'
    OBVIOUS
  <2>1. CASE UNCHANGED abiVars
    BY <2>1 DEF abiVars, ErrorsOK
  <2>2. ASSUME NEW t \in Thread, Work(t) PROVE ErrorsOK'
    <3>1. \E result : Answer(t, result)
      BY <2>2 DEF Work, LedgerInit, LedgerRecord, LedgerRead, LedgersReset, StringFree,
                  EngineNew, EngineFree, EngineLoadSheet, EngineGet, EngineSet
    <3>2. doing[t].stage = "in"
      BY <2>2 DEF Work, Working, LedgerInit, LedgerRecord, LedgerRead, LedgersReset,
                  StringFree, EngineNew, EngineFree, EngineLoadSheet, EngineGet, EngineSet
    <3> QED BY <3>1, <3>2, AnswerKeepsErrors
  <2>3. ASSUME NEW t \in Thread, NEW req, Enter(t, req) PROVE ErrorsOK'
    BY <2>3, EnterKeepsErrors
  <2>4. ASSUME NEW t \in Thread, Return(t) PROVE ErrorsOK'
    BY <2>4, ReturnKeepsErrors
  <2> QED BY <2>1, <2>2, <2>3, <2>4 DEF AbiNext
<1> QED BY <1>1, <1>2, ErrorsOKInit, PTL DEF AbiSpec

-----------------------------------------------------------------------------
(***************************************************************************)
(* The WebAssembly engine.                                                 *)
(***************************************************************************)

\* Every formula is kept compiled, from the text that is now in its cell.
EngineOK(e) ==
  /\ e = [cells |-> e.cells, pushed |-> e.pushed, formulas |-> e.formulas]
  /\ IsFiniteSet(DOMAIN e.cells)
  /\ \A id \in DOMAIN e.cells :
       /\ e.cells[id].id = id /\ e.cells[id].kind \in {"value", "sensor", "formula"}
       /\ e.cells[id].kind = "formula" =>
            id \in DOMAIN e.formulas /\ e.formulas[id] = Compiler(e.cells[id].expr).expr

WasmInv == EngineOK(Engine)

\* A definition that replaces another takes its formula along.
LEMMA AddedOK ==
  ASSUME NEW e, EngineOK(e), NEW def, def.kind \in {"value", "sensor", "formula"}
  PROVE  EngineOK(Added(e, def))
<1> DEFINE cells == Put(e.cells, def.id, def)
           kept  == IF def.kind = "formula"
                    THEN Put(e.formulas, def.id, Compiler(def.expr).expr) ELSE e.formulas
           new   == Added(e, def)
<1>1. new = [cells |-> cells, pushed |-> e.pushed, formulas |-> kept]
  <2>1. e = [cells |-> e.cells, pushed |-> e.pushed, formulas |-> e.formulas]
    BY DEF EngineOK
  <2>2. new = [e EXCEPT !.cells = cells, !.formulas = kept]
    BY DEF Added
  <2> HIDE DEF new, cells, kept
  <2> QED BY <2>1, <2>2
<1> HIDE DEF new
<1>2. new.cells = cells /\ new.pushed = e.pushed /\ new.formulas = kept
  BY <1>1
<1>3. /\ DOMAIN cells = DOMAIN e.cells \cup {def.id} /\ cells[def.id] = def
      /\ \A x \in DOMAIN e.cells : x # def.id => cells[x] = e.cells[x]
  BY DEF Put
<1>4. /\ def.kind = "formula" => /\ kept[def.id] = Compiler(def.expr).expr
                                 /\ def.id \in DOMAIN kept
      /\ \A x \in DOMAIN e.formulas : /\ x \in DOMAIN kept
                                      /\ x # def.id => kept[x] = e.formulas[x]
  BY DEF Put
<1> HIDE DEF cells, kept
<1>5. IsFiniteSet(DOMAIN cells)
  BY <1>3, FS_AddElement DEF EngineOK
<1>6. ASSUME NEW id \in DOMAIN cells
      PROVE  /\ cells[id].id = id /\ cells[id].kind \in {"value", "sensor", "formula"}
             /\ cells[id].kind = "formula" =>
                  id \in DOMAIN kept /\ kept[id] = Compiler(cells[id].expr).expr
  <2>1. CASE id = def.id
    BY <2>1, <1>3, <1>4
  <2>2. CASE id # def.id
    BY <2>2, <1>3, <1>4 DEF EngineOK
  <2> QED BY <2>1, <2>2
<1> QED BY <1>1, <1>2, <1>5, <1>6 DEF EngineOK, new

\* made holds the engine after each of the first n definitions of a sheet.
Makes(sheet, n, made) ==
  made = [k \in 0..n |-> IF k = 0 THEN NewEngine ELSE Added(made[k - 1], sheet[k])]

LEMMA MakesExist ==
  ASSUME NEW sheet, NEW n \in Nat
  PROVE  \E made : Makes(sheet, n, made)
<1> DEFINE S == {m \in Nat : \E made : Makes(sheet, m, made)}
<1>1. 0 \in S
  <2> DEFINE g == [k \in 0..0 |-> NewEngine]
  <2>1. g = [k \in 0..0 |-> IF k = 0 THEN NewEngine ELSE Added(g[k - 1], sheet[k])]
    OBVIOUS
  <2> QED BY <2>1 DEF Makes
<1>2. ASSUME NEW m \in S PROVE m + 1 \in S
  <2>1. PICK g : Makes(sheet, m, g)
    OBVIOUS
  <2> DEFINE last == Added(g[m], sheet[m + 1])
             h == [k \in 0..(m + 1) |-> IF k = m + 1 THEN last ELSE g[k]]
  <2>2. ASSUME NEW k \in 0..(m + 1)
        PROVE  h[k] = IF k = 0 THEN NewEngine ELSE Added(h[k - 1], sheet[k])
    <3>1. CASE k = m + 1
      <4>1. k \in 0..(m + 1) /\ k # 0 /\ k - 1 = m /\ m \in 0..(m + 1) /\ m # m + 1
        BY <3>1
      <4>2. h[k] = last /\ h[k - 1] = g[m]
        BY <3>1, <4>1
      <4> QED BY <3>1, <4>1, <4>2
    <3>2. CASE k # m + 1
      <4>1. k \in 0..m /\ h[k] = g[k] /\ (k # 0 => h[k - 1] = g[k - 1])
        BY <3>2
      <4> HIDE DEF h
      <4>2. g[k] = IF k = 0 THEN NewEngine ELSE Added(g[k - 1], sheet[k])
        BY <2>1, <4>1 DEF Makes
      <4> QED BY <4>1, <4>2
    <3> QED BY <3>1, <3>2
  <2>3. h = [k \in 0..(m + 1) |-> IF k = 0 THEN NewEngine ELSE Added(h[k - 1], sheet[k])]
    <3>1. h = [k \in 0..(m + 1) |-> h[k]]
      OBVIOUS
    <3> HIDE DEF h
    <3> QED BY <2>2, <3>1
  <2>4. Makes(sheet, m + 1, h)
    <3> HIDE DEF h
    <3> QED BY <2>3 DEF Makes
  <2> QED BY <2>4
<1> HIDE DEF S
<1>3. S = Nat
  <2>1. S \in SUBSET Nat
    BY DEF S
  <2> QED BY <1>1, <1>2, <2>1, Induct
<1> QED BY <1>3 DEF S

\* A sheet makes an engine like any other.
LEMMA FromSheetOK ==
  ASSUME NEW sheet \in Sheets
  PROVE  EngineOK(FromSheet(sheet))
<1> DEFINE N    == Len(sheet)
           made == CHOOSE made : Makes(sheet, N, made)
<1>1. N \in Nat /\ \A n \in 1..N : sheet[n].kind \in {"value", "sensor", "formula"}
  <2>1. sheet \in Seq(ToSet(sheet)) /\ \A def \in ToSet(sheet) : def.kind \in {"value", "sensor", "formula"}
    BY WasmAssumption DEF WasmAssumption
  <2> QED BY <2>1
<1>2. Makes(sheet, N, made)
  BY <1>1, MakesExist
<1>3. FromSheet(sheet) = made[N]
  BY DEF FromSheet, Makes
<1> HIDE DEF made, N
<1>4. made[0] = NewEngine /\ \A n \in 1..N : made[n] = Added(made[n - 1], sheet[n])
  BY <1>1, <1>2 DEF Makes
<1>5. EngineOK(NewEngine)
  <2>1. NewEngine.cells = << >> /\ DOMAIN NewEngine.cells = {}
    BY DEF NewEngine
  <2>2. NewEngine = [cells |-> NewEngine.cells, pushed |-> NewEngine.pushed,
                     formulas |-> NewEngine.formulas]
    BY DEF NewEngine
  <2> QED BY <2>1, <2>2, FS_EmptySet DEF EngineOK
<1>6. ASSUME NEW e, EngineOK(e), NEW n \in 1..N PROVE EngineOK(Added(e, sheet[n]))
  BY <1>1, <1>6, AddedOK
<1> DEFINE S == {n \in Nat : n <= N => EngineOK(made[n])}
<1>7. 0 \in S
  BY <1>4, <1>5
<1>8. ASSUME NEW n \in S PROVE n + 1 \in S
  <2> SUFFICES ASSUME n + 1 <= N PROVE EngineOK(made[n + 1])
    OBVIOUS
  <2>1. EngineOK(made[n]) /\ n + 1 \in 1..N /\ (n + 1) - 1 = n
    BY <1>1
  <2>2. made[n + 1] = Added(made[n], sheet[n + 1])
    BY <1>4, <2>1
  <2> QED BY <1>6, <2>1, <2>2
<1> HIDE DEF S
<1>9. S = Nat
  <2>1. S \in SUBSET Nat
    BY DEF S
  <2> QED BY <1>7, <1>8, <2>1, Induct
<1>10. EngineOK(made[N])
  BY <1>1, <1>9 DEF S
<1> QED BY <1>3, <1>10

\* Pushing and adding keep the engine as it should be.
LEMMA WasmInductive ==
  WasmSpec => []WasmInv
<1>1. WasmInit => WasmInv
  <2> SUFFICES ASSUME WasmInit PROVE WasmInv
    OBVIOUS
  <2>1. Engine.cells = << >> /\ DOMAIN Engine.cells = {}
    BY DEF Engine, WasmInit
  <2>2. Engine = [cells |-> Engine.cells, pushed |-> Engine.pushed,
                  formulas |-> Engine.formulas]
    BY DEF Engine
  <2> QED BY <2>1, <2>2, FS_EmptySet DEF EngineOK, WasmInv
<1>2. WasmInv /\ [WasmNext]_wasmVars => WasmInv'
  <2> SUFFICES ASSUME WasmInv, [WasmNext]_wasmVars PROVE WasmInv'
    OBVIOUS
  <2>1. ASSUME NEW e, EngineOK(e), BecomeEngine(e) PROVE WasmInv'
    <3>1. Engine' = [cells |-> e.cells, pushed |-> e.pushed, formulas |-> e.formulas]
      BY <2>1 DEF Engine, BecomeEngine
    <3>2. Engine' = e
      BY <2>1, <3>1 DEF EngineOK
    <3> QED BY <2>1, <3>2 DEF WasmInv
  <2>2. ASSUME NEW def, def.kind \in {"value", "sensor", "formula"}, AddCell(def)
        PROVE  WasmInv'
    <3>1. EngineOK(Added(Engine, def))
      BY <2>2, AddedOK DEF WasmInv
    <3> QED BY <2>1, <2>2, <3>1 DEF AddCell
  <2>3. ASSUME NEW sheet \in Sheets, LoadSheet(sheet) PROVE WasmInv'
    BY <2>1, <2>3, FromSheetOK DEF LoadSheet
  <2>4. ASSUME NEW id, NEW v, Push(id, v) PROVE WasmInv'
    <3>1. defs' = defs /\ formulas' = formulas
      BY <2>4 DEF Push
    <3>2. /\ Engine.cells = defs /\ Engine.formulas = formulas
          /\ (Engine').cells = defs' /\ (Engine').formulas = formulas'
          /\ Engine' = [cells |-> (Engine').cells, pushed |-> (Engine').pushed,
                        formulas |-> (Engine').formulas]
      BY DEF Engine
    <3> QED BY <3>1, <3>2 DEF WasmInv, EngineOK
  <2>5. CASE UNCHANGED wasmVars
    BY <2>5 DEF wasmVars, WasmInv, Engine
  <2>6. \A id, v, t, d : /\ ValueDef(id, v).kind = "value" /\ SensorDef(id, v).kind = "sensor"
                         /\ FormulaDef(id, t, d).kind = "formula"
    BY DEF ValueDef, SensorDef, FormulaDef
  <2> QED BY <2>2, <2>3, <2>4, <2>5, <2>6 DEF WasmNext
<1> QED BY <1>1, <1>2, PTL DEF WasmSpec

-----------------------------------------------------------------------------
\* The rounds of the reference.

\* What has settled stays settled, at the same worth.
Extends(u, v) ==
  /\ DOMAIN u \subseteq DOMAIN v /\ DOMAIN v \subseteq DOMAIN defs
  /\ \A id \in DOMAIN u : v[id] = u[id]

LEMMA RoundFacts ==
  ASSUME NEW u
  PROVE  /\ DOMAIN Round(u) = {id \in DOMAIN defs : Settles(u, id)}
         /\ \A id \in DOMAIN Round(u) : Round(u)[id] = WorthNow(u, id)
         /\ Round(u) = [id \in DOMAIN Round(u) |-> Round(u)[id]]
BY DEF Round

LEMMA RoundMonotone ==
  ASSUME NEW u, NEW v, Extends(u, v),
         \A id \in DOMAIN defs : defs[id].kind \in {"value", "sensor", "formula"}
  PROVE  Extends(Round(u), Round(v))
<1>1. ASSUME NEW id \in DOMAIN defs, Settles(u, id)
      PROVE  Settles(v, id) /\ WorthNow(v, id) = WorthNow(u, id)
  <2>1. CASE defs[id].kind # "formula"
    BY <2>1 DEF Settles, WorthNow
  <2>2. CASE defs[id].kind = "formula" /\ Fails(u, id)
    <3>1. Fails(v, id)
      BY <2>2 DEF Fails, Extends
    <3> QED BY <2>2, <3>1 DEF Settles, WorthNow
  <2>3. CASE defs[id].kind = "formula" /\ ~ Fails(u, id)
    <3>1. OperandsOf(id) \subseteq DOMAIN u
      BY <1>1, <2>3 DEF Settles
    <3>2. ~ Fails(v, id)
      BY <2>3, <3>1 DEF Fails, Extends
    <3>3. [d \in OperandsOf(id) |-> v[d]] = [d \in OperandsOf(id) |-> u[d]]
      BY <3>1 DEF Extends
    <3>4. OperandsOf(id) \subseteq DOMAIN v
      BY <3>1 DEF Extends
    <3> QED BY <2>3, <3>2, <3>3, <3>4 DEF Settles, WorthNow
  <2> QED BY <2>1, <2>2, <2>3
<1>2. /\ DOMAIN Round(u) = {id \in DOMAIN defs : Settles(u, id)}
      /\ DOMAIN Round(v) = {id \in DOMAIN defs : Settles(v, id)}
      /\ \A id \in DOMAIN Round(u) : Round(u)[id] = WorthNow(u, id)
      /\ \A id \in DOMAIN Round(v) : Round(v)[id] = WorthNow(v, id)
  BY RoundFacts
<1> QED BY <1>1, <1>2 DEF Extends

\* w holds what is settled after each of the first n rounds.
Rounds(n, w) == w = [k \in 0..n |-> IF k = 0 THEN << >> ELSE Round(w[k - 1])]

LEMMA RoundsExist ==
  ASSUME NEW n \in Nat
  PROVE  \E w : Rounds(n, w)
<1> DEFINE S == {m \in Nat : \E w : Rounds(m, w)}
<1>1. 0 \in S
  <2> DEFINE g == [k \in 0..0 |-> << >>]
  <2>1. g = [k \in 0..0 |-> IF k = 0 THEN << >> ELSE Round(g[k - 1])]
    OBVIOUS
  <2> QED BY <2>1 DEF Rounds
<1>2. ASSUME NEW m \in S PROVE m + 1 \in S
  <2>1. PICK g : Rounds(m, g)
    OBVIOUS
  <2> DEFINE last == Round(g[m])
             h == [k \in 0..(m + 1) |-> IF k = m + 1 THEN last ELSE g[k]]
  <2>2. ASSUME NEW k \in 0..(m + 1)
        PROVE  h[k] = IF k = 0 THEN << >> ELSE Round(h[k - 1])
    <3>1. CASE k = m + 1
      <4>1. k \in 0..(m + 1) /\ k # 0 /\ k - 1 = m /\ m \in 0..(m + 1) /\ m # m + 1
        BY <3>1
      <4>2. h[k] = last /\ h[k - 1] = g[m]
        BY <3>1, <4>1
      <4> QED BY <3>1, <4>1, <4>2
    <3>2. CASE k # m + 1
      <4>1. k \in 0..m /\ h[k] = g[k] /\ (k # 0 => h[k - 1] = g[k - 1])
        BY <3>2
      <4> HIDE DEF h
      <4>2. g[k] = IF k = 0 THEN << >> ELSE Round(g[k - 1])
        BY <2>1, <4>1 DEF Rounds
      <4> QED BY <4>1, <4>2
    <3> QED BY <3>1, <3>2
  <2>3. h = [k \in 0..(m + 1) |-> IF k = 0 THEN << >> ELSE Round(h[k - 1])]
    <3>1. h = [k \in 0..(m + 1) |-> h[k]]
      OBVIOUS
    <3> HIDE DEF h
    <3> QED BY <2>2, <3>1
  <2>4. Rounds(m + 1, h)
    <3> HIDE DEF h
    <3> QED BY <2>3 DEF Rounds
  <2> QED BY <2>4
<1> HIDE DEF S
<1>3. S = Nat
  <2>1. S \in SUBSET Nat
    BY DEF S
  <2> QED BY <1>1, <1>2, <2>1, Induct
<1> QED BY <1>3 DEF S

\* After as many rounds as there are cells one more settles nothing: until
\* then each round settles one cell or more.
LEMMA WorthIsLast ==
  ASSUME WasmInv
  PROVE  \E w, N : /\ N \in Nat /\ w[0] = << >> /\ w[N] = Worth
                   /\ \A n \in 1..N : w[n] = Round(w[n - 1])
                   /\ \A n \in 0..N : Extends(w[n], Round(w[n]))
                   /\ DOMAIN Round(Worth) = DOMAIN Worth
<1> DEFINE D == DOMAIN defs
           N == Cardinality(D)
           w == CHOOSE w : Rounds(N, w)
<1>1. /\ IsFiniteSet(D) /\ N \in Nat
      /\ \A id \in D : defs[id].kind \in {"value", "sensor", "formula"}
  BY FS_CardinalityType DEF WasmInv, EngineOK, Engine
<1>2. Rounds(N, w)
  BY <1>1, RoundsExist
<1>3. Worth = w[N]
  BY DEF Worth, Rounds
<1> HIDE DEF w, N
<1>4. w[0] = << >> /\ \A n \in 1..N : w[n] = Round(w[n - 1])
  BY <1>1, <1>2 DEF Rounds
<1>5. \A n \in 0..N : Extends(w[n], Round(w[n]))
  <2> DEFINE S == {n \in Nat : n <= N => Extends(w[n], Round(w[n]))}
  <2>1. 0 \in S
    <3>1. DOMAIN w[0] = {}
      BY <1>4
    <3>2. DOMAIN Round(w[0]) \subseteq DOMAIN defs
      BY RoundFacts
    <3> QED BY <3>1, <3>2 DEF Extends
  <2>2. ASSUME NEW n \in S PROVE n + 1 \in S
    <3> SUFFICES ASSUME n + 1 <= N PROVE Extends(w[n + 1], Round(w[n + 1]))
      OBVIOUS
    <3>1. Extends(w[n], Round(w[n])) /\ n + 1 \in 1..N /\ (n + 1) - 1 = n
      BY <1>1
    <3>2. w[n + 1] = Round(w[n])
      BY <1>4, <3>1
    <3> QED BY <1>1, <3>1, <3>2, RoundMonotone
  <2> HIDE DEF S
  <2>3. S = Nat
    <3>1. S \in SUBSET Nat
      BY DEF S
    <3> QED BY <2>1, <2>2, <3>1, Induct
  <2> QED BY <1>1, <2>3 DEF S
<1>6. \A n \in 0..N : DOMAIN w[n] \subseteq D /\ DOMAIN w[n] \subseteq DOMAIN Round(w[n])
                      /\ DOMAIN Round(w[n]) \subseteq D
  BY <1>5 DEF Extends
<1> DEFINE Over(n) == DOMAIN Round(w[n]) = DOMAIN w[n]
           S == {n \in Nat : n <= N => Over(n) \/ Cardinality(DOMAIN w[n]) >= n}
<1>8. 0 \in S
  <2>1. DOMAIN w[0] = {}
    BY <1>4
  <2> QED BY <2>1, FS_EmptySet
<1>9. ASSUME NEW n \in S PROVE n + 1 \in S
  <2> SUFFICES ASSUME n + 1 <= N PROVE Over(n + 1) \/ Cardinality(DOMAIN w[n + 1]) >= n + 1
    OBVIOUS
  <2>1. n \in 0..N /\ n + 1 \in 1..N /\ n + 1 \in 0..N /\ w[n + 1] = Round(w[n])
    <3>1. n \in 0..N /\ n + 1 \in 1..N /\ n + 1 \in 0..N /\ (n + 1) - 1 = n
      BY <1>1
    <3> QED BY <1>4, <3>1
  <2>2. CASE Over(n)
    <3>1. Extends(w[n + 1], w[n])
      <4>1. DOMAIN w[n + 1] = DOMAIN w[n]
        BY <2>1, <2>2
      <4>2. Extends(w[n], w[n + 1])
        BY <1>5, <2>1
      <4> QED BY <4>1, <4>2 DEF Extends
    <3>2. Extends(Round(w[n + 1]), Round(w[n]))
      BY <1>1, <3>1, RoundMonotone
    <3>3. DOMAIN Round(w[n + 1]) \subseteq DOMAIN w[n + 1]
      BY <2>1, <3>2 DEF Extends
    <3> QED BY <1>6, <2>1, <3>3
  <2>3. CASE ~ Over(n)
    <3>1. Cardinality(DOMAIN w[n]) >= n
      BY <1>1, <2>1, <2>3 DEF S
    <3>2. /\ DOMAIN w[n] \subseteq DOMAIN w[n + 1] /\ DOMAIN w[n] # DOMAIN w[n + 1]
          /\ DOMAIN w[n + 1] \subseteq D
      BY <1>6, <2>1, <2>3
    <3>3. IsFiniteSet(DOMAIN w[n + 1]) /\ Cardinality(DOMAIN w[n + 1]) \in Nat
      BY <1>1, <3>2, FS_Subset, FS_CardinalityType
    <3>4. Cardinality(DOMAIN w[n]) # Cardinality(DOMAIN w[n + 1])
          /\ Cardinality(DOMAIN w[n]) <= Cardinality(DOMAIN w[n + 1])
          /\ Cardinality(DOMAIN w[n]) \in Nat
      BY <3>2, <3>3, FS_Subset, FS_CardinalityType
    <3> QED BY <3>1, <3>3, <3>4
  <2> QED BY <2>2, <2>3
<1>10. Over(N)
  <2>1. S = Nat
    <3> HIDE DEF S
    <3>1. S \in SUBSET Nat
      BY DEF S
    <3> QED BY <1>8, <1>9, <3>1, Induct
  <2>2. CASE Cardinality(DOMAIN w[N]) >= N
    <3>1. DOMAIN w[N] \subseteq D /\ N \in 0..N
      BY <1>1, <1>6
    <3>2. /\ Cardinality(DOMAIN w[N]) <= N /\ Cardinality(DOMAIN w[N]) \in Nat
          /\ N = Cardinality(DOMAIN w[N]) => D = DOMAIN w[N]
      <4>1. IsFiniteSet(DOMAIN w[N]) /\ Cardinality(DOMAIN w[N]) <= Cardinality(D)
            /\ (Cardinality(D) = Cardinality(DOMAIN w[N]) => D = DOMAIN w[N])
        BY <1>1, <3>1, FS_Subset
      <4> QED BY <4>1, FS_CardinalityType DEF N
    <3>3. DOMAIN w[N] = D
      BY <1>1, <2>2, <3>2
    <3> QED BY <1>6, <3>1, <3>3
  <2> QED BY <1>1, <2>1, <2>2
<1>11. Worth = w[N] /\ DOMAIN Round(Worth) = DOMAIN Worth
  BY <1>3, <1>10
<1> HIDE DEF S, Over, D
<1> QED BY <1>1, <1>4, <1>5, <1>11

-----------------------------------------------------------------------------
\* get_inner answers whatever is on the way: each call has one cell more
\* behind it, and there are finitely many.
InnerStep(e, g, visited) ==
  [d \in DOMAIN e.cells |->
    IF d \in visited THEN Error ELSE Computed(e, d, g[visited \cup {d}])]

IsInner(e, g) == g = [visited \in SUBSET DOMAIN e.cells |-> InnerStep(e, g, visited)]

LEMMA OneMoreVisited ==
  ASSUME NEW D, IsFiniteSet(D), NEW V \in SUBSET D, NEW d \in D, d \notin V
  PROVE  /\ V \cup {d} \in SUBSET D
         /\ Cardinality(D \ V) \in Nat
         /\ Cardinality(D \ (V \cup {d})) = Cardinality(D \ V) - 1
<1>1. IsFiniteSet(D \ V) /\ D \ (V \cup {d}) = (D \ V) \ {d} /\ d \in D \ V
  BY FS_Difference
<1>2. Cardinality(D \ V) \in Nat /\ Cardinality((D \ V) \ {d}) = Cardinality(D \ V) - 1
  BY <1>1, FS_RemoveElement, FS_CardinalityType
<1> QED BY <1>1, <1>2

LEMMA InnerExists ==
  ASSUME NEW e, IsFiniteSet(DOMAIN e.cells)
  PROVE  \E g : IsInner(e, g)
<1> DEFINE D == DOMAIN e.cells
           Good(g, n) == /\ g = [V \in SUBSET D |-> g[V]]
                         /\ \A V \in SUBSET D :
                              Cardinality(D \ V) <= n => g[V] = InnerStep(e, g, V)
           S == {n \in Nat : \E g : Good(g, n)}
<1>1. 0 \in S
  <2> DEFINE g == [V \in SUBSET D |-> [d \in D |-> Error]]
  <2>1. ASSUME NEW V \in SUBSET D, Cardinality(D \ V) <= 0
        PROVE  g[V] = InnerStep(e, g, V)
    <3>1. IsFiniteSet(D \ V) /\ Cardinality(D \ V) \in Nat
      BY FS_Difference, FS_CardinalityType
    <3>2. Cardinality(D \ V) = 0
      BY <2>1, <3>1
    <3>3. D \ V = {}
      BY <3>1, <3>2, FS_EmptySet
    <3>4. \A d \in D : d \in V
      BY <3>3
    <3>5. InnerStep(e, g, V) = [d \in D |-> Error]
      BY <3>4 DEF InnerStep
    <3> QED BY <3>5
  <2>2. g = [V \in SUBSET D |-> g[V]]
    OBVIOUS
  <2> HIDE DEF g, D
  <2>3. Good(g, 0)
    BY <2>1, <2>2
  <2> QED BY <2>3
<1>2. ASSUME NEW n \in S PROVE n + 1 \in S
  <2>1. PICK g : Good(g, n)
    OBVIOUS
  <2> DEFINE h == [V \in SUBSET D |-> InnerStep(e, g, V)]
  <2>2. ASSUME NEW V \in SUBSET D, Cardinality(D \ V) <= n + 1
        PROVE  h[V] = InnerStep(e, h, V)
    <3>1. ASSUME NEW d \in D, d \notin V
          PROVE  g[V \cup {d}] = h[V \cup {d}]
      <4>1. /\ V \cup {d} \in SUBSET D /\ Cardinality(D \ V) \in Nat
            /\ Cardinality(D \ (V \cup {d})) = Cardinality(D \ V) - 1
        BY <3>1, OneMoreVisited
      <4>2. Cardinality(D \ (V \cup {d})) <= n
        BY <2>2, <4>1
      <4>3. g[V \cup {d}] = InnerStep(e, g, V \cup {d})
        BY <2>1, <4>1, <4>2
      <4> QED BY <4>1, <4>3
    <3>2. h[V] = InnerStep(e, g, V)
      OBVIOUS
    <3> HIDE DEF h
    <3>3. InnerStep(e, g, V) = InnerStep(e, h, V)
      BY <3>1 DEF InnerStep
    <3> QED BY <3>2, <3>3
  <2>3. h = [V \in SUBSET D |-> h[V]]
    OBVIOUS
  <2> HIDE DEF h, D
  <2>4. Good(h, n + 1)
    BY <2>2, <2>3
  <2>5. n + 1 \in Nat
    OBVIOUS
  <2> HIDE DEF Good
  <2> QED BY <2>4, <2>5
<1> HIDE DEF S
<1>3. S = Nat
  <2>1. S \in SUBSET Nat
    BY DEF S
  <2> QED BY <1>1, <1>2, <2>1, Induct
<1>4. Cardinality(D) \in Nat
  BY FS_CardinalityType
<1>5. PICK g : Good(g, Cardinality(D))
  BY <1>3, <1>4 DEF S
<1>6. ASSUME NEW V \in SUBSET D PROVE g[V] = InnerStep(e, g, V)
  <2>1. D \ V \in SUBSET D
    OBVIOUS
  <2>2. Cardinality(D \ V) <= Cardinality(D)
    BY <2>1, FS_Subset
  <2> QED BY <1>5, <2>2
<1>7. g = [V \in SUBSET D |-> InnerStep(e, g, V)]
  <2>1. g = [V \in SUBSET D |-> g[V]]
    BY <1>5
  <2> HIDE DEF Good
  <2> QED BY <1>6, <2>1
<1> QED BY <1>7 DEF IsInner

\* g answers every call get_inner makes: of a cell, with those on the way.
Answers(e, g) ==
  /\ \A id \in DOMAIN e.cells : Get(e, id) = g[{}][id]
  /\ \A V \in SUBSET DOMAIN e.cells, id \in DOMAIN e.cells :
       g[V][id] = IF id \in V THEN Error ELSE Computed(e, id, g[V \cup {id}])

LEMMA GetIsInner ==
  ASSUME NEW e, IsFiniteSet(DOMAIN e.cells)
  PROVE  \E g : Answers(e, g)
<1> DEFINE g == CHOOSE g : IsInner(e, g)
<1>1. IsInner(e, g)
  BY InnerExists
<1>2. \A id \in DOMAIN e.cells : Get(e, id) = g[{}][id]
  BY DEF Get, IsInner, InnerStep
<1> HIDE DEF g
<1>3. \A V \in SUBSET DOMAIN e.cells : g[V] = InnerStep(e, g, V)
  BY <1>1 DEF IsInner
<1>4. \A V \in SUBSET DOMAIN e.cells, id \in DOMAIN e.cells :
        g[V][id] = IF id \in V THEN Error ELSE Computed(e, id, g[V \cup {id}])
  BY <1>3 DEF InnerStep
<1>5. Answers(e, g)
  BY <1>2, <1>4 DEF Answers
<1> QED BY <1>5

\* Under the invariant a formula reads the operands its text mentions.
LEMMA ComputedCases ==
  ASSUME WasmInv, NEW id \in DOMAIN defs, NEW a
  PROVE  /\ defs[id].kind = "value" => Computed(Engine, id, a) = InitOf(defs[id])
         /\ defs[id].kind = "sensor" =>
              Computed(Engine, id, a) =
                IF id \in DOMAIN pushed THEN pushed[id] ELSE InitOf(defs[id])
         /\ defs[id].kind = "formula" =>
              LET env == [d \in OperandsOf(id) |-> IF d \in DOMAIN defs THEN a[d] ELSE Error]
              IN Computed(Engine, id, a) =
                   IF \E d \in OperandsOf(id) : env[d].type = "error" THEN Error
                   ELSE Evaluation(Compiler(defs[id].expr).expr, env)
<1>1. Engine.cells = defs /\ Engine.pushed = pushed /\ Engine.formulas = formulas
  BY DEF Engine
<1>2. defs[id].id = id
  BY <1>1 DEF WasmInv, EngineOK
<1>3. CASE defs[id].kind = "value"
  BY <1>1, <1>3 DEF Computed
<1>4. CASE defs[id].kind = "sensor"
  BY <1>1, <1>4 DEF Computed
<1>5. CASE defs[id].kind = "formula"
  <2>1. formulas[id] = Compiler(defs[id].expr).expr
    BY <1>1, <1>5 DEF WasmInv, EngineOK
  <2>2. DependenciesOf(Engine, defs[id]) = OperandsOf(id)
    BY <1>1, <1>2, <1>5, <2>1 DEF DependenciesOf, OperandsOf
  <2> QED BY <1>1, <1>5, <2>1, <2>2 DEF Computed
<1>6. defs[id].kind \in {"value", "sensor", "formula"}
  BY <1>1 DEF WasmInv, EngineOK
<1> QED BY <1>3, <1>4, <1>5, <1>6

\* A cell that settles in a round gets what it settles to from any answers
\* that agree with what is settled.
LEMMA ComputedIsWorth ==
  ASSUME WasmInv, NEW u, DOMAIN u \subseteq DOMAIN defs,
         NEW id \in DOMAIN defs, Settles(u, id),
         NEW a, \A d \in DOMAIN u : a[d] = u[d]
  PROVE  Computed(Engine, id, a) = WorthNow(u, id)
<1>1. CASE defs[id].kind = "value"
  BY <1>1, ComputedCases DEF WorthNow
<1>2. CASE defs[id].kind = "sensor"
  BY <1>2, ComputedCases DEF WorthNow
<1>3. CASE defs[id].kind = "formula"
  <2> DEFINE env == [d \in OperandsOf(id) |-> IF d \in DOMAIN defs THEN a[d] ELSE Error]
  <2>1. Computed(Engine, id, a) =
          IF \E d \in OperandsOf(id) : env[d].type = "error" THEN Error
          ELSE Evaluation(Compiler(defs[id].expr).expr, env)
    BY <1>3, ComputedCases
  <2>2. CASE Fails(u, id)
    <3>1. \E d \in OperandsOf(id) : env[d].type = "error"
      BY <2>2 DEF Fails, Error
    <3> HIDE DEF env
    <3> QED BY <1>3, <2>1, <2>2, <3>1 DEF WorthNow
  <2>3. CASE ~ Fails(u, id)
    <3>1. OperandsOf(id) \subseteq DOMAIN u
      BY <1>3, <2>3 DEF Settles
    <3>2. env = [d \in OperandsOf(id) |-> u[d]]
      BY <3>1
    <3>3. \A d \in OperandsOf(id) : env[d].type # "error"
      BY <2>3, <3>1, <3>2 DEF Fails
    <3> HIDE DEF env
    <3> QED BY <1>3, <2>1, <2>3, <3>2, <3>3 DEF WorthNow
  <2> QED BY <2>2, <2>3
<1>4. defs[id].kind \in {"value", "sensor", "formula"}
  BY DEF WasmInv, EngineOK, Engine
<1> QED BY <1>1, <1>2, <1>3, <1>4

\* Whatever has settled is answered, unless it is on the way: by the rounds.
LEMMA SettledIsAnswered ==
  ASSUME WasmInv, NEW g, Answers(Engine, g), NEW w, NEW N \in Nat,
         w[0] = << >>, \A n \in 1..N : w[n] = Round(w[n - 1]),
         \A n \in 0..N : Extends(w[n], Round(w[n]))
  PROVE  \A V \in SUBSET DOMAIN defs, id \in DOMAIN w[N] :
           V \cap DOMAIN w[N] = {} => g[V][id] = w[N][id]
<1> DEFINE D == DOMAIN defs
           Good(n) == \A V \in SUBSET D, id \in DOMAIN w[n] :
                        V \cap DOMAIN w[n] = {} => g[V][id] = w[n][id]
           S == {n \in Nat : n <= N => Good(n)}
<1>1. Engine.cells = defs
  BY DEF Engine
<1>2. 0 \in S
  <2>1. DOMAIN w[0] = {}
    OBVIOUS
  <2> QED BY <2>1
<1>3. ASSUME NEW n \in S PROVE n + 1 \in S
  <2>1. n \in Nat /\ n + 1 \in Nat
    OBVIOUS
  <2> SUFFICES ASSUME n + 1 <= N PROVE Good(n + 1)
    BY <2>1
  <2>2. n \in 0..N /\ n + 1 \in 1..N /\ (n + 1) - 1 = n
    BY <2>1
  <2>3. Good(n)
    BY <2>2
  <2>4. w[n + 1] = Round(w[n])
    BY <2>2
  <2>5. Extends(w[n], w[n + 1])
    BY <2>2, <2>4
  <2>6. /\ DOMAIN w[n + 1] = {id \in D : Settles(w[n], id)}
        /\ \A id \in DOMAIN w[n + 1] : w[n + 1][id] = WorthNow(w[n], id)
    <3>1. /\ DOMAIN Round(w[n]) = {id \in D : Settles(w[n], id)}
          /\ \A id \in DOMAIN Round(w[n]) : Round(w[n])[id] = WorthNow(w[n], id)
      <4> HIDE DEF S
      <4> QED BY RoundFacts
    <3> QED BY <2>4, <3>1
  <2> SUFFICES ASSUME NEW V \in SUBSET D, NEW id \in DOMAIN w[n + 1],
                      V \cap DOMAIN w[n + 1] = {}
               PROVE  g[V][id] = w[n + 1][id]
    OBVIOUS
  <2> HIDE DEF S
  <2>7. CASE id \in DOMAIN w[n]
    BY <2>3, <2>5, <2>7 DEF Extends
  <2>8. CASE id \notin DOMAIN w[n]
    <3>1. /\ V \cup {id} \in SUBSET D /\ (V \cup {id}) \cap DOMAIN w[n] = {}
          /\ id \in D /\ id \notin V /\ Settles(w[n], id)
      BY <2>5, <2>6, <2>8 DEF Extends
    <3>2. \A d \in DOMAIN w[n] : g[V \cup {id}][d] = w[n][d]
      BY <2>3, <3>1
    <3>3. DOMAIN w[n] \subseteq D
      BY <2>5, <2>6 DEF Extends
    <3>4. Computed(Engine, id, g[V \cup {id}]) = WorthNow(w[n], id)
      BY <3>1, <3>2, <3>3, ComputedIsWorth
    <3>5. g[V][id] = Computed(Engine, id, g[V \cup {id}])
      BY <1>1, <3>1 DEF Answers
    <3> QED BY <2>6, <3>4, <3>5
  <2> QED BY <2>7, <2>8
<1> HIDE DEF S
<1>4. S = Nat
  <2>1. S \in SUBSET Nat
    BY DEF S
  <2> QED BY <1>2, <1>3, <2>1, Induct
<1>5. Good(N)
  BY <1>4 DEF S
<1> QED BY <1>5

\* Whatever has not settled when nothing more does is an error: it is behind
\* one that has not settled either, until that one is on the way.
LEMMA UnsettledIsError ==
  ASSUME WasmInv, NEW g, Answers(Engine, g), NEW u, DOMAIN u \subseteq DOMAIN defs,
         DOMAIN Round(u) = DOMAIN u
  PROVE  \A V \in SUBSET DOMAIN defs, id \in DOMAIN defs \ DOMAIN u : g[V][id] = Error
<1> DEFINE D == DOMAIN defs
           Good(n) == \A V \in SUBSET D, id \in D \ DOMAIN u :
                        Cardinality(D \ V) <= n => g[V][id] = Error
           S == {n \in Nat : Good(n)}
<1>1. Engine.cells = defs /\ IsFiniteSet(D)
  BY DEF WasmInv, EngineOK, Engine
<1>2. \A V \in SUBSET D, id \in D :
        g[V][id] = IF id \in V THEN Error ELSE Computed(Engine, id, g[V \cup {id}])
  BY <1>1 DEF Answers
<1>3. ASSUME NEW id \in D \ DOMAIN u
      PROVE  /\ defs[id].kind = "formula"
             /\ \E d \in OperandsOf(id) : d \in D \ DOMAIN u
  <2>1. ~ Settles(u, id)
    BY <1>3, RoundFacts
  <2> QED BY <2>1 DEF Settles, Fails
<1>4. 0 \in S
  <2>1. ASSUME NEW V \in SUBSET D, NEW id \in D \ DOMAIN u, Cardinality(D \ V) <= 0
        PROVE  g[V][id] = Error
    <3>1. IsFiniteSet(D \ V) /\ Cardinality(D \ V) \in Nat
      BY <1>1, FS_Difference, FS_CardinalityType
    <3>2. D \ V = {}
      <4>1. Cardinality(D \ V) = 0
        BY <2>1, <3>1
      <4> QED BY <3>1, <4>1, FS_EmptySet
    <3>3. id \in V
      BY <3>2
    <3> QED BY <1>2, <3>3
  <2> QED BY <2>1
<1>5. ASSUME NEW n \in S PROVE n + 1 \in S
  <2>1. n \in Nat /\ n + 1 \in Nat /\ Good(n)
    OBVIOUS
  <2>2. ASSUME NEW V \in SUBSET D, NEW id \in D \ DOMAIN u, Cardinality(D \ V) <= n + 1
        PROVE  g[V][id] = Error
    <3>1. CASE id \in V
      BY <1>2, <3>1
    <3>2. CASE id \notin V
      <4>1. /\ V \cup {id} \in SUBSET D /\ Cardinality(D \ V) \in Nat
            /\ Cardinality(D \ (V \cup {id})) = Cardinality(D \ V) - 1
        BY <1>1, <3>2, OneMoreVisited
      <4>2. Cardinality(D \ (V \cup {id})) <= n
        BY <2>1, <2>2, <4>1
      <4>3. PICK d \in OperandsOf(id) : d \in D \ DOMAIN u
        BY <1>3
      <4>4. g[V \cup {id}][d] = Error
        BY <2>1, <4>1, <4>2, <4>3
      <4> DEFINE a == g[V \cup {id}]
                 env == [x \in OperandsOf(id) |-> IF x \in D THEN a[x] ELSE Error]
      <4>5. env[d].type = "error"
        BY <4>3, <4>4 DEF Error
      <4>6. Computed(Engine, id, a) =
              IF \E x \in OperandsOf(id) : env[x].type = "error" THEN Error
              ELSE Evaluation(Compiler(defs[id].expr).expr, env)
        BY <1>3, ComputedCases
      <4> HIDE DEF env
      <4>7. Computed(Engine, id, a) = Error
        BY <4>5, <4>6
      <4> QED BY <1>2, <3>2, <4>7
    <3> QED BY <3>1, <3>2
  <2>3. Good(n + 1)
    BY <2>2
  <2> HIDE DEF Good
  <2> QED BY <2>1, <2>3
<1> HIDE DEF S
<1>6. S = Nat
  <2>1. S \in SUBSET Nat
    BY DEF S
  <2> QED BY <1>4, <1>5, <2>1, Induct
<1>7. ASSUME NEW V \in SUBSET D, NEW id \in D \ DOMAIN u PROVE g[V][id] = Error
  <2>1. Cardinality(D \ V) \in Nat
    BY <1>1, FS_Difference, FS_CardinalityType
  <2>2. Good(Cardinality(D \ V))
    BY <1>6, <2>1 DEF S
  <2> QED BY <2>1, <2>2
<1> QED BY <1>7

\* get answers with what a cell is worth by the texts of the formulas now in
\* the sheet and the last readings, and with an error exactly where an operand
\* is one, a dependency is missing or a cycle is reached: for any formula
\* language, any sheets, replaced in any order, and any number of readings
\* (get_inner, add_cell, from_sheet, push).
THEOREM GetIsAlwaysWorth == WasmSpec => []GetIsWorth
<1>1. WasmInv => GetIsWorth
  <2> SUFFICES ASSUME WasmInv PROVE GetIsWorth
    OBVIOUS
  <2>1. Engine.cells = defs /\ IsFiniteSet(DOMAIN Engine.cells)
    BY DEF WasmInv, EngineOK, Engine
  <2>2. PICK g : Answers(Engine, g)
    BY <2>1, GetIsInner
  <2>3. PICK w, N : /\ N \in Nat /\ w[0] = << >> /\ w[N] = Worth
                    /\ \A n \in 1..N : w[n] = Round(w[n - 1])
                    /\ \A n \in 0..N : Extends(w[n], Round(w[n]))
                    /\ DOMAIN Round(Worth) = DOMAIN Worth
    BY WorthIsLast
  <2>4. DOMAIN Worth \subseteq DOMAIN defs
    <3>1. Extends(w[N], Round(w[N]))
      BY <2>3
    <3> QED BY <2>3, <3>1 DEF Extends
  <2>5. ASSUME NEW id \in DOMAIN defs
        PROVE  Get(Engine, id) = IF id \in DOMAIN Worth THEN Worth[id] ELSE Error
    <3>1. Get(Engine, id) = g[{}][id]
      BY <2>1, <2>2 DEF Answers
    <3>2. CASE id \in DOMAIN Worth
      <4>1. \A V \in SUBSET DOMAIN defs, i \in DOMAIN w[N] :
              V \cap DOMAIN w[N] = {} => g[V][i] = w[N][i]
        BY <2>2, <2>3, SettledIsAnswered
      <4>2. {} \in SUBSET DOMAIN defs /\ {} \cap DOMAIN w[N] = {}
        OBVIOUS
      <4>3. g[{}][id] = Worth[id]
        BY <2>3, <3>2, <4>1, <4>2
      <4> QED BY <3>1, <3>2, <4>3
    <3>3. CASE id \notin DOMAIN Worth
      <4>1. g[{}][id] = Error
        <5>1. \A V \in SUBSET DOMAIN defs, i \in DOMAIN defs \ DOMAIN Worth : g[V][i] = Error
          BY <2>2, <2>3, <2>4, UnsettledIsError
        <5> QED BY <3>3, <5>1
      <4> QED BY <3>1, <3>3, <4>1
    <3> QED BY <3>2, <3>3
  <2> QED BY <2>5 DEF GetIsWorth
<1> QED BY <1>1, WasmInductive, PTL
=============================================================================
