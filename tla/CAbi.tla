------------------------------- MODULE CAbi -------------------------------
(***************************************************************************)
(* crates/quilt-cabi/src/lib.rs: foreign threads call the library, whose   *)
(* ledgers are one table for the whole process behind one mutex, whose     *)
(* engines are handles their owners pass in, and whose last error is kept  *)
(* for each thread.  A call is three steps: it enters and forgets the last *)
(* error of its thread, it does its work under the lock it takes, and it   *)
(* returns, which is when a failure becomes the last error.                *)
(*                                                                         *)
(* An engine is what the library needs to know of one: its cells, each     *)
(* with a value, a formula that cannot be evaluated, or a program, which   *)
(* panics because quilt_engine_new makes the engine without into_arc.      *)
(* Callers keep the contract of the header: nobody uses a handle that is   *)
(* freed or being freed.                                                   *)
(***************************************************************************)
EXTENDS Ledger

CONSTANTS Thread,
          BookId,   \* cell ids, as C strings
          Json,     \* texts that are JSON, each the value it is of
          BadText,  \* arguments that are NULL, not UTF-8 or not JSON
          Stamp,    \* the ts_millis in use
          SheetOf,  \* from a sheet's YAML to its cells: [id -> [kind, data]]
          MaxCalls  \* bound on calls

ASSUME CAbiAssumption == Json \subseteq Value /\ Stamp \subseteq Nat /\ MaxCalls \in Nat

VARIABLES
  books,     \* LEDGERS: the ledger of each cell id that has one
  engines,   \* the live handles, each with its cells
  lastError, \* LAST_ERROR of each thread
  doing,     \* the call each thread is in: its arguments and its stage
  returned,  \* what each thread's last call gave, or is about to give
  receipts,  \* history: the seals handed out, with the life of the table
  roots,     \* history: the geneses acknowledged, with the life of the table
  life,      \* history: how often the table was emptied
  calls

abiVars == << books, engines, lastError, doing, returned, receipts, roots, life, calls >>

NoError == "none"
Idle == [op |-> "none", stage |-> "out"]
Success(value) == [value |-> value, error |-> NoError]
Failure(error) == [value |-> "none", error |-> error]

NullHandle == 0

\* A map, or a record, with a value for a key.
Inserted(map, key, value) ==
  [k \in DOMAIN map \cup {key} |-> IF k = key THEN value ELSE map[k]]

-----------------------------------------------------------------------------
\* The calls there are.

Argument == Json \cup BadText

Requests ==
  [op : {"init"}, cell : BookId \cup BadText, input : Argument, output : Json, ts : Stamp]
    \cup [op : {"record"}, cell : BookId, input : Json, output : Argument, ts : Stamp]
    \cup [op : {"verify", "reconcile", "chain_hash"}, cell : BookId]
    \cup [op : {"reset", "string_free", "engine_new"}]

HandleRequests ==
  LET handles == DOMAIN engines \cup {NullHandle}
      ids     == UNION {DOMAIN SheetOf[y] : y \in DOMAIN SheetOf}
  IN [op : {"engine_free"}, handle : handles]
       \cup [op : {"load_sheet"}, handle : handles, sheet : DOMAIN SheetOf \cup BadText]
       \cup [op : {"get"}, handle : handles, cell : ids]
       \cup [op : {"set"}, handle : handles, cell : ids, input : Argument]

\* The header's contract on handles.
Allowed(req) ==
  \A t \in Thread :
    (doing[t].stage # "out" /\ {"handle"} \subseteq DOMAIN doing[t] \cap DOMAIN req) =>
      \/ doing[t].handle # req.handle
      \/ req.handle = NullHandle
      \/ "engine_free" \notin {req.op, doing[t].op}

\* clear_err
ClearErr(error) == NoError

Enter(t, req) ==
  /\ doing[t].stage = "out" /\ calls < MaxCalls
  /\ Allowed(req)
  /\ doing' = [doing EXCEPT ![t] = Inserted(req, "stage", "in")]
  /\ lastError' = [lastError EXCEPT ![t] = ClearErr(@)]
  /\ calls' = calls + 1
  /\ UNCHANGED << books, engines, returned, receipts, roots, life >>

\* return_string, return_code: a failure is the last error.
Return(t) ==
  /\ doing[t].stage = "done"
  /\ doing' = [doing EXCEPT ![t] = Idle]
  /\ lastError' = [lastError EXCEPT ![t] = IF returned[t].error = NoError THEN @ ELSE returned[t].error]
  /\ UNCHANGED << books, engines, returned, receipts, roots, life, calls >>

\* The work of a call of op is done, with this result.
Working(t, op) == doing[t].stage = "in" /\ doing[t].op = op

Answer(t, result) ==
  /\ doing' = [doing EXCEPT ![t].stage = "done"]
  /\ returned' = [returned EXCEPT ![t] = result]
  /\ UNCHANGED << lastError, calls >>

-----------------------------------------------------------------------------
\* The ledgers.

\* Mutant: init makes a ledger whether or not there is one.
MayInitAlways(id) == TRUE

\* A genesis is for a cell that has no ledger yet.
MayInit(id) == id \notin DOMAIN books

LedgerInit(t) ==
  LET c == doing[t] IN
  /\ Working(t, "init")
  /\ IF BadText \cap {c.cell, c.input} # {}
     THEN Answer(t, Failure("argument")) /\ UNCHANGED << books, roots >>
     ELSE IF ~ MayInit(c.cell)
     THEN Answer(t, Failure("exists")) /\ UNCHANGED << books, roots >>
     ELSE /\ books' = Inserted(books, c.cell, WithGenesis(c.cell, c.input, c.ts))
          /\ roots' = roots \cup {[cell |-> c.cell, genesis |-> c.input, ts |-> c.ts, life |-> life]}
          /\ Answer(t, Success(0))
  /\ UNCHANGED << engines, receipts, life >>

\* A cell without a ledger gets one without a genesis.
BookOf(id) == IF id \in DOMAIN books THEN books[id] ELSE NewLedger(id)

LedgerRecord(t) ==
  LET c    == doing[t]
      next == RecordWith(BookOf(c.cell), c.input, c.output, c.ts, None)
  IN
  /\ Working(t, "record")
  /\ IF c.output \in BadText
     THEN Answer(t, Failure("argument")) /\ UNCHANGED << books, receipts >>
     ELSE /\ books' = Inserted(books, c.cell, next)
          /\ receipts' = receipts \cup {[cell |-> c.cell, seal |-> ChainHash(next), life |-> life]}
          /\ Answer(t, Success(ChainHash(next)))
  /\ UNCHANGED << engines, roots, life >>

\* verify, reconcile and chain_hash read one ledger.
ReadOf(op, ledger) ==
  CASE op = "verify"     -> IF ChainIntact(ledger) THEN 1 ELSE 0
    [] op = "reconcile"  -> Balanced(ledger)
    [] op = "chain_hash" -> ChainHash(ledger)

LedgerRead(t) ==
  LET c == doing[t] IN
  /\ c.op \in {"verify", "reconcile", "chain_hash"} /\ c.stage = "in"
  /\ Answer(t, IF c.cell \in DOMAIN books THEN Success(ReadOf(c.op, books[c.cell]))
               ELSE Failure("no ledger"))
  /\ UNCHANGED << books, engines, receipts, roots, life >>

LedgersReset(t) ==
  /\ Working(t, "reset")
  /\ books' = << >> /\ life' = life + 1
  /\ Answer(t, Success(0))
  /\ UNCHANGED << engines, receipts, roots >>

StringFree(t) ==
  /\ Working(t, "string_free")
  /\ Answer(t, Success(0))
  /\ UNCHANGED << books, engines, receipts, roots, life >>

-----------------------------------------------------------------------------
\* The engines.

EngineNew(t) ==
  LET handle == CHOOSE h \in 1..MaxCalls : h \notin DOMAIN engines IN
  /\ Working(t, "engine_new")
  /\ engines' = Inserted(engines, handle, << >>)
  /\ Answer(t, Success(handle))
  /\ UNCHANGED << books, receipts, roots, life >>

EngineFree(t) ==
  /\ Working(t, "engine_free")
  /\ engines' = [h \in DOMAIN engines \ {doing[t].handle} |-> engines[h]]
  /\ Answer(t, Success(0))
  /\ UNCHANGED << books, receipts, roots, life >>

EngineLoadSheet(t) ==
  LET c == doing[t] IN
  /\ Working(t, "load_sheet")
  /\ IF c.handle = NullHandle \/ c.sheet \in BadText
     THEN Answer(t, Failure("argument")) /\ UNCHANGED engines
     ELSE engines' = [engines EXCEPT ![c.handle] = SheetOf[c.sheet]] /\ Answer(t, Success(0))
  /\ UNCHANGED << books, receipts, roots, life >>

\* The engine's get, and catch_panics around it.
Read(graph, id) ==
  IF id \notin DOMAIN graph THEN Failure("not found")
  ELSE CASE graph[id].kind = "value"   -> Success(graph[id].data)
         [] graph[id].kind = "broken"  -> Failure("errored")
         [] graph[id].kind = "program" -> Failure("panic")

EngineGet(t) ==
  LET c == doing[t] IN
  /\ Working(t, "get")
  /\ Answer(t, IF c.handle = NullHandle THEN Failure("argument")
               ELSE Read(engines[c.handle], c.cell))
  /\ UNCHANGED << books, engines, receipts, roots, life >>

EngineSet(t) ==
  LET c == doing[t] IN
  /\ Working(t, "set")
  /\ IF c.handle = NullHandle \/ c.input \in BadText
     THEN Answer(t, Failure("argument")) /\ UNCHANGED engines
     ELSE IF c.cell \notin DOMAIN engines[c.handle]
     THEN Answer(t, Failure("not found")) /\ UNCHANGED engines
     ELSE engines' = [engines EXCEPT ![c.handle][c.cell].data = c.input] /\ Answer(t, Success(0))
  /\ UNCHANGED << books, receipts, roots, life >>

-----------------------------------------------------------------------------
AbiInit ==
  /\ books = << >> /\ engines = << >>
  /\ lastError = [t \in Thread |-> NoError]
  /\ doing = [t \in Thread |-> Idle]
  /\ returned = [t \in Thread |-> Success(0)]
  /\ receipts = {} /\ roots = {} /\ life = 0 /\ calls = 0

Work(t) ==
  \/ LedgerInit(t) \/ LedgerRecord(t) \/ LedgerRead(t) \/ LedgersReset(t) \/ StringFree(t)
  \/ EngineNew(t) \/ EngineFree(t) \/ EngineLoadSheet(t) \/ EngineGet(t) \/ EngineSet(t)

AbiNext ==
  \E t \in Thread :
    \/ \E req \in Requests \cup HandleRequests : Enter(t, req)
    \/ Work(t)
    \/ Return(t)

AbiSpec == AbiInit /\ [][AbiNext]_abiVars

-----------------------------------------------------------------------------
\* Properties.

SealsOf(ledger) == {ledger.entries[i].hash : i \in 1..Len(ledger.entries)}

ReceiptsOf(id) == {r.seal : r \in {q \in receipts : q.cell = id /\ q.life = life}}

\* The table is the callers' records and nothing else: since it was last
\* emptied, the seals handed out for a cell are exactly those of its ledger,
\* in a chain that verifies, an acknowledged genesis is its root, and a ledger
\* without one has a first entry without an expectation; whoever raced whom
\* to make the ledger.
ReceiptsStay ==
  /\ \A id \in DOMAIN books :
       /\ ChainIntact(books[id])
       /\ SealsOf(books[id]) = ReceiptsOf(id)
       /\ books[id].entries # << >> => books[id].entries[1].expected = books[id].genesis
  /\ \A r \in receipts : r.life = life => r.cell \in DOMAIN books
  /\ \A a \in roots :
       a.life = life => /\ a.cell \in DOMAIN books
                        /\ books[a.cell].genesis = Some(a.genesis)
                        /\ books[a.cell].genesisTs = Some(a.ts)

\* A thread that is in no call has the error of its own last call for last
\* error, or none if that succeeded, whatever other threads did since.
LastErrorIsOwn ==
  \A t \in Thread : doing[t].stage = "out" => lastError[t] = returned[t].error
=============================================================================
