------------------------------ MODULE MCCrates ------------------------------
(***************************************************************************)
(* The crates around the core call one another nowhere, so one run checks  *)
(* their components one at a time: part says which of them a behaviour is  *)
(* of, and the others stay as they were made.                              *)
(***************************************************************************)
EXTENDS PnCounter, OpcodeEngine, WorldCell, QufFile, WasmEngine, WasmFormula, CAbi, FieldHistory

CONSTANTS Key,      \* the characters a formula is typed of
          Piece,    \* the tokens and pairs of them one is typed of
          Binary,   \* the operators that take two operands
          MaxTyped  \* bound on how many letters, pieces or operands are typed

VARIABLES part,
          typed   \* the formula typed so far, piece by piece: the wasm
                  \* language's properties are asked of it at every length

X == << "x" >>
Y == << "y" >>
Z == << "z" >>
MCTrue == << "t" >>
MCFalse == << "f" >>

vars == << part, typed, counterVars, proofVars, worldVars, qufVars, wasmVars, abiVars, fieldVars >>

Init ==
  /\ part \in {"counter", "proof", "world", "quf", "letters", "grammar", "operators", "wasm", "abi", "field"}
  /\ typed = << >>
  /\ CounterInit /\ ProofInit /\ WorldInit /\ QufInit /\ WasmInit /\ AbiInit /\ FieldInit
  /\ part # "field" => history = NewLedger(HistoryCell)

\* A formula is typed letter by letter, to see how it is cut into tokens, piece
\* by piece, to see how the tokens are read, or operand by operand, each behind
\* any operator, to see what binds to what.
Type(pieces) ==
  /\ Len(typed) < MaxTyped
  /\ \E piece \in pieces : typed' = Append(typed, piece)

\* What a step leaves alone: every part but the one the behaviour is of.
Rest ==
  /\ UNCHANGED part
  /\ IF part = "counter" THEN TRUE ELSE UNCHANGED counterVars
  /\ IF part = "proof" THEN TRUE ELSE UNCHANGED proofVars
  /\ IF part = "world" THEN TRUE ELSE UNCHANGED worldVars
  /\ IF part = "quf" THEN TRUE ELSE UNCHANGED qufVars
  /\ IF part \in {"letters", "grammar", "operators"} THEN TRUE ELSE UNCHANGED typed
  /\ IF part = "wasm" THEN TRUE ELSE UNCHANGED wasmVars
  /\ IF part = "abi" THEN TRUE ELSE UNCHANGED abiVars
  /\ IF part = "field" THEN TRUE ELSE UNCHANGED fieldVars

Next ==
  \/ part = "counter" /\ CounterNext /\ Rest
  \/ part = "proof" /\ ProofNext /\ Rest
  \/ part = "world" /\ WorldNext /\ Rest
  \/ part = "quf" /\ QufNext /\ Rest
  \/ part = "letters" /\ Type({<< k >> : k \in Key}) /\ Rest
  \/ part = "grammar" /\ Type(Piece) /\ Rest
  \/ part = "operators" /\ Type({X} \cup {op \o X : op \in Binary}) /\ Rest
  \/ part = "wasm" /\ WasmNext /\ Rest
  \/ part = "abi" /\ AbiNext /\ Rest
  \/ part = "field" /\ FieldNext /\ Rest

Spec == Init /\ [][Next]_vars

\* CompilesAsRead of whatever is typed.
TextCompilesAsRead == CompilesAsRead(FlattenSeq(typed))

\* EdgesAgree of whatever is typed, for cells named by a word, by one that holds
\* it, by a function, by a truth value, by a number and by a difference.
TextEdgesAgree ==
  EdgesAgree(FlattenSeq(typed),
             {X, << "x", ".", "x" >>, << "m" >>, MCTrue, << "1" >>, << "x", "-", "x" >>})

-----------------------------------------------------------------------------
\* Some function of a program and its reads, with values on both sides of 0.
MCSim(code, reads) == ((7 * Len(code) + 3 * Len(reads)) % 10) - 5

MCReads == {<< >>, << 1 >>}

MCHelper == (<< "m" >> :> "min" @@ << "c" >> :> "clamp")
MCPiece == {X, MCTrue, << "m", "(" >>, << "(" >>, << ")" >>, << "," >>, << "|", "|" >>,
            << "&", "&" >>, << "<" >>, << "=", "=" >>, << "-" >>, << "*" >>, << "!" >>}
MCBinary == {<< "|", "|" >>, << "&", "&" >>, << "=", "=" >>, << "!", "=" >>, << "<" >>, << "<", "=" >>,
             << ">" >>, << ">", "=" >>, << "+" >>, << "-" >>, << "*" >>, << "/" >>, << "%" >>}
MCCellId == {X, Y, Z}
MCFormulaText == {<< "=", "x" >>, << "x", "-", "y" >>, << "m", "(", "x", ",", "z", ")" >>,
                  << "y", "<", "1" >>, << "x", "-" >>}
MCReading == {Num(2), Bool(TRUE)}
MCDeps == {{}, {Z}}
MCSheets == {<< ValueDef(X, << Num(1) >>), FormulaDef(Y, << "x" >>, {}),
                FormulaDef(Z, << "x", "-", "y" >>, {}) >>}

MCSheetOf ==
  LET cell(kind) == [kind |-> kind, data |-> "one"]
  IN "good" :> ("v" :> cell("value") @@ "p" :> cell("program"))
       @@ "other" :> ("v" :> cell("value") @@ "p" :> cell("broken"))

\* Most of the norms are no whole numbers; near and zero are below 1.0, long is
\* of another dimension.
MCVectorOf ==
  "east" :> << 2, 0 >> @@ "north" :> << 1, 2 >> @@ "far" :> << -3, 1 >>
    @@ "near" :> << 0, 1 >> @@ "zero" :> << 0, 0 >> @@ "long" :> << 1, 2, 2 >>
MCWarm == << 2, 1 >>
MCOp == {[v \in Value |-> v], [v \in Value |-> IF v = "east" THEN "far" ELSE "east"]}
=============================================================================
