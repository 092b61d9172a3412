----------------------------- MODULE WasmEngine -----------------------------
(***************************************************************************)
(* The synchronous engine of crates/quilt-core-wasm: cells are added one   *)
(* by one or from a sheet, readings are pushed, and get computes a cell    *)
(* from scratch.  Nothing is cached but the compiled formulas.             *)
(*                                                                         *)
(* The formula language is a parameter: module WasmFormula is one.         *)
(***************************************************************************)
EXTENDS WasmJson, Naturals, FiniteSets, SequencesExt

CONSTANTS Compiler(_),     \* formula::compile: [ok, expr] of a text
          Mentioned(_),    \* collect_idents of an expression
          Evaluation(_, _) \* eval_expr of an expression in an environment

CONSTANTS CellId,      \* the ids in use, as sequences of characters
          FormulaText, \* the formula texts in use
          Reading,     \* the JSON values pushed and defined
          Deps,        \* the sets of declared dependencies in use
          Sheets,      \* the sheets that are loaded: sequences of definitions
          MaxAdds,     \* bound on definitions
          MaxPushes    \* bound on pushes

ASSUME WasmAssumption ==
  \A sheet \in Sheets :
    /\ sheet \in Seq(ToSet(sheet))
    /\ \A def \in ToSet(sheet) : def.kind \in {"value", "sensor", "formula"}

VARIABLES defs,     \* WasmEngine::cells, from id to definition
          pushed,   \* WasmEngine::pushed
          formulas, \* WasmEngine::formulas: the compiled expressions
          budget    \* how many definitions and pushes there were

wasmVars == << defs, pushed, formulas, budget >>

\* Option: << >> or << value >>.
ValueDef(id, v) == [id |-> id, kind |-> "value", init |-> v, expr |-> << >>, deps |-> {}]
SensorDef(id, v) == [id |-> id, kind |-> "sensor", init |-> v, expr |-> << >>, deps |-> {}]
FormulaDef(id, text, deps) ==
  [id |-> id, kind |-> "formula", init |-> << >>, expr |-> text, deps |-> deps]

Put(f, k, v) == [x \in DOMAIN f \cup {k} |-> IF x = k THEN v ELSE f[x]]

Engine == [cells |-> defs, pushed |-> pushed, formulas |-> formulas]
NewEngine == [cells |-> << >>, pushed |-> << >>, formulas |-> << >>]

Compiles(def) == def.kind = "formula" => Compiler(def.expr).ok

\* Mutant: the definition goes in and the formula compiled before it stays.
AddedKeeps(e, def) ==
  [e EXCEPT !.cells = Put(@, def.id, def),
            !.formulas = IF def.kind = "formula" /\ def.id \notin DOMAIN @
                         THEN Put(@, def.id, Compiler(def.expr).expr) ELSE @]

\* add_cell of a definition that compiles.
Added(e, def) ==
  [e EXCEPT !.cells = Put(@, def.id, def),
            !.formulas = IF def.kind = "formula"
                         THEN Put(@, def.id, Compiler(def.expr).expr) ELSE @]

\* from_sheet: all the definitions, in order, into an empty engine.
FromSheet(sheet) ==
  LET made[n \in 0..Len(sheet)] == IF n = 0 THEN NewEngine ELSE Added(made[n - 1], sheet[n])
  IN made[Len(sheet)]

InitOf(def) == IF def.init = << >> THEN NullJson ELSE def.init[1]

\* dependencies_inner.
DependenciesOf(e, def) ==
  IF def.kind # "formula" THEN def.deps
  ELSE def.deps \cup (Mentioned(e.formulas[def.id]) \cap DOMAIN e.cells)

\* get_inner of a cell that is not on the way already: the value or Error.
\* answers is what the cells give from there; every dependency is read before
\* the formula is evaluated.
Computed(e, id, answers) ==
  LET def    == e.cells[id]
      deps   == DependenciesOf(e, def)
      env    == [d \in deps |-> IF d \in DOMAIN e.cells THEN answers[d] ELSE Error]
      failed == \E d \in deps : env[d].type = "error"
  IN  CASE def.kind = "value"   -> InitOf(def)
        [] def.kind = "sensor"  -> IF id \in DOMAIN e.pushed THEN e.pushed[id] ELSE InitOf(def)
        [] def.kind = "formula" -> IF failed THEN Error ELSE Evaluation(e.formulas[id], env)

\* visited holds the cells on the way from the cell asked for.
Get(e, id) ==
  LET inner[visited \in SUBSET DOMAIN e.cells] ==
        [d \in DOMAIN e.cells |->
          IF d \in visited THEN Error ELSE Computed(e, d, inner[visited \cup {d}])]
  IN IF id \in DOMAIN e.cells THEN inner[{}][id] ELSE Error

-----------------------------------------------------------------------------
WasmInit ==
  /\ defs = << >> /\ pushed = << >> /\ formulas = << >>
  /\ budget = [adds |-> 0, pushes |-> 0]

BecomeEngine(e) ==
  /\ defs' = e.cells /\ pushed' = e.pushed /\ formulas' = e.formulas

\* A definition whose formula does not compile is an error and changes nothing.
AddCell(def) ==
  /\ budget.adds < MaxAdds
  /\ Compiles(def)
  /\ BecomeEngine(Added(Engine, def))
  /\ budget' = [budget EXCEPT !.adds = @ + 1]

\* from_sheet makes a new engine, or none if one definition does not compile.
LoadSheet(sheet) ==
  /\ budget.adds < MaxAdds
  /\ \A i \in 1..Len(sheet) : Compiles(sheet[i])
  /\ BecomeEngine(FromSheet(sheet))
  /\ budget' = [budget EXCEPT !.adds = @ + 1]

\* A formula is not pushed to; a value cell takes the reading and never shows it.
Push(id, v) ==
  /\ budget.pushes < MaxPushes
  /\ id \in DOMAIN defs /\ defs[id].kind # "formula"
  /\ pushed' = Put(pushed, id, v)
  /\ budget' = [budget EXCEPT !.pushes = @ + 1]
  /\ UNCHANGED << defs, formulas >>

Options == {<< >>} \cup {<< v >> : v \in Reading}

WasmNext ==
  \/ \E id \in CellId, v \in Options : AddCell(ValueDef(id, v))
  \/ \E id \in CellId, v \in Options : AddCell(SensorDef(id, v))
  \/ \E id \in CellId, t \in FormulaText, d \in Deps : AddCell(FormulaDef(id, t, d))
  \/ \E s \in Sheets : LoadSheet(s)
  \/ \E id \in CellId, v \in Reading : Push(id, v)

WasmSpec == WasmInit /\ [][WasmNext]_wasmVars

-----------------------------------------------------------------------------
(***************************************************************************)
(* Properties                                                              *)
(***************************************************************************)

\* Reference: what the cells are worth, by rounds.  A cell settles once it
\* needs no other, once one it depends on fails or is not there, or once all
\* are settled; a cell on a cycle, or behind one, never does.
OperandsOf(id) ==
  defs[id].deps \cup {i \in DOMAIN defs : i \in Mentioned(Compiler(defs[id].expr).expr)}

Fails(w, id) ==
  \E d \in OperandsOf(id) : d \notin DOMAIN defs \/ (d \in DOMAIN w /\ w[d].type = "error")

Settles(w, id) ==
  defs[id].kind # "formula" \/ Fails(w, id) \/ OperandsOf(id) \subseteq DOMAIN w

WorthNow(w, id) ==
  CASE defs[id].kind = "value" -> InitOf(defs[id])
    [] defs[id].kind = "sensor" ->
         IF id \in DOMAIN pushed THEN pushed[id] ELSE InitOf(defs[id])
    [] defs[id].kind = "formula" ->
         IF Fails(w, id) THEN Error
         ELSE Evaluation(Compiler(defs[id].expr).expr, [d \in OperandsOf(id) |-> w[d]])

\* What the cells that have settled before the next round settle to.
Round(w) == [id \in {i \in DOMAIN defs : Settles(w, i)} |-> WorthNow(w, id)]

\* There are as many rounds as cells.
Worth ==
  LET rounds == Cardinality(DOMAIN defs)
      after[n \in 0..rounds] == IF n = 0 THEN << >> ELSE Round(after[n - 1])
  IN after[rounds]

\* get answers with what a cell is worth by the texts of the formulas now in
\* the sheet and the last readings, whatever was replaced before; it is an
\* error exactly where an operand is one, a dependency is missing or a cycle
\* is reached, and a cell reached on two ways is no cycle (get_inner,
\* add_cell, from_sheet, push).
GetIsWorth ==
  LET w == Worth IN
  \A id \in DOMAIN defs : Get(Engine, id) = IF id \in DOMAIN w THEN w[id] ELSE Error
=============================================================================
