----------------------------- MODULE McpServer ------------------------------
(***************************************************************************)
(* packages/mcp/src/lib.rs: the tools of the MCP server, each a call into  *)
(* the engine with the context its input makes.  cells_list and the        *)
(* resource of the sheet only read the graph.                              *)
(***************************************************************************)
EXTENDS EffectfulCells

CONSTANTS Name  \* ids a client may name, those of no cell included

\* build_context: a client gives no metadata.
BuildContext(row) == Context(row, Absent)

CellGet(id, row, net)         == Get(id, BuildContext(row), net)
CellCall(id, input, row, net) == Call(id, input, BuildContext(row), net)
CellSet(id, data)             == Set(id, data)
CellPush(id, data)            == Push(id, data)

\* build_server preloads a sheet and register_cell takes a cell's YAML for one:
\* either replaces the whole graph by what it parsed.
RegisterCell(sheet) == ParseAndLoad(sheet)

Tool ==
  /\ Step
  /\ \/ \E id \in Name, row \in Row \cup {Absent}, net \in {"answers", "refuses"} :
          \/ CellGet(id, row, net)
          \/ \E input \in Datum \cup {Absent} : CellCall(id, input, row, net)
     \/ \E id \in Name, data \in Datum : CellSet(id, data) \/ CellPush(id, data)
     \/ \E sheet \in Sheets : RegisterCell(sheet)

\* The program around the engine also loads, registers and fires.
Embedder ==
  /\ Step
  /\ \/ \E sheet \in Sheets : LoadSheet(sheet)
     \/ \E def \in Extras : Register(def)
     \/ \E id, changed \in DOMAIN cells, net \in {"answers", "refuses"} :
          FireListener(id, changed, net)

Next == Tool \/ Embedder \/ InFlight

Spec == EffectInit /\ [][Next]_effectVars
=============================================================================
