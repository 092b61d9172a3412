----------------------------- MODULE MCBoundary -----------------------------
(***************************************************************************)
(* What crosses the boundary of the cells: frames on their way out, over   *)
(* the air to the arrival peer (WireLink) or along a serial line to the    *)
(* decoder (CellFirmware), and calls on their way in, through the MCP      *)
(* server or from the program around the engine (McpServer).  None of the  *)
(* three knows of the others: way says which a behaviour is about.         *)
(***************************************************************************)
EXTENDS WireLink, CellFirmware, McpServer

VARIABLE way

vars == << way, linkVars, firmwareVars, effectVars >>

BoundaryInit ==
  /\ way \in {"air", "wire", "calls"}
  /\ LinkInit /\ FirmwareInit /\ EffectInit
  /\ way # "air" => \A c \in Cell : seq[c] = CHOOSE s \in StartSeq : TRUE

BoundaryNext ==
  \/ way = "air" /\ LinkNext /\ UNCHANGED << way, firmwareVars, effectVars >>
  \/ way = "wire" /\ FirmwareNext /\ UNCHANGED << way, linkVars, effectVars >>
  \/ way = "calls" /\ Next /\ UNCHANGED << way, linkVars, firmwareVars >>

BoundarySpec == BoundaryInit /\ [][BoundaryNext]_vars

-----------------------------------------------------------------------------
\* Sheets in which every rule, script and endpoint occurs, and sheets the
\* parser refuses.
MCTrim(id) == CASE id = " v" -> "v" [] id = " " -> "" [] id \notin {" v", " "} -> id

Script(do)   == [do |-> do]
Ask1(do, of) == [do |-> do, of |-> of]
Always == [is |-> "true"]
OfRow(r) == [is |-> "row", value |-> r]
OfInput(d) == [is |-> "input", value |-> d]
Never == [is |-> "other"]
Unless == [is |-> "nonempty"]

MCSheets ==
  { \* a row told by a server and by a script, routed by row and called on
    << ApiCell("a", "{{row}}"), ProgramCell("p", Script("row")),
       RouterCell("r", << Rule(OfRow("ada"), ToCellWith("a", "vip")), Rule(Always, ToCell("p")) >>),
       ProgramCell("c", Ask1("call", "a")) >>,
    \* data read through two programs, one of which depends on it; written by a script
    << ValueCell("v", "one"), Depending(ProgramCell("p", Ask1("get", "v")), {"v"}),
       ProgramCell("c", Ask1("get", "p")), ProgramCell("a", Ask1("set", "v")) >>,
    \* a sensor, what reads it, and a listener that sets off a router
    << SensorCell("v", "one"), ProgramCell("p", Ask1("get", "v")),
       RouterCell("r", << Rule(Never, ToModel), Rule(OfInput("two"), ToValue("one")), Rule(OfInput("one"), ToModel) >>),
       ListenerCell("c", "v", [is |-> "equals", value |-> "one"], "r") >>,
    \* delegations that go round
    << RouterCell("r", << Rule(OfInput("one"), ToCell("a")), Rule(OfRow("bob"), ToCell("p")) >>),
       ProgramCell("p", Ask1("call", "r")), ApiCell("a", "{{meta}}"),
       ListenerCell("c", "p", Unless, "p") >>,
    \* derived values, failures, pseudo endpoints
    << ValueCell("v", "one"), Depending(ValueCell("p", "two"), {"v"}),
       IoCell("c"), ApiCell("a", "model:"), ProgramCell("r", Script("fail")) >>,
    << ProgramCell("p", Script("meta")), ProgramCell("c", Script("input")),
       RouterCell("r", << Rule(OfInput("one"), ToCellWith("p", "vip")), Rule(Always, ToCell("c")) >>),
       ListenerCell("a", "c", [is |-> "empty"], "none such") >>,
    \* what the parser refuses, and an id that it does not trim
    << RouterCell("r", << Rule(Always, ToCell("p")) >>), ValueCell("p", "one"), ValueCell("p", "two") >>,
    << RouterCell("r", << Rule(OfInput("one"), ToCell("p")), Rule(Always, ToCell("none such")) >>),
       ValueCell("p", "one") >>,
    << BlankDef("a", "api"), BlankDef("p", "program"), ListenerCell("c", "none such", [is |-> "false"], Absent) >>,
    << ValueCell(" ", "one") >>,
    << ValueCell(" v", "one"), RouterCell("r", << Rule(Always, ToCell(" v")) >>) >>
  }

MCExtras == {Depending(ProgramCell("p", Ask1("call", " v")), {"v"}), Depending(ValueCell("w", "one"), {"v"})}
=============================================================================
