---------------------------- MODULE SheetParser ----------------------------
(***************************************************************************)
(* packages/core/src/parser.rs: what validate_sheet accepts, and what the  *)
(* defs of a sheet are.  A sheet is a sequence of defs; a field that the   *)
(* YAML leaves out is Absent.  An id is its text, and Trim takes the       *)
(* blanks around it off: the parser compares raw ids, the engine looks up  *)
(* trimmed ones.                                                           *)
(***************************************************************************)
EXTENDS Naturals, SequencesExt

CONSTANTS Trim(_) \* str::trim of an id

Absent == "absent"

\* CellDef of each kind, with the fields that matter to it; the rest Absent.
BlankDef(id, kind) ==
  [id |-> id, kind |-> kind, value |-> Absent, endpoint |-> Absent,
   code |-> [do |-> Absent], port |-> Absent, expr |-> Absent, watch |-> << >>,
   condition |-> [is |-> Absent], action |-> Absent, rules |-> << >>, deps |-> {}]

With(fields, def) == fields @@ def

ValueCell(id, data)   == With("value" :> data, BlankDef(id, "value"))
SensorCell(id, data)  == With("value" :> data, BlankDef(id, "sensor"))
IoCell(id)            == With("port" :> "pin", BlankDef(id, "io"))
ApiCell(id, endpoint) == With("endpoint" :> endpoint, BlankDef(id, "api"))
ProgramCell(id, code) == With("code" :> code, BlankDef(id, "program"))
RouterCell(id, rules) == With("rules" :> rules, BlankDef(id, "router"))
ListenerCell(id, watched, condition, action) ==
  With("watch" :> << watched >> @@ "condition" :> condition @@ "action" :> action,
       BlankDef(id, "listener"))
Depending(def, ids)   == With("deps" :> ids, def)

\* RouterRule and RouteTarget: [when, route]; a route to a cell may override
\* the caller's metadata.
Rule(when, route) == [when |-> when, route |-> route]
ToCell(id)        == [to |-> "cell", cell |-> id, with |-> Absent]
ToCellWith(id, m) == [to |-> "cell", cell |-> id, with |-> m]
ToModel           == [to |-> "model"]
ToValue(data)     == [to |-> "value", value |-> data]

-----------------------------------------------------------------------------
IdsOf(sheet) == {sheet[i].id : i \in DOMAIN sheet}

HasDuplicate(sheet) == \E i, j \in DOMAIN sheet : i # j /\ sheet[i].id = sheet[j].id

\* validate_cell: the field its kind requires is there.
HasItsField(def) ==
  CASE def.kind = "value"    -> def.value # Absent
    [] def.kind = "formula"  -> def.expr # Absent
    [] def.kind = "api"      -> def.endpoint # Absent
    [] def.kind = "program"  -> def.code.do # Absent
    [] def.kind = "io"       -> def.port # Absent
    [] def.kind = "listener" -> def.watch # << >>
    [] def.kind = "router"   -> def.rules # << >>
    [] def.kind = "sensor"   -> TRUE

ValidCell(def) == Trim(def.id) # "" /\ HasItsField(def)

WatchesExist(sheet) ==
  \A i \in DOMAIN sheet :
    sheet[i].kind = "listener" => ToSet(sheet[i].watch) \subseteq IdsOf(sheet)

\* The cells the rules of a router route to.
TargetsOf(def) ==
  {r.route.cell : r \in {q \in ToSet(def.rules) : q.route.to = "cell"}}

\* Mutant: only the first rule's target is looked up.
RoutesExistFirst(sheet) ==
  \A i \in DOMAIN sheet :
    LET first == SubSeq(sheet[i].rules, 1, 1)
    IN sheet[i].kind = "router" =>
         TargetsOf([sheet[i] EXCEPT !.rules = first]) \subseteq IdsOf(sheet)

RoutesExist(sheet) ==
  \A i \in DOMAIN sheet :
    sheet[i].kind = "router" => TargetsOf(sheet[i]) \subseteq IdsOf(sheet)

ValidSheet(sheet) ==
  /\ ~ HasDuplicate(sheet)
  /\ \A i \in DOMAIN sheet : ValidCell(sheet[i])
  /\ WatchesExist(sheet)
  /\ RoutesExist(sheet)
=============================================================================
