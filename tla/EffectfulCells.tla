--------------------------- MODULE EffectfulCells ---------------------------
(***************************************************************************)
(* The effectful cells of packages/core/src/cells and how the engine asks  *)
(* them: api cells answered by a server, program cells whose script has a  *)
(* handle on the engine, router cells that delegate, listener cells an     *)
(* embedding program fires.  get always evaluates them; call first looks   *)
(* in the cell's context cache.                                            *)
(*                                                                         *)
(* One caller at a time: module Engine has the threads, and the formulas.  *)
(* A script is one step of the runtime handle (its do), an endpoint is the *)
(* part of the context it names, and a server that answers sends back what *)
(* it was asked for.                                                       *)
(***************************************************************************)
EXTENDS SheetParser

CONSTANTS
  Sheets,  \* the sheets there are to load
  Extras,  \* the defs register may be given
  Row,     \* values of the caller's row
  Datum,   \* data given to set, push and call
  MaxOps   \* bound on operations

\* What a def is, whoever made it.
WellFormed(def) ==
  /\ def.kind \in {"value", "sensor", "io", "api", "program", "router", "listener"}
  /\ def.code.do \in {Absent, "fail", "input", "row", "meta", "get", "call", "set"}
  /\ def.rules \in Seq(ToSet(def.rules))
  /\ \A rule \in ToSet(def.rules) : rule.route.to \in {"cell", "value", "model"}

ASSUME EffectfulAssumption ==
  /\ \A sheet \in Sheets :
       sheet \in Seq(ToSet(sheet)) /\ \A def \in ToSet(sheet) : WellFormed(def)
  /\ \A def \in Extras : WellFormed(def)

VARIABLES
  cells,    \* the graph: [def, value, cache, dependents, last] of each id
  accepted, \* history: what is loaded is a sheet the parser accepted
  stack,    \* the requests in progress, each made inside the one before
  turn,     \* where the last of them stands
  answer,   \* the last get or call and what came back
  ops

effectVars == << cells, accepted, stack, turn, answer, ops >>

Null == "null"

ReadyOf(data)  == [data |-> data, status |-> "ready", error |-> "none"]
IdleOf         == [data |-> Null, status |-> "idle", error |-> "none"]
StaleOf        == [data |-> Null, status |-> "stale", error |-> "none"]
ErrorOf(error) == [data |-> Null, status |-> "error", error |-> error]

\* Result<CellValue>
Ok(value)  == [ok |-> TRUE, value |-> value, error |-> "none"]
Err(error) == [ok |-> FALSE, value |-> IdleOf, error |-> error]

\* No answer ever comes: the call is inside itself.
Diverges == Err("diverges")

-----------------------------------------------------------------------------
\* Contexts.

Context(row, meta) == [row |-> row, meta |-> meta, caller |-> Absent]

\* extend_context without overrides.
Extended(ctx, id) == [ctx EXCEPT !.caller = id]

\* Mutant: a context key without the row.
ContextKeyNoRow(ctx) == << ctx.caller >>

\* context_key: neither the metadata nor the input of a call is in it.
ContextKey(ctx) == << ctx.row, ctx.caller >>

\* A context value as a script sees it, and as substitute puts it in a url.
Seen(field) == IF field = Absent THEN Null ELSE field
Substituted(endpoint, ctx) ==
  LET field == IF endpoint = "{{row}}" THEN ctx.row ELSE ctx.meta
  IN IF endpoint \notin {"{{row}}", "{{meta}}"} THEN endpoint
     ELSE IF field = Absent THEN "" ELSE field

-----------------------------------------------------------------------------
\* The graph.

NewCell(def) ==
  [def |-> def,
   value |-> IF def.value # Absent THEN ReadyOf(def.value) ELSE IdleOf,
   cache |-> << >>, dependents |-> {}, last |-> Context(Absent, Absent)]

\* add_dep_locked of every declared dependency between cells that are there.
Linked(graph) ==
  [id \in DOMAIN graph |->
    [graph[id] EXCEPT !.dependents = {d \in DOMAIN graph : id \in graph[d].def.deps}]]

\* load_sheet: of two defs with one id the later stays.
Loaded(sheet) ==
  Linked([id \in IdsOf(sheet) |->
    NewCell(sheet[CHOOSE i \in DOMAIN sheet :
      /\ sheet[i].id = id
      /\ \A j \in DOMAIN sheet : sheet[j].id = id => j <= i])])

\* register: only the new cell's own deps make edges.
Registered(graph, def) ==
  [id \in DOMAIN graph \cup {def.id} |->
    IF id = def.id THEN [NewCell(def) EXCEPT !.dependents = IF id \in def.deps THEN {id} ELSE {}]
    ELSE IF id \in def.deps THEN [graph[id] EXCEPT !.dependents = @ \cup {def.id}]
    ELSE graph[id]]

\* The least set that has ids and, with a cell, the cells next to it.
Closure(next, ids) ==
  {d \in DOMAIN next :
    \A S \in SUBSET DOMAIN next : (ids \subseteq S /\ \A c \in S : next[c] \subseteq S) => d \in S}

\* The cells propagate reaches, on a graph without cycles of dependencies.
Downstream(graph, id) ==
  Closure([d \in DOMAIN graph |-> graph[d].dependents], graph[id].dependents)

\* propagate: only value and formula cells go stale; programs and routers
\* that depend on the change keep what they cached.
Propagated(graph, id) ==
  [d \in DOMAIN graph |->
    IF d \in Downstream(graph, id) /\ graph[d].def.kind \in {"value", "formula"}
    THEN [graph[d] EXCEPT !.value = StaleOf, !.cache = << >>]
    ELSE graph[d]]

\* The cells an operation can name: normalize_id refuses an empty id.
Askable(graph) == DOMAIN graph \ {""}

\* set, on a cell of any kind.
WithSet(graph, id, data) ==
  Propagated([graph EXCEPT ![id].value = ReadyOf(data), ![id].cache = << >>], id)

\* push leaves the cache as it is.
WithPushed(graph, id, data) ==
  Propagated([graph EXCEPT ![id].value = ReadyOf(data)], id)

\* cache_result
Cached(graph, id, ctx, value) ==
  LET key == ContextKey(ctx)
      cache == [k \in DOMAIN graph[id].cache \cup {key} |->
                  IF k = key THEN value ELSE graph[id].cache[k]]
  IN [graph EXCEPT ![id].cache = cache, ![id].value = value, ![id].last = ctx]

\* Mutant: call takes a cached failure for an answer.
HitAny(cell, ctx) == ContextKey(ctx) \in DOMAIN cell.cache

\* What call finds in the cache: an answer that is ready and no error.
Hit(cell, ctx) ==
  /\ ContextKey(ctx) \in DOMAIN cell.cache
  /\ cell.cache[ContextKey(ctx)].status = "ready"
  /\ cell.cache[ContextKey(ctx)].error = "none"

\* Mutant: get answers from the cache too.
ServesGet(op, cell, ctx) == Hit(cell, ctx)

\* Only call answers from the cache.
Serves(op, cell, ctx) == op = "call" /\ Hit(cell, ctx)

-----------------------------------------------------------------------------
\* The evaluators.  frame is the request being answered, [op, id, input, ctx],
\* its id trimmed and its context extended.

EvaluateValue(cell) ==
  IF cell.value.status = "ready" THEN ReadyOf(cell.value.data)
  ELSE ReadyOf(Seen(cell.def.value))

\* evaluate_api; net says what becomes of the request.
EvaluateApi(def, ctx, net) ==
  CASE def.endpoint = Absent -> ErrorOf("no endpoint")
    [] def.endpoint \in {"model:", "mcp://"} -> ReadyOf("note")
    [] def.endpoint \notin {Absent, "model:", "mcp://"} ->
         IF net = "answers" THEN ReadyOf(Substituted(def.endpoint, ctx)) ELSE ErrorOf("http")

RuleMatches(when, ctx, input) ==
  CASE when.is = "true"  -> TRUE
    [] when.is = "row"   -> ctx.row = when.value
    [] when.is = "input" -> input # Absent /\ input = when.value
    [] when.is \notin {"true", "row", "input"} -> FALSE

\* The rule that wins, 0 when none matches.
Winner(rules, ctx, input) ==
  LET matching == {i \in DOMAIN rules : RuleMatches(rules[i].when, ctx, input)}
  IN IF matching = {} THEN 0 ELSE Min(matching)

RouteOf(def, frame) == def.rules[Winner(def.rules, frame.ctx, frame.input)].route

\* The evaluation asks another cell: a script by qget or qcall, a router by
\* the route of the rule that wins.
Delegates(def, frame) ==
  \/ def.kind = "program" /\ def.code.do \in {"get", "call"}
  \/ /\ def.kind = "router" /\ Winner(def.rules, frame.ctx, frame.input) # 0
     /\ RouteOf(def, frame).to = "cell"

\* What it asks: a route may give other metadata, null is no input.
Asks(op, id, input, ctx) == [is |-> "ask", op |-> op, id |-> id, input |-> input, ctx |-> ctx]
Delegated(def, frame) ==
  LET route == RouteOf(def, frame)
      given == IF def.code.do = "call" /\ frame.input # Null THEN frame.input ELSE Absent
  IN IF def.kind = "program" THEN Asks(def.code.do, def.code.of, given, frame.ctx)
     ELSE Asks("call", route.cell, frame.input,
               IF route.with = Absent THEN frame.ctx ELSE [frame.ctx EXCEPT !.meta = route.with])

\* What it makes of the answer: qget and qcall hand the script the data, or a
\* map without any; a router passes the answer on.
Taken(def, result) ==
  IF def.kind = "program" /\ result # Diverges
  THEN Ok(ReadyOf(IF result.ok THEN result.value.data ELSE Null)) ELSE result

\* evaluate_program of a script that asks nobody.
EvaluateProgram(def, frame) ==
  CASE def.code.do = Absent  -> ErrorOf("no code")
    [] def.code.do = "fail"  -> ErrorOf("script")
    [] def.code.do \in {"input", "set"} -> ReadyOf(Seen(frame.input))
    [] def.code.do = "row"   -> ReadyOf(Seen(frame.ctx.row))
    [] def.code.do = "meta"  -> ReadyOf(Seen(frame.ctx.meta))

\* evaluate_router where no rule matches or the route leads to no cell.
EvaluateRouter(def, frame) ==
  LET given == Seen(frame.input) IN
  CASE Winner(def.rules, frame.ctx, frame.input) = 0 -> ReadyOf(given)
    [] Winner(def.rules, frame.ctx, frame.input) # 0 ->
         IF RouteOf(def, frame).to = "value" THEN ReadyOf(RouteOf(def, frame).value)
         ELSE [ErrorOf("model swap") EXCEPT !.data = given]

\* The value an evaluation that asks nobody comes to.
Evaluated(cell, frame, net) ==
  CASE cell.def.kind = "value"   -> EvaluateValue(cell)
    [] cell.def.kind = "api"     -> EvaluateApi(cell.def, frame.ctx, net)
    [] cell.def.kind = "program" -> EvaluateProgram(cell.def, frame)
    [] cell.def.kind = "router"  -> EvaluateRouter(cell.def, frame)
    [] cell.def.kind \in {"sensor", "io", "listener"} -> cell.value

\* The graph it leaves: a script may set a cell.
Touched(graph, frame) ==
  LET def == graph[frame.id].def IN
  IF def.kind = "program" /\ def.code.do = "set" /\ Trim(def.code.of) \in Askable(graph)
  THEN WithSet(graph, Trim(def.code.of), Seen(frame.input)) ELSE graph

\* get caches what an effectful cell answered, call what any cell did.
CachesIt(op, kind) == op = "call" \/ kind \in {"api", "program", "router"}

Stored(graph, frame, result) ==
  IF result.ok /\ CachesIt(frame.op, graph[frame.id].def.kind)
  THEN Cached(graph, frame.id, frame.ctx, result.value) ELSE graph

-----------------------------------------------------------------------------
\* A get or call on its way through the cells: turn is the request about to be
\* looked up or the answer on its way back, stack the requests it is inside of.

Idle          == [is |-> "idle"]
Gives(result) == [is |-> "give", result |-> result]

Requested == [op |-> turn.op, id |-> Trim(turn.id), input |-> turn.input,
              ctx |-> Extended(turn.ctx, Trim(turn.id))]

\* An answer goes to the request it was asked for in, or to the caller.
Answer(rest, result) ==
  /\ stack' = rest
  /\ turn' = IF rest = << >> THEN Idle ELSE Gives(result)
  /\ answer' = IF rest = << >> THEN [answer EXCEPT !.result = result] ELSE answer
  /\ UNCHANGED << accepted, ops >>

\* The request is of a cell there is, and not inside itself.
Sound == /\ turn.is = "ask" /\ Requested.id # "" /\ Requested.id \in DOMAIN cells
         /\ Requested \notin ToSet(stack)

Refuse ==
  /\ turn.is = "ask"
  /\ \/ Requested.id = "" /\ Answer(stack, Err("invalid id"))
     \/ Requested.id \notin {""} \cup DOMAIN cells /\ Answer(stack, Err("not found"))
     \/ /\ Requested.id \in DOMAIN cells \ {""} /\ Requested \in ToSet(stack)
        /\ Answer(stack, Diverges)
  /\ UNCHANGED cells

Serve ==
  /\ Sound /\ Serves(Requested.op, cells[Requested.id], Requested.ctx)
  /\ Answer(stack, Ok(cells[Requested.id].cache[ContextKey(Requested.ctx)]))
  /\ UNCHANGED cells

Delegate ==
  /\ Sound /\ ~ Serves(Requested.op, cells[Requested.id], Requested.ctx)
  /\ Delegates(cells[Requested.id].def, Requested)
  /\ stack' = Append(stack, Requested)
  /\ turn' = Delegated(cells[Requested.id].def, Requested)
  /\ UNCHANGED << cells, accepted, answer, ops >>

Evaluate ==
  /\ Sound /\ ~ Serves(Requested.op, cells[Requested.id], Requested.ctx)
  /\ ~ Delegates(cells[Requested.id].def, Requested)
  /\ LET result == Ok(Evaluated(cells[Requested.id], Requested, answer.net)) IN
       /\ cells' = Stored(Touched(cells, Requested), Requested, result)
       /\ Answer(stack, result)

Return ==
  /\ turn.is = "give"
  /\ LET frame  == Last(stack)
         result == Taken(cells[frame.id].def, turn.result)
     IN /\ cells' = Stored(cells, frame, result)
        /\ Answer(Front(stack), result)

InFlight == Refuse \/ Serve \/ Delegate \/ Evaluate \/ Return

-----------------------------------------------------------------------------
\* What an embedding program does.

NoAnswer == [op |-> "none", id |-> "", row |-> Absent, net |-> "answers", result |-> Ok(IdleOf)]

EffectInit ==
  /\ cells = << >> /\ accepted = TRUE
  /\ stack = << >> /\ turn = Idle /\ answer = NoAnswer /\ ops = 0

\* What every operation asks for: a call inside itself never returns, so
\* nothing follows it.
Step == turn = Idle /\ answer.result # Diverges /\ ops < MaxOps /\ ops' = ops + 1

\* The caller's request sets out.
Begin(request, op, net) ==
  /\ turn' = request
  /\ answer' = [NoAnswer EXCEPT !.op = op, !.id = Trim(request.id),
                                !.row = request.ctx.row, !.net = net]
  /\ UNCHANGED << cells, accepted, stack >>

Get(id, ctx, net)         == Begin(Asks("get", id, Absent, ctx), "get", net)
Call(id, input, ctx, net) == Begin(Asks("call", id, input, ctx), "call", net)

\* The other operations are over at once.
Over == answer' = NoAnswer /\ UNCHANGED << stack, turn >>

Set(id, data) ==
  /\ Over
  /\ cells' = IF Trim(id) \in Askable(cells) THEN WithSet(cells, Trim(id), data) ELSE cells
  /\ UNCHANGED accepted

Push(id, data) ==
  /\ Over
  /\ cells' = IF Trim(id) \in Askable(cells) /\ cells[Trim(id)].def.kind \in {"sensor", "io"}
              THEN WithPushed(cells, Trim(id), data) ELSE cells
  /\ UNCHANGED accepted

\* parse_sheet, then load_sheet: a sheet the parser refuses changes nothing.
ParseAndLoad(sheet) ==
  /\ Over
  /\ IF ValidSheet(sheet) THEN cells' = Loaded(sheet) /\ accepted' = TRUE
                          ELSE UNCHANGED << cells, accepted >>

\* load_sheet of a SheetDef that was built and not parsed.
LoadSheet(sheet) ==
  /\ Over
  /\ cells' = Loaded(sheet) /\ accepted' = FALSE

Register(def) ==
  /\ Over
  /\ cells' = IF def.id \in DOMAIN cells THEN cells ELSE Registered(cells, def)
  /\ accepted' = (accepted /\ def.id \in DOMAIN cells)

ConditionHolds(condition, data) ==
  CASE condition.is = "false"    -> FALSE
    [] condition.is = "nonempty" -> data \notin {Null, ""}
    [] condition.is = "empty"    -> data \in {Null, ""}
    [] condition.is = "equals"   -> data = condition.value
    [] condition.is \notin {"false", "nonempty", "empty", "equals"} -> TRUE

\* fire_listener, which the engine leaves to its embedder: an error of the
\* action is dropped.
FireListener(id, changed, net) ==
  /\ {id, changed} \subseteq DOMAIN cells /\ cells[id].def.kind = "listener"
  /\ LET def  == cells[id].def
         data == cells[changed].value.data
         fires == changed \in ToSet(def.watch) /\ ConditionHolds(def.condition, data)
     IN IF fires /\ def.action # Absent
        THEN Begin(Asks("call", def.action, data, cells[id].last), "fire", net)
        ELSE Over /\ UNCHANGED << cells, accepted >>

-----------------------------------------------------------------------------
\* Properties.

\* The cells whose evaluation may ask other cells, and which.
Delegations(graph) ==
  [id \in DOMAIN graph |->
    LET def == graph[id].def IN
    {Trim(t) : t \in (IF def.kind = "router" THEN TargetsOf(def) ELSE {}) \cup
                     (IF def.kind = "program" /\ def.code.do \in {"get", "call"}
                      THEN {def.code.of} ELSE {})}
      \cap DOMAIN graph]

\* The cell is asked again while it is being asked, along some delegation.
OnCycle(graph, id) == id \in Closure(Delegations(graph), Delegations(graph)[id])

ReachesCycle(graph, id) ==
  \E c \in Closure(Delegations(graph), {id}) : OnCycle(graph, c)

Answered == turn = Idle /\ answer.op \in {"get", "call"} /\ answer.id \in DOMAIN cells

\* What the parser accepts, the evaluators can answer: on an accepted sheet
\* whose ids have no blanks around them, no get or call of a cell of it ends
\* at a cell that is not there or at a field that is missing, and one that
\* never ends is of a cell whose delegations go round.
AcceptedSheetsAnswer ==
  (accepted /\ Answered /\ \A id \in DOMAIN cells : Trim(id) = id) =>
    /\ answer.result.error \in {"none", "diverges"}
    /\ answer.result.value.error \notin {"no code", "no endpoint"}
    /\ answer.result = Diverges => ReachesCycle(cells, answer.id)

\* Cells that answer with the row of their caller: a script or an endpoint
\* that names it, and what delegates to one of these on every path.
TellRow(graph) ==
  {id \in DOMAIN graph :
    LET def == graph[id].def IN
    \/ def.kind = "program" /\ def.code.do = "row"
    \/ def.kind = "api" /\ def.endpoint = "{{row}}"}

PassOnRow(graph) ==
  {id \in DOMAIN graph :
    LET def == graph[id].def IN
    \/ def.kind = "program" /\ def.code.do = "call" /\ Trim(def.code.of) \in TellRow(graph)
    \/ /\ def.kind = "router" /\ {Trim(t) : t \in TargetsOf(def)} \subseteq TellRow(graph)
       /\ \A r \in ToSet(def.rules) : r.route.to = "cell"
       /\ \E r \in ToSet(def.rules) : r.when.is = "true"}

\* No caller gets what was computed for another row: whatever was asked
\* before, in whatever context, and cached on the way, a cell that answers
\* with its caller's row answers with the row of this caller, or with nothing
\* where a server failed it.
OwnRowAnswers ==
  (Answered /\ answer.row # Absent /\ answer.result.ok
     /\ answer.id \in TellRow(cells) \cup PassOnRow(cells)) =>
    answer.result.value.data \in {answer.row, Null}

\* The programs that read a cell that holds data, directly and by asking
\* another program for it.
ReadDirectly(graph) ==
  {p \in Askable(graph) \X Askable(graph) :
    /\ graph[p[1]].def.kind = "program" /\ graph[p[1]].def.code.do = "get"
    /\ Trim(graph[p[1]].def.code.of) = p[2]
    /\ graph[p[2]].def.kind \in {"value", "sensor", "io"}}

ReadThrough(graph) ==
  {p \in Askable(graph) \X Askable(graph) :
    /\ graph[p[1]].def.kind = "program" /\ graph[p[1]].def.code.do = "get"
    /\ << Trim(graph[p[1]].def.code.of), p[2] >> \in ReadDirectly(graph)}

\* What such a cell holds.
DataOf(cell) == IF cell.def.kind = "value" THEN EvaluateValue(cell).data ELSE cell.value.data

\* get reads through: a program asked by get for another cell's data answers
\* with the data of now, whatever was called, set or pushed before and is
\* still in the caches.  (call does not: see engine.rs:372.)
GetReadsThrough ==
  (Answered /\ answer.op = "get" /\ answer.result.ok) =>
    \A p \in ReadDirectly(cells) \cup ReadThrough(cells) :
      p[1] = answer.id => answer.result.value.data = DataOf(cells[p[2]])

\* A failed request is tried again: a call or get that answers with a failure
\* of the server made its own request, whose failure it is.
FailuresAreRetried ==
  (Answered /\ answer.result.value.error = "http") => answer.net # "answers"
=============================================================================
