------------------------------- MODULE Engine -------------------------------
(***************************************************************************)
(* The reactive engine of packages/core/src/engine.rs shared by threads:   *)
(* get, call, set, push, load_sheet and register, each cut into the        *)
(* critical sections of the cells lock, which is released between them.    *)
(*                                                                         *)
(* Kinds modelled: value, formula, sensor and io.  A formula is a free     *)
(* function of its context and of the operands it names.  Contexts are     *)
(* what context_key tells apart beyond the cell itself: extend_context     *)
(* makes a cell its own caller.  A def is the same in every sheet, so the  *)
(* locks that only look up a kind, one after the other, are one step.      *)
(***************************************************************************)
EXTENDS Naturals, SequencesExt

CONSTANTS
  Cell, Thread, Ctx,
  Kind,        \* Kind[c]: "value", "formula", "sensor" or "io"
  Declared,    \* Declared[c]: the deps of c's def
  Mentioned,   \* Mentioned[c]: the cells the expression of formula c names
  FailsOnNull, \* formulas whose evaluation fails on a null operand
  Sheets,      \* the cell sets load_sheet may be given; one is loaded first
  Subscriber,  \* subscriptions: [all |-> BOOLEAN, cell |-> ...]
  InSubId,     \* cells whose id occurs in the text of a subscription id
  Datum,       \* values set and pushed
  Null,
  Reader,      \* threads that get and call
  Writer,      \* threads that set and push
  Loader,      \* threads that load and register
  Callable,    \* cells that are called, not only got
  Settable,    \* cells that are set
  MaxOps       \* bound on operations

ASSUME EngineAssumption ==
  /\ Kind \in [Cell -> {"value", "formula", "sensor", "io"}]
  /\ Declared \in [Cell -> SUBSET Cell] /\ Mentioned \in [Cell -> SUBSET Cell]
  /\ FailsOnNull \subseteq Cell /\ InSubId \subseteq Cell /\ Callable \subseteq Cell
  /\ Settable \subseteq Cell
  /\ Sheets \subseteq SUBSET Cell /\ Sheets # {}
  /\ Reader \subseteq Thread /\ Writer \subseteq Thread /\ Loader \subseteq Thread
  /\ Null \notin Datum /\ MaxOps \in Nat

VARIABLES
  cells,    \* the graph: the loaded cells, each [value, cache, deps, dependents]
  stack,    \* stack[t]: the calls thread t is in, innermost first
  answer,   \* answer[t]: what the last finished get or call of t returned
  channel,  \* channel[s]: the events sent to a subscription
  written,  \* history: [cell, data] of every set and push, in lock order
  panicked, \* some expect("checked above") failed
  ops

vars == << cells, stack, answer, channel, written, panicked, ops >>

-----------------------------------------------------------------------------
\* Values and cells.

ReadyValue(d) == [data |-> d, status |-> "ready"]
IdleValue     == [data |-> Null, status |-> "idle"]
StaleValue    == [data |-> Null, status |-> "stale"]
ErrorValue    == [data |-> Null, status |-> "error"]

Formulas == {c \in Cell : Kind[c] = "formula"}

\* Every value cell has the data of its def, named by the cell itself.
DefData(c) == [def |-> c]

NewCell(c) ==
  [value |-> IF Kind[c] = "value" THEN ReadyValue(DefData(c)) ELSE IdleValue,
   cache |-> << >>, deps |-> {}, dependents |-> {}]

\* add_dep_locked over a set of pairs <<from, to>>.
Linked(g, pairs) ==
  [c \in DOMAIN g |->
    [g[c] EXCEPT !.deps = @ \cup {p[2] : p \in {q \in pairs : q[1] = c}},
                 !.dependents = @ \cup {p[1] : p \in {q \in pairs : q[2] = c}}]]

PairsOf(c, deps, present) == {c} \X (deps \cap present)

\* load_sheet: all cells anew, with declared and detected dependencies.
Loaded(sheet) ==
  Linked([c \in sheet |-> NewCell(c)],
         UNION {PairsOf(c, Declared[c] \cup (Mentioned[c] \ {c}), sheet) : c \in sheet})

\* register: one more cell, with its declared dependencies only.
Registered(g, c) ==
  LET h == [d \in DOMAIN g \cup {c} |-> IF d = c THEN NewCell(c) ELSE g[d]]
  IN  Linked(h, PairsOf(c, Declared[c], DOMAIN h))

\* The context cache is a function from the contexts it holds.
CacheHas(cell, x) == x \in DOMAIN cell.cache /\ cell.cache[x].status = "ready"

Cached(cell, x, v) ==
  [cell EXCEPT !.value = v,
               !.cache = [y \in DOMAIN @ \cup {x} |-> IF y = x THEN v ELSE @[y]]]

\* evaluate_value.
ValueOf(c, cell) == IF cell.value.status = "ready" THEN cell.value
                    ELSE ReadyValue(DefData(c))

\* FormulaEngine: an operand missing from the snapshot is an unknown variable.
Evaluated(c, x, snapshot) ==
  IF \/ ~ (Mentioned[c] \subseteq DOMAIN snapshot)
     \/ c \in FailsOnNull /\ \E d \in Mentioned[c] : snapshot[d] = Null
  THEN ErrorValue
  ELSE ReadyValue([formula |-> c, ctx |-> x,
                   of |-> [d \in Mentioned[c] |-> snapshot[d]]])

\* evaluate_formula.
FormulaOf(c, cell, x, snapshot) ==
  IF CacheHas(cell, x) THEN cell.cache[x] ELSE Evaluated(c, x, snapshot)

-----------------------------------------------------------------------------
\* Threads.  A frame is one call in progress: where it stands, on which cell,
\* in which context, the neighbours it has collected and those it has still to
\* visit, the snapshot it has taken and the value it holds.

Frame(at, c, x, near, data) ==
  [at |-> at, cell |-> c, ctx |-> x, near |-> near, todo |-> near,
   seen |-> << >>, data |-> data]

NoCtx == CHOOSE x \in Ctx : TRUE
NoData == IdleValue

Idle(t)     == stack[t] = << >>
Top(t)      == stack[t][1]
At(t, at)   == ~ Idle(t) /\ Top(t).at = at
IsLoaded(c) == c \in DOMAIN cells

Goto(t, f)  == stack' = [stack EXCEPT ![t] = << f >> \o Tail(@)]
Enter(t, f) == stack' = [stack EXCEPT ![t] = << f >> \o @]
Leave(t)    == stack' = [stack EXCEPT ![t] = Tail(@)]

None == << >>
Some(c, x, v, n) == << [cell |-> c, ctx |-> x, value |-> v, op |-> n] >>

\* The innermost get returns v: to a call that awaits it, to a snapshot that
\* ignores it, or to the thread's caller.
Return(t, v) ==
  LET rest == Tail(stack[t]) IN
  /\ stack' = [stack EXCEPT ![t] =
       IF rest # << >> /\ rest[1].at = "await"
       THEN << [rest[1] EXCEPT !.at = "store", !.data = v] >> \o Tail(rest)
       ELSE rest]
  /\ answer' = IF rest = << >>
               THEN [answer EXCEPT ![t] =
                       Some(Top(t).cell, Top(t).ctx, v, ops)]
               ELSE answer

\* expect("checked above") on a cell that is gone.
Panic(t) == /\ panicked' = TRUE
            /\ stack' = [stack EXCEPT ![t] = << >>]
            /\ UNCHANGED << cells, answer, channel, written, ops >>

Begin(t) == /\ Idle(t) /\ ~ panicked
            /\ ops < MaxOps /\ ops' = ops + 1
            /\ answer' = [answer EXCEPT ![t] = None]

\* The frame of a get that has found cell c.
GetFrame(c, x) ==
  Frame(IF Kind[c] = "formula" THEN "collect" ELSE "read", c, x, {}, NoData)

-----------------------------------------------------------------------------
\* get and call.

GetBegin(t, c, x) ==
  /\ Begin(t) /\ IsLoaded(c)
  /\ Enter(t, GetFrame(c, x))
  /\ UNCHANGED << cells, channel, written, panicked >>

\* A cached result is returned at once; else the cell is got, or read, and
\* what came back is cached.
CallBegin(t, c, x) ==
  /\ Begin(t) /\ IsLoaded(c)
  /\ ~ CacheHas(cells[c], x)
  /\ stack' = [stack EXCEPT ![t] =
                 << GetFrame(c, x), Frame("await", c, x, {}, NoData) >>]
  /\ UNCHANGED << cells, channel, written, panicked >>

CallHit(t, c, x) ==
  /\ Idle(t) /\ ~ panicked /\ ops < MaxOps /\ ops' = ops + 1
  /\ IsLoaded(c) /\ CacheHas(cells[c], x)
  /\ answer' = [answer EXCEPT ![t] =
                  Some(c, x, cells[c].cache[x], ops')]
  /\ UNCHANGED << cells, stack, channel, written, panicked >>

\* A value, sensor or io cell is read under one read lock.
ReadCell(t) ==
  /\ At(t, "read")
  /\ LET c == Top(t).cell IN
       IF ~ IsLoaded(c) THEN Panic(t)
       ELSE /\ Return(t, IF Kind[c] = "value" THEN ValueOf(c, cells[c])
                         ELSE cells[c].value)
            /\ UNCHANGED << cells, channel, written, panicked, ops >>

\* build_formula_snapshot: the dependencies and their kinds under one lock,
Collect(t) ==
  /\ At(t, "collect")
  /\ LET c == Top(t).cell
         ds == IF IsLoaded(c) THEN cells[c].deps ELSE {}
     IN  Goto(t, [Top(t) EXCEPT !.at = "deps", !.near = ds,
                                !.todo = ds \cap Formulas])
  /\ UNCHANGED << cells, answer, channel, written, panicked, ops >>

\* then a get of every formula among them, in any order.
GetDependency(t) ==
  /\ At(t, "deps")
  /\ \E d \in Top(t).todo :
       LET waiting == [Top(t) EXCEPT !.todo = @ \ {d}] IN
       IF IsLoaded(d)
       THEN stack' = [stack EXCEPT ![t] = << GetFrame(d, Top(t).ctx), waiting >> \o Tail(@)]
       ELSE Goto(t, waiting)
  /\ UNCHANGED << cells, answer, channel, written, panicked, ops >>

\* Mutant: it waits for a first reading of every sensor.
TakeSnapshotWaits(t) ==
  /\ At(t, "deps") /\ Top(t).todo = {}
  /\ \A d \in Top(t).near : cells[d].value.status # "idle" \/ Kind[d] = "formula"
  /\ Goto(t, [Top(t) EXCEPT !.at = "evaluate",
                !.seen = [d \in Top(t).near |-> cells[d].value.data]])
  /\ UNCHANGED << cells, answer, channel, written, panicked, ops >>

\* Then it reads them all under one lock: a formula's result in this context
\* from its cache, null when it is not there, another cell's current value.
TakeSnapshot(t) ==
  /\ At(t, "deps") /\ Top(t).todo = {}
  /\ LET operand(d) ==
           IF Kind[d] # "formula" THEN cells[d].value.data
           ELSE IF Top(t).ctx \in DOMAIN cells[d].cache
                THEN cells[d].cache[Top(t).ctx].data ELSE Null
     IN  Goto(t, [Top(t) EXCEPT !.at = "evaluate",
                                !.seen = [d \in Top(t).near \cap DOMAIN cells |-> operand(d)]])
  /\ UNCHANGED << cells, answer, channel, written, panicked, ops >>

Evaluate(t) ==
  /\ At(t, "evaluate")
  /\ LET c == Top(t).cell IN
       IF ~ IsLoaded(c) THEN Panic(t)
       ELSE /\ Goto(t, [Top(t) EXCEPT !.at = "store",
                          !.data = FormulaOf(c, cells[c], Top(t).ctx, Top(t).seen)])
            /\ UNCHANGED << cells, answer, channel, written, panicked, ops >>

\* cache_result, under a write lock of its own.
Store(t) ==
  /\ At(t, "store")
  /\ LET c == Top(t).cell IN
       /\ cells' = IF IsLoaded(c)
                   THEN [cells EXCEPT ![c] = Cached(@, Top(t).ctx, Top(t).data)]
                   ELSE cells
       /\ Return(t, Top(t).data)
  /\ UNCHANGED << channel, written, panicked, ops >>

-----------------------------------------------------------------------------
\* set and push.

Write(c, d) == written' = Append(written, [cell |-> c, data |-> d])

\* Mutants: the cached results stay; nobody is told.
SetWriteKeepsCache(t, c, d) ==
  /\ Begin(t) /\ IsLoaded(c)
  /\ cells' = [cells EXCEPT ![c].value = ReadyValue(d)]
  /\ Write(c, d)
  /\ Enter(t, Frame("notify", c, NoCtx, {}, NoData))
  /\ UNCHANGED << channel, panicked >>

SetWriteSilent(t, c, d) ==
  /\ Begin(t) /\ IsLoaded(c)
  /\ cells' = [cells EXCEPT ![c].value = ReadyValue(d), ![c].cache = << >>]
  /\ Write(c, d)
  /\ Enter(t, Frame("propagate", c, NoCtx, {}, NoData))
  /\ UNCHANGED << channel, panicked >>

\* The write lock of set: the new value, and no cached result of the cell.
SetWrite(t, c, d) ==
  /\ Begin(t) /\ IsLoaded(c)
  /\ cells' = [cells EXCEPT ![c].value = ReadyValue(d), ![c].cache = << >>]
  /\ Write(c, d)
  /\ Enter(t, Frame("notify", c, NoCtx, {}, NoData))
  /\ UNCHANGED << channel, panicked >>

\* push checks the kind under a lock of its own.
PushBegin(t, c, d) ==
  /\ Begin(t) /\ IsLoaded(c) /\ Kind[c] \in {"sensor", "io"}
  /\ Enter(t, Frame("push", c, NoCtx, {}, ReadyValue(d)))
  /\ UNCHANGED << cells, channel, written, panicked >>

\* Mutant: only the first reading is stored.
PushWriteOnce(t) ==
  /\ At(t, "push")
  /\ LET c == Top(t).cell IN
       /\ cells' = IF cells[c].value.status = "idle"
                   THEN [cells EXCEPT ![c].value = Top(t).data] ELSE cells
       /\ Write(c, Top(t).data.data)
       /\ Goto(t, [Top(t) EXCEPT !.at = "notify", !.data = NoData])
  /\ UNCHANGED << answer, channel, panicked, ops >>

\* It leaves the context cache alone.
PushWrite(t) ==
  /\ At(t, "push")
  /\ LET c == Top(t).cell IN
       IF ~ IsLoaded(c) THEN Panic(t)
       ELSE /\ cells' = [cells EXCEPT ![c].value = Top(t).data]
            /\ Write(c, Top(t).data.data)
            /\ Goto(t, [Top(t) EXCEPT !.at = "notify", !.data = NoData])
            /\ UNCHANGED << answer, channel, panicked, ops >>

\* notify_change reads the value again, then sends it.
NotifyRead(t) ==
  /\ At(t, "notify")
  /\ LET c == Top(t).cell IN
       Goto(t, IF IsLoaded(c) THEN [Top(t) EXCEPT !.at = "send", !.data = cells[c].value]
               ELSE [Top(t) EXCEPT !.at = "propagate"])
  /\ UNCHANGED << cells, answer, channel, written, panicked, ops >>

Matches(s, c) == s.all \/ c \in InSubId

NotifySend(t) ==
  /\ At(t, "send")
  /\ LET event == [cell |-> Top(t).cell, data |-> Top(t).data.data] IN
       channel' = [s \in Subscriber |-> IF Matches(s, event.cell)
                                        THEN Append(channel[s], event) ELSE channel[s]]
  /\ Goto(t, [Top(t) EXCEPT !.at = "propagate", !.data = NoData])
  /\ UNCHANGED << cells, answer, written, panicked, ops >>

\* propagate: collect the dependents under a read lock,
Propagate(t) ==
  /\ At(t, "propagate")
  /\ LET ds == IF IsLoaded(Top(t).cell) THEN cells[Top(t).cell].dependents ELSE {} IN
       Goto(t, [Top(t) EXCEPT !.at = "mark", !.near = ds, !.todo = ds])
  /\ UNCHANGED << cells, answer, channel, written, panicked, ops >>

\* Mutant: the context cache stays.
MarkStaleKeepsCache(t) ==
  /\ At(t, "mark")
  /\ \E d \in Top(t).todo :
       /\ cells' = IF IsLoaded(d) /\ Kind[d] \in {"formula", "value"}
                   THEN [cells EXCEPT ![d].value = StaleValue] ELSE cells
       /\ Goto(t, [Top(t) EXCEPT !.todo = @ \ {d}])
  /\ UNCHANGED << answer, channel, written, panicked, ops >>

\* mark each formula or value dependent stale under a write lock of its own,
MarkStale(t) ==
  /\ At(t, "mark")
  /\ \E d \in Top(t).todo :
       /\ cells' = IF IsLoaded(d) /\ Kind[d] \in {"formula", "value"}
                   THEN [cells EXCEPT ![d].value = StaleValue, ![d].cache = << >>]
                   ELSE cells
       /\ Goto(t, [Top(t) EXCEPT !.todo = @ \ {d}])
  /\ UNCHANGED << answer, channel, written, panicked, ops >>

\* then propagate from each of them, with no record of where it has been.
Recurse(t) ==
  /\ \/ At(t, "mark") /\ Top(t).todo = {}
        /\ Goto(t, [Top(t) EXCEPT !.at = "recurse", !.todo = Top(t).near])
     \/ At(t, "recurse") /\ Top(t).todo # {}
        /\ \E d \in Top(t).todo :
             stack' = [stack EXCEPT ![t] =
               << Frame("propagate", d, NoCtx, {}, NoData),
                  [Top(t) EXCEPT !.todo = @ \ {d}] >> \o Tail(@)]
     \/ At(t, "recurse") /\ Top(t).todo = {} /\ Leave(t)
  /\ UNCHANGED << cells, answer, channel, written, panicked, ops >>

-----------------------------------------------------------------------------
\* load_sheet and register, each under one write lock.

LoadSheet(t, sheet) ==
  /\ Begin(t)
  /\ cells' = Loaded(sheet)
  /\ UNCHANGED << stack, channel, written, panicked >>

Register(t, c) ==
  /\ Begin(t) /\ ~ IsLoaded(c)
  /\ cells' = Registered(cells, c)
  /\ UNCHANGED << stack, channel, written, panicked >>

-----------------------------------------------------------------------------
Init ==
  /\ \E sheet \in Sheets : cells = Loaded(sheet)
  /\ stack = [t \in Thread |-> << >>]
  /\ answer = [t \in Thread |-> None]
  /\ channel = [s \in Subscriber |-> << >>]
  /\ written = << >>
  /\ panicked = FALSE
  /\ ops = 0

Step(t) ==
  \/ ReadCell(t) \/ Collect(t) \/ GetDependency(t) \/ TakeSnapshot(t) \/ Evaluate(t) \/ Store(t)
  \/ PushWrite(t) \/ NotifyRead(t) \/ NotifySend(t)
  \/ Propagate(t) \/ MarkStale(t) \/ Recurse(t)

Next ==
  \/ \E t \in Reader, c \in Cell, x \in Ctx : GetBegin(t, c, x)
  \/ \E t \in Reader, c \in Callable, x \in Ctx : CallBegin(t, c, x) \/ CallHit(t, c, x)
  \/ \E t \in Writer, d \in Datum : \/ \E c \in Settable : SetWrite(t, c, d)
                                    \/ \E c \in Cell : PushBegin(t, c, d)
  \/ \E t \in Loader : (\E s \in Sheets : LoadSheet(t, s)) \/ (\E c \in Cell : Register(t, c))
  \/ \E t \in Thread : Step(t)

\* A thread inside an operation keeps running.
Spec == Init /\ [][Next]_vars /\ \A t \in Thread : WF_vars(Step(t))

-----------------------------------------------------------------------------
(***************************************************************************)
(* Properties                                                              *)
(***************************************************************************)

Quiet == ~ panicked /\ \A t \in Thread : Idle(t)

\* What each cell of the graph h is worth in context x, computed from nothing
\* but the values of the cells that are not formulas.
Worth(h, x) ==
  LET worth[c \in DOMAIN h] ==
        IF Kind[c] = "formula"
        THEN Evaluated(c, x, [d \in h[c].deps |-> worth[d].data])
        ELSE h[c].value
  IN  worth

\* "The next get re-evaluates" (propagate): when no call is in progress, a
\* result a formula has cached is what evaluating it now would give.
FreshWhenQuiet ==
  Quiet => \A c \in Formulas \cap DOMAIN cells, x \in Ctx :
             CacheHas(cells[c], x) => cells[c].cache[x] = Worth(cells, x)[c]

\* The value a get or a call returns is what the cell is worth on its return.
FreshAnswers ==
  [][ \A t \in Reader :
        answer'[t] # answer[t] /\ answer'[t] # None =>
          LET a == answer'[t][1] IN
          a.value = IF Kind[a.cell] = "value" THEN ValueOf(a.cell, cells'[a.cell])
                    ELSE Worth(cells', a.ctx)[a.cell] ]_vars

LastWritten(c) ==
  written[Max({i \in 1..Len(written) : written[i].cell = c})].data

\* When no call is in progress, a cell holds what was last set or pushed: "its
\* value is whatever the adapter last pushed" (cells/sensor.rs).
WritesSettle ==
  Quiet => \A c \in {written[i].cell : i \in 1..Len(written)} :
             cells[c].value = ReadyValue(LastWritten(c))

\* "The engine never drops events" (engine.rs): whatever the interleaving, a
\* wildcard subscriber has been sent as many events as there were mutations,
\* each a value its cell once held by a mutation.
OneEventPerMutation ==
  Quiet => \A s \in Subscriber : s.all =>
             /\ Len(channel[s]) = Len(written)
             /\ \A i \in 1..Len(channel[s]) : channel[s][i] \in ToSet(written)

\* subscribe: "Subscribe to a single cell's changes. Returns a receiver that
\* yields SubscriptionEvent values".
SubscriberHears ==
  Quiet => \A s \in Subscriber : ~ s.all =>
             channel[s] = SelectSeq(written, LAMBDA w : w.cell = s.cell)

\* Every operation returns: no thread waits for another for ever, and
\* propagation ends.
OperationsFinish == \A t \in Thread : ~ Idle(t) ~> Idle(t)
=============================================================================
