-------------------------- MODULE EffectfulProofs --------------------------
(***************************************************************************)
(* Proofs about the effectful cells, for every sheet, every Trim and any   *)
(* number of operations: what a request that is answered from caches, from *)
(* other cells or by a server may come to.                                 *)
(***************************************************************************)
EXTENDS McpServer, Lemmas

\* What an answer from inside the flight is good for is said of the question
\* alone: the cell asked, whether by get or call, and the caller's row and
\* network, which do not change on the way.

IsContext(ctx) == ctx = [row |-> ctx.row, meta |-> ctx.meta, caller |-> ctx.caller]

IsCell(cell) ==
  /\ cell = [def |-> cell.def, value |-> cell.value, cache |-> cell.cache,
             dependents |-> cell.dependents, last |-> cell.last]
  /\ WellFormed(cell.def) /\ IsContext(cell.last)

\* What a cell holds that only its owner writes is no failure.
HeldKinds == {"sensor", "io", "listener"}

GraphOK(graph) ==
  /\ graph = [id \in DOMAIN graph |-> graph[id]]
  /\ \A id \in DOMAIN graph :
       IsCell(graph[id]) /\ (graph[id].def.kind \in HeldKinds => graph[id].value.error = "none")

\* PassOnRow, as long as some of the cells asked are not there: a cell that is
\* registered later may only take from it.
MayPassOnRow(graph) ==
  {id \in DOMAIN graph :
    LET def == graph[id].def IN
    \/ /\ def.kind = "program" /\ def.code.do = "call"
       /\ {Trim(def.code.of)} \cap DOMAIN graph \subseteq TellRow(graph)
    \/ /\ def.kind = "router"
       /\ {Trim(t) : t \in TargetsOf(def)} \cap DOMAIN graph \subseteq TellRow(graph)
       /\ \A r \in ToSet(def.rules) : r.route.to = "cell"
       /\ \E r \in ToSet(def.rules) : r.when.is = "true"}

\* Nothing is cached under a row but what is that row's.
CachesOK(graph) ==
  \A id \in TellRow(graph) \cup MayPassOnRow(graph) :
    \A key \in DOMAIN graph[id].cache :
      key[1] # Absent => graph[id].cache[key].data \in {key[1], Null}

\* What the parser has seen to.
SheetOK(graph) ==
  \A id \in DOMAIN graph :
    LET def == graph[id].def IN
    /\ def.id = id /\ Trim(id) # "" /\ HasItsField(def)
    /\ def.kind = "router" => TargetsOf(def) \subseteq DOMAIN graph

Trimmed(graph) == \A id \in DOMAIN graph : Trim(id) = id

-----------------------------------------------------------------------------
\* Answers.  q is the question of the embedding program, an answer record; id
\* and op are of the request in flight that r answers.

RetryOK(q, r) == r.value.error = "http" => q.net # "answers"

RowOK(graph, q, id, r) ==
  (q.row # Absent /\ r.ok /\ id \in TellRow(graph) \cup MayPassOnRow(graph)) =>
    r.value.data \in {q.row, Null}

ReadOK(graph, id, op, r) ==
  (op = "get" /\ id \in Askable(graph)) =>
    /\ graph[id].def.kind \in {"value", "sensor", "io"} =>
         r.ok /\ r.value.data = DataOf(graph[id])
    /\ graph[id].def.kind = "program" => r.ok \/ r = Diverges
    /\ r.ok => \A p \in ReadDirectly(graph) \cup ReadThrough(graph) :
                 p[1] = id => r.value.data = DataOf(graph[p[2]])

FieldOK(graph, loaded, id, r) ==
  (loaded /\ Trimmed(graph) /\ id \in DOMAIN graph) =>
    r.error \in {"none", "diverges"} /\ r.value.error \notin {"no code", "no endpoint"}

CycleOK(graph, q, r) == r = Diverges => ReachesCycle(graph, q.id)

Good(graph, loaded, q, id, op, r) ==
  /\ r.ok \in BOOLEAN /\ (r.ok => id \in DOMAIN graph)
  /\ RetryOK(q, r) /\ RowOK(graph, q, id, r) /\ ReadOK(graph, id, op, r)
  /\ FieldOK(graph, loaded, id, r) /\ CycleOK(graph, q, r)

-----------------------------------------------------------------------------
\* The requests in progress: each asks what the next one is.

FrameOK(graph, q, f) ==
  /\ f = [op |-> f.op, id |-> f.id, input |-> f.input, ctx |-> f.ctx]
  /\ f.id \in DOMAIN graph /\ IsContext(f.ctx) /\ f.ctx.row = q.row /\ f.ctx.caller = f.id
  /\ Delegates(graph[f.id].def, f)

InnerOf(graph, f) == Delegated(graph[f.id].def, f)

\* The request comes from the caller, or from the last one in progress.
Follows(graph, q, frames, id, op) ==
  IF frames = << >> THEN id = q.id /\ (q.op \in {"get", "call"} => op = q.op)
  ELSE id = Trim(InnerOf(graph, Last(frames)).id) /\ op = InnerOf(graph, Last(frames)).op

Chained(graph, q, frames) ==
  \A k \in 1..Len(frames) :
    Follows(graph, q, SubSeq(frames, 1, k - 1), frames[k].id, frames[k].op)

Reaching(graph, q, frames) ==
  /\ \A k \in 1..Len(frames) : frames[k].id \in Closure(Delegations(graph), {q.id})
  /\ \A i, k \in 1..Len(frames) :
       i < k => frames[k].id \in Closure(Delegations(graph), Delegations(graph)[frames[i].id])

StackOK(graph, q, frames) ==
  /\ frames \in Seq(ToSet(frames))
  /\ \A k \in 1..Len(frames) : FrameOK(graph, q, frames[k])
  /\ Chained(graph, q, frames)
  /\ Reaching(graph, q, frames)

IsAnswer(q) == q = [op |-> q.op, id |-> q.id, row |-> q.row, net |-> q.net, result |-> q.result]

\* Where the request stands.
AtRest ==
  /\ turn = Idle /\ stack = << >>
  /\ (answer.op \in {"get", "call"} /\ answer.id \in DOMAIN cells) =>
       Good(cells, accepted, answer, answer.id, answer.op, answer.result)

Asking ==
  /\ turn.is = "ask" /\ turn = Asks(turn.op, turn.id, turn.input, turn.ctx)
  /\ IsContext(turn.ctx) /\ turn.ctx.row = answer.row
  /\ StackOK(cells, answer, stack)
  /\ Follows(cells, answer, stack, Trim(turn.id), turn.op)

Giving ==
  /\ turn.is = "give" /\ turn = Gives(turn.result) /\ stack # << >>
  /\ StackOK(cells, answer, stack)
  /\ Good(cells, accepted, answer, Trim(InnerOf(cells, Last(stack)).id),
          InnerOf(cells, Last(stack)).op, turn.result)

EffectInv ==
  /\ GraphOK(cells) /\ CachesOK(cells) /\ (accepted => SheetOK(cells))
  /\ accepted \in BOOLEAN /\ IsAnswer(answer)
  /\ AtRest \/ Asking \/ Giving

-----------------------------------------------------------------------------
\* What the operators of the model do.

\* What Min picks from a set of numbers that is not empty.
LEMMA MinIn ==
  ASSUME NEW S \in SUBSET Nat, S # {}
  PROVE  Min(S) \in S
<1>1. \E m \in S : \A k \in S : m <= k
  BY LeastOf
<1> QED BY <1>1 DEF Min

\* The rule that wins is a rule that matches, and none wins only if none does.
LEMMA WinnerFacts ==
  ASSUME NEW rules, rules \in Seq(ToSet(rules)), NEW ctx, NEW input
  PROVE  LET win == Winner(rules, ctx, input) IN
         \/ win = 0 /\ \A i \in DOMAIN rules : ~ RuleMatches(rules[i].when, ctx, input)
         \/ win # 0 /\ win \in DOMAIN rules /\ rules[win] \in ToSet(rules)
<1> DEFINE M == {i \in DOMAIN rules : RuleMatches(rules[i].when, ctx, input)}
<1>1. DOMAIN rules = 1..Len(rules) /\ Len(rules) \in Nat
  OBVIOUS
<1>2. CASE M = {}
  BY <1>2 DEF Winner
<1>3. CASE M # {}
  <2>1. M \in SUBSET Nat
    BY <1>1
  <2>2. Min(M) \in M
    <3> HIDE DEF M
    <3> QED BY <2>1, <1>3, MinIn
  <2>3. Winner(rules, ctx, input) = Min(M)
    BY <1>3 DEF Winner
  <2>4. Min(M) \in DOMAIN rules /\ Min(M) # 0
    BY <2>2, <1>1
  <2> QED BY <2>3, <2>4 DEF ToSet
<1> QED BY <1>2, <1>3

\* A closure has what it starts from and what is next to what it has.
LEMMA ClosureHas ==
  ASSUME NEW next, NEW ids, NEW d \in DOMAIN next, d \in ids
  PROVE  d \in Closure(next, ids)
BY DEF Closure

LEMMA ClosureStep ==
  ASSUME NEW next, NEW ids, NEW c \in Closure(next, ids), NEW d \in DOMAIN next, d \in next[c]
  PROVE  d \in Closure(next, ids)
<1> SUFFICES ASSUME NEW S \in SUBSET DOMAIN next, ids \subseteq S,
                    \A x \in S : next[x] \subseteq S
             PROVE  d \in S
  BY DEF Closure
<1>1. c \in S
  BY DEF Closure
<1> QED BY <1>1

\* Graphs with the same cells by the same defs.
SameDefs(g, h) ==
  DOMAIN h = DOMAIN g /\ \A id \in DOMAIN g : h[id].def = g[id].def

LEMMA SameDefsSame ==
  ASSUME NEW g, NEW h, SameDefs(g, h)
  PROVE  /\ TellRow(h) = TellRow(g) /\ MayPassOnRow(h) = MayPassOnRow(g)
         /\ Askable(h) = Askable(g)
         /\ ReadDirectly(h) = ReadDirectly(g) /\ ReadThrough(h) = ReadThrough(g)
         /\ Delegations(h) = Delegations(g)
         /\ SheetOK(h) <=> SheetOK(g)
         /\ Trimmed(h) <=> Trimmed(g)
         /\ \A id : ReachesCycle(h, id) <=> ReachesCycle(g, id)
<1>1. DOMAIN h = DOMAIN g /\ \A id \in DOMAIN g : h[id].def = g[id].def
  BY DEF SameDefs
<1>2. TellRow(h) = TellRow(g)
  BY <1>1 DEF TellRow
<1>3. MayPassOnRow(h) = MayPassOnRow(g)
  BY <1>1, <1>2 DEF MayPassOnRow
<1>4. Askable(h) = Askable(g)
  BY <1>1 DEF Askable
<1>5. Askable(g) \subseteq DOMAIN g
  BY DEF Askable
<1>6. ReadDirectly(h) = ReadDirectly(g)
  BY <1>1, <1>4, <1>5 DEF ReadDirectly
<1>7. ReadThrough(h) = ReadThrough(g)
  BY <1>1, <1>4, <1>5, <1>6 DEF ReadThrough
<1>8. Delegations(h) = Delegations(g)
  BY <1>1 DEF Delegations
<1>9. SheetOK(h) <=> SheetOK(g)
  BY <1>1 DEF SheetOK
<1>10. Trimmed(h) <=> Trimmed(g)
  BY <1>1 DEF Trimmed
<1>11. \A id : ReachesCycle(h, id) <=> ReachesCycle(g, id)
  BY <1>8 DEF ReachesCycle, OnCycle
<1> QED BY <1>2, <1>3, <1>4, <1>6, <1>7, <1>8, <1>9, <1>10, <1>11

-----------------------------------------------------------------------------
\* What the operations do to a graph.

\* A write keeps the cells, and keeps each cache or clears it.
Rewritten(g, h) ==
  /\ GraphOK(h) /\ SameDefs(g, h)
  /\ \A id \in DOMAIN g : h[id].cache \in {g[id].cache, << >>}

LEMMA RewrittenCaches ==
  ASSUME NEW g, NEW h, CachesOK(g), Rewritten(g, h)
  PROVE  CachesOK(h)
<1>1. TellRow(h) = TellRow(g) /\ MayPassOnRow(h) = MayPassOnRow(g)
  BY SameDefsSame DEF Rewritten
<1>2. TellRow(g) \cup MayPassOnRow(g) \subseteq DOMAIN g
  BY DEF TellRow, MayPassOnRow
<1>3. ASSUME NEW id \in TellRow(g) \cup MayPassOnRow(g), NEW key \in DOMAIN h[id].cache,
             key[1] # Absent
      PROVE  h[id].cache[key].data \in {key[1], Null}
  <2>1. CASE h[id].cache = g[id].cache
    BY <2>1, <1>3 DEF CachesOK
  <2>2. CASE h[id].cache = << >>
    BY <2>2, <1>3
  <2> QED BY <2>1, <2>2, <1>2 DEF Rewritten
<1> QED BY <1>1, <1>3 DEF CachesOK

\* propagate makes values stale, which is no failure.
LEMMA PropagatedRewrites ==
  ASSUME NEW g, NEW id, GraphOK(g)
  PROVE  Rewritten(g, Propagated(g, id))
<1> DEFINE h == Propagated(g, id)
<1>1. DOMAIN h = DOMAIN g /\ h = [d \in DOMAIN h |-> h[d]]
  BY DEF Propagated
<1>2. ASSUME NEW d \in DOMAIN g
      PROVE  \/ h[d] = g[d]
             \/ h[d] = [g[d] EXCEPT !.value = StaleOf, !.cache = << >>]
  BY DEF Propagated
<1> HIDE DEF h
<1>3. ASSUME NEW d \in DOMAIN g
      PROVE  /\ IsCell(h[d]) /\ h[d].def = g[d].def
             /\ h[d].cache \in {g[d].cache, << >>}
             /\ h[d].def.kind \in HeldKinds => h[d].value.error = "none"
  <2>1. IsCell(g[d]) /\ (g[d].def.kind \in HeldKinds => g[d].value.error = "none")
    BY DEF GraphOK
  <2>2. CASE h[d] = g[d]
    BY <2>1, <2>2
  <2>3. CASE h[d] = [g[d] EXCEPT !.value = StaleOf, !.cache = << >>]
    <3>1. h[d] = [def |-> g[d].def, value |-> StaleOf, cache |-> << >>,
                  dependents |-> g[d].dependents, last |-> g[d].last]
      BY <2>1, <2>3 DEF IsCell
    <3>2. WellFormed(g[d].def) /\ IsContext(g[d].last)
      BY <2>1 DEF IsCell
    <3> HIDE DEF h
    <3> QED BY <3>1, <3>2 DEF IsCell, StaleOf
  <2> QED BY <1>2, <2>2, <2>3
<1>4. GraphOK(h)
  BY <1>1, <1>3 DEF GraphOK
<1> QED BY <1>1, <1>3, <1>4 DEF Rewritten, SameDefs, h

\* So do one write after the other.
LEMMA RewrittenTwice ==
  ASSUME NEW g, NEW h, NEW i, Rewritten(g, h), Rewritten(h, i)
  PROVE  Rewritten(g, i)
BY DEF Rewritten, SameDefs

\* A value written to a cell, with its cache cleared or kept.
LEMMA WriteRewrites ==
  ASSUME NEW g, GraphOK(g), NEW id \in DOMAIN g, NEW data
  PROVE  /\ Rewritten(g, WithSet(g, id, data))
         /\ Rewritten(g, WithPushed(g, id, data))
<1> DEFINE set  == [g EXCEPT ![id].value = ReadyOf(data), ![id].cache = << >>]
           push == [g EXCEPT ![id].value = ReadyOf(data)]
<1>1. g = [d \in DOMAIN g |-> g[d]] /\ \A d \in DOMAIN g :
        IsCell(g[d]) /\ (g[d].def.kind \in HeldKinds => g[d].value.error = "none")
  BY DEF GraphOK
<1>2. /\ DOMAIN set = DOMAIN g /\ DOMAIN push = DOMAIN g
      /\ set = [d \in DOMAIN set |-> set[d]] /\ push = [d \in DOMAIN push |-> push[d]]
      /\ set[id] = [g[id] EXCEPT !.value = ReadyOf(data), !.cache = << >>]
      /\ push[id] = [g[id] EXCEPT !.value = ReadyOf(data)]
      /\ \A d \in DOMAIN g : d # id => set[d] = g[d] /\ push[d] = g[d]
  BY <1>1
<1> HIDE DEF set, push
<1>3. /\ IsCell(set[id]) /\ set[id].def = g[id].def /\ set[id].cache = << >>
      /\ IsCell(push[id]) /\ push[id].def = g[id].def /\ push[id].cache = g[id].cache
      /\ set[id].value.error = "none" /\ push[id].value.error = "none"
  <2>1. IsCell(g[id])
    BY <1>1
  <2>2. /\ set[id] = [def |-> g[id].def, value |-> ReadyOf(data), cache |-> << >>,
                      dependents |-> g[id].dependents, last |-> g[id].last]
        /\ push[id] = [def |-> g[id].def, value |-> ReadyOf(data), cache |-> g[id].cache,
                       dependents |-> g[id].dependents, last |-> g[id].last]
    BY <2>1, <1>2 DEF IsCell
  <2>3. WellFormed(g[id].def) /\ IsContext(g[id].last)
    BY <2>1 DEF IsCell
  <2> QED BY <2>2, <2>3 DEF IsCell, ReadyOf
<1>4. Rewritten(g, set) /\ Rewritten(g, push)
  BY <1>1, <1>2, <1>3 DEF Rewritten, SameDefs, GraphOK
<1>5. Rewritten(set, WithSet(g, id, data))
  BY <1>4, PropagatedRewrites DEF Rewritten, WithSet, set
<1>6. Rewritten(push, WithPushed(g, id, data))
  BY <1>4, PropagatedRewrites DEF Rewritten, WithPushed, push
<1> QED BY <1>4, <1>5, <1>6, RewrittenTwice

\* An answer that is cached is a value as good as the ones the cell has.
LEMMA CachedKeeps ==
  ASSUME NEW g, GraphOK(g), CachesOK(g), NEW id \in DOMAIN g, NEW ctx, IsContext(ctx), NEW value,
         g[id].def.kind \in HeldKinds => value.error = "none",
         (id \in TellRow(g) \cup MayPassOnRow(g) /\ ctx.row # Absent) =>
           value.data \in {ctx.row, Null}
  PROVE  LET h == Cached(g, id, ctx, value) IN
         /\ GraphOK(h) /\ CachesOK(h) /\ SameDefs(g, h)
         /\ \A d \in DOMAIN g : d # id => h[d] = g[d]
<1> DEFINE key   == ContextKey(ctx)
           cache == [k \in DOMAIN g[id].cache \cup {key} |->
                       IF k = key THEN value ELSE g[id].cache[k]]
           h     == [g EXCEPT ![id].cache = cache, ![id].value = value, ![id].last = ctx]
<1>1. g = [d \in DOMAIN g |-> g[d]] /\ \A d \in DOMAIN g :
        IsCell(g[d]) /\ (g[d].def.kind \in HeldKinds => g[d].value.error = "none")
  BY DEF GraphOK
<1>2. h = Cached(g, id, ctx, value)
  BY DEF Cached
<1> HIDE DEF cache
<1>3. /\ DOMAIN h = DOMAIN g /\ h = [d \in DOMAIN h |-> h[d]]
      /\ h[id] = [g[id] EXCEPT !.cache = cache, !.value = value, !.last = ctx]
      /\ \A d \in DOMAIN g : d # id => h[d] = g[d]
  BY <1>1
<1> HIDE DEF h
<1>4. h[id] = [def |-> g[id].def, value |-> value, cache |-> cache,
               dependents |-> g[id].dependents, last |-> ctx]
  BY <1>1, <1>3 DEF IsCell
<1>5. h[id].def = g[id].def /\ h[id].value = value /\ h[id].cache = cache /\ IsCell(h[id])
  <2>1. WellFormed(g[id].def)
    BY <1>1 DEF IsCell
  <2> QED BY <1>4, <2>1 DEF IsCell
<1>6. GraphOK(h) /\ SameDefs(g, h)
  BY <1>1, <1>3, <1>5 DEF GraphOK, SameDefs
<1>7. TellRow(h) = TellRow(g) /\ MayPassOnRow(h) = MayPassOnRow(g)
  BY <1>6, SameDefsSame
<1>8. ASSUME NEW d \in TellRow(g) \cup MayPassOnRow(g), NEW k \in DOMAIN h[d].cache,
             k[1] # Absent
      PROVE  h[d].cache[k].data \in {k[1], Null}
  <2>0. d \in DOMAIN g
    BY DEF TellRow, MayPassOnRow
  <2>1. CASE d # id
    BY <2>0, <2>1, <1>3, <1>8 DEF CachesOK
  <2>2. CASE d = id /\ k = key
    <3>1. h[d].cache[k] = value
      BY <2>2, <1>5, <1>8 DEF cache
    <3>2. k[1] = ctx.row
      BY <2>2 DEF ContextKey
    <3> QED BY <3>1, <3>2, <2>2, <1>8
  <2>3. CASE d = id /\ k # key
    <3>1. k \in DOMAIN g[d].cache /\ h[d].cache[k] = g[d].cache[k]
      BY <2>3, <1>5, <1>8 DEF cache
    <3> QED BY <3>1, <1>8 DEF CachesOK
  <2> QED BY <2>1, <2>2, <2>3
<1> QED BY <1>2, <1>3, <1>6, <1>7, <1>8 DEF CachesOK

LEMMA NewCellFacts ==
  ASSUME NEW def, WellFormed(def)
  PROVE  /\ IsCell(NewCell(def)) /\ NewCell(def).def = def
         /\ NewCell(def).value.error = "none" /\ DOMAIN NewCell(def).cache = {}
BY DEF NewCell, IsCell, IsContext, Context, ReadyOf, IdleOf

\* A cell does not change in what matters here by what depends on it.
WithDeps(cell, ids) == [cell EXCEPT !.dependents = ids]

LEMMA WithDependents ==
  ASSUME NEW cell, IsCell(cell), NEW ids
  PROVE  LET new == WithDeps(cell, ids) IN
         /\ IsCell(new) /\ new.def = cell.def /\ new.value = cell.value /\ new.cache = cell.cache
<1>1. WithDeps(cell, ids) =
        [def |-> cell.def, value |-> cell.value, cache |-> cell.cache,
         dependents |-> ids, last |-> cell.last]
  BY DEF IsCell, WithDeps
<1>2. WellFormed(cell.def) /\ IsContext(cell.last)
  BY DEF IsCell
<1> QED BY <1>1, <1>2 DEF IsCell

\* The cells of a sheet that is loaded are of its defs, and none has anything
\* cached.
LEMMA LoadedFacts ==
  ASSUME NEW sheet, sheet \in Seq(ToSet(sheet)), \A def \in ToSet(sheet) : WellFormed(def)
  PROVE  /\ GraphOK(Loaded(sheet)) /\ CachesOK(Loaded(sheet))
         /\ ValidSheet(sheet) => SheetOK(Loaded(sheet))
<1> DEFINE at(id) == CHOOSE i \in DOMAIN sheet :
                       /\ sheet[i].id = id
                       /\ \A j \in DOMAIN sheet : sheet[j].id = id => j <= i
           new    == [id \in IdsOf(sheet) |-> NewCell(sheet[at(id)])]
           h      == Loaded(sheet)
<1>1. ASSUME NEW id \in IdsOf(sheet)
      PROVE  at(id) \in DOMAIN sheet /\ sheet[at(id)].id = id
  <2> DEFINE S == {i \in DOMAIN sheet : sheet[i].id = id}
  <2>1. DOMAIN sheet = 1..Len(sheet) /\ Len(sheet) \in Nat
    OBVIOUS
  <2>2. S # {} /\ S \in SUBSET Nat /\ \A k \in S : k <= Len(sheet)
    BY <2>1 DEF IdsOf
  <2>3. \E m \in S : \A k \in S : k <= m
    <3> HIDE DEF S
    <3> QED BY <2>1, <2>2, GreatestOf
  <2>4. \E i \in DOMAIN sheet : /\ sheet[i].id = id
                                /\ \A j \in DOMAIN sheet : sheet[j].id = id => j <= i
    BY <2>3
  <2> QED BY <2>4
<1> HIDE DEF at
<1>2. h = Linked(new)
  BY DEF Loaded, at
<1>3. DOMAIN new = IdsOf(sheet) /\ \A id \in DOMAIN new : new[id] = NewCell(sheet[at(id)])
  OBVIOUS
<1> HIDE DEF new, h
<1>4. /\ DOMAIN h = IdsOf(sheet) /\ h = [id \in DOMAIN h |-> h[id]]
      /\ \A id \in DOMAIN h :
           \E ids : h[id] = WithDeps(new[id], ids)
  BY <1>2, <1>3 DEF Linked, WithDeps
<1>5. ASSUME NEW id \in DOMAIN h
      PROVE  /\ IsCell(h[id]) /\ h[id].def = sheet[at(id)]
             /\ h[id].value.error = "none" /\ DOMAIN h[id].cache = {}
  <2>1. sheet[at(id)] \in ToSet(sheet)
    BY <1>1, <1>4 DEF ToSet
  <2>2. /\ IsCell(new[id]) /\ new[id].def = sheet[at(id)]
        /\ new[id].value.error = "none" /\ DOMAIN new[id].cache = {}
    BY <2>1, <1>3, <1>4, NewCellFacts
  <2>3. /\ IsCell(h[id]) /\ h[id].def = new[id].def
        /\ h[id].value = new[id].value /\ h[id].cache = new[id].cache
    BY <2>2, <1>4, WithDependents
  <2> QED BY <2>2, <2>3
<1>6. GraphOK(h)
  BY <1>4, <1>5 DEF GraphOK
<1>7. CachesOK(h)
  BY <1>5 DEF CachesOK, TellRow, MayPassOnRow
<1>8. ASSUME ValidSheet(sheet), NEW id \in DOMAIN h
      PROVE  /\ h[id].def.id = id /\ Trim(id) # "" /\ HasItsField(h[id].def)
             /\ h[id].def.kind = "router" => TargetsOf(h[id].def) \subseteq DOMAIN h
  <2>1. at(id) \in DOMAIN sheet /\ sheet[at(id)].id = id
    BY <1>1, <1>4
  <2>2. ValidCell(sheet[at(id)])
    BY <1>8, <2>1 DEF ValidSheet
  <2>3. sheet[at(id)].kind = "router" => TargetsOf(sheet[at(id)]) \subseteq IdsOf(sheet)
    BY <1>8, <2>1 DEF ValidSheet, RoutesExist
  <2> QED BY <2>1, <2>2, <2>3, <1>4, <1>5 DEF ValidCell
<1> QED BY <1>6, <1>7, <1>8 DEF SheetOK, h

\* A cell that is registered takes nothing from what the others' caches are
\* good for.
LEMMA RegisteredFacts ==
  ASSUME NEW g, GraphOK(g), CachesOK(g), NEW def, WellFormed(def), def.id \notin DOMAIN g
  PROVE  GraphOK(Registered(g, def)) /\ CachesOK(Registered(g, def))
<1> DEFINE h == Registered(g, def)
<1>1. DOMAIN h = DOMAIN g \cup {def.id} /\ h = [id \in DOMAIN h |-> h[id]]
  BY DEF Registered
<1>2. \E ids : h[def.id] = WithDeps(NewCell(def), ids)
  BY DEF Registered, WithDeps
<1>3. ASSUME NEW id \in DOMAIN g
      PROVE  h[id] = g[id] \/ \E ids : h[id] = WithDeps(g[id], ids)
  BY DEF Registered, WithDeps
<1> HIDE DEF h
<1>4. /\ IsCell(h[def.id]) /\ h[def.id].def = def
      /\ h[def.id].value.error = "none" /\ DOMAIN h[def.id].cache = {}
  BY <1>2, NewCellFacts, WithDependents
<1>5. ASSUME NEW id \in DOMAIN g
      PROVE  /\ IsCell(h[id]) /\ h[id].def = g[id].def
             /\ h[id].value = g[id].value /\ h[id].cache = g[id].cache
  BY <1>3, WithDependents DEF GraphOK
<1>6. GraphOK(h)
  BY <1>1, <1>4, <1>5 DEF GraphOK
<1>7. TellRow(h) \cap DOMAIN g = TellRow(g)
  BY <1>1, <1>5 DEF TellRow
<1>8. MayPassOnRow(h) \cap DOMAIN g \subseteq MayPassOnRow(g)
  BY <1>1, <1>5, <1>7 DEF MayPassOnRow
<1>9. TellRow(h) \cup MayPassOnRow(h) \subseteq DOMAIN g \cup {def.id}
  BY <1>1 DEF TellRow, MayPassOnRow
<1>10. CachesOK(h)
  <2> SUFFICES ASSUME NEW id \in TellRow(h) \cup MayPassOnRow(h),
                      NEW key \in DOMAIN h[id].cache, key[1] # Absent
               PROVE  h[id].cache[key].data \in {key[1], Null}
    BY DEF CachesOK
  <2>1. id \in DOMAIN g
    BY <1>4, <1>9
  <2>2. id \in TellRow(g) \cup MayPassOnRow(g) /\ h[id].cache = g[id].cache
    BY <2>1, <1>5, <1>7, <1>8
  <2> QED BY <2>2 DEF CachesOK
<1> QED BY <1>6, <1>10 DEF h

-----------------------------------------------------------------------------
\* Requests inside requests.

\* What a cell asks: a script the cell it names, a router one of its targets,
\* with the row of its own caller.
LEMMA DelegatedFacts ==
  ASSUME NEW def, WellFormed(def), NEW f, IsContext(f.ctx), Delegates(def, f)
  PROVE  LET inner == Delegated(def, f) IN
         /\ inner = Asks(inner.op, inner.id, inner.input, inner.ctx) /\ inner.is = "ask"
         /\ IsContext(inner.ctx) /\ inner.ctx.row = f.ctx.row
         /\ \/ def.kind = "program" /\ def.code.do \in {"get", "call"}
               /\ inner.op = def.code.do /\ inner.id = def.code.of
            \/ /\ def.kind = "router" /\ inner.op = "call" /\ inner.id \in TargetsOf(def)
               /\ \E i \in DOMAIN def.rules : RouteOf(def, f).to = "cell"
<1>1. CASE def.kind = "program"
  BY <1>1 DEF Delegates, Delegated, Asks
<1>2. CASE def.kind = "router"
  <2> DEFINE route == RouteOf(def, f)
             ctx   == IF route.with = Absent THEN f.ctx ELSE [f.ctx EXCEPT !.meta = route.with]
  <2>1. Winner(def.rules, f.ctx, f.input) # 0 /\ route.to = "cell"
    BY <1>2 DEF Delegates
  <2>2. /\ Winner(def.rules, f.ctx, f.input) \in DOMAIN def.rules
        /\ def.rules[Winner(def.rules, f.ctx, f.input)] \in ToSet(def.rules)
    BY <2>1, WinnerFacts DEF WellFormed
  <2>3. route.cell \in TargetsOf(def)
    BY <2>1, <2>2 DEF TargetsOf, RouteOf
  <2>4. Delegated(def, f) = Asks("call", route.cell, f.input, ctx)
    BY <1>2 DEF Delegated
  <2>5. IsContext(ctx) /\ ctx.row = f.ctx.row
    <3>1. CASE route.with = Absent
      BY <3>1
    <3>2. CASE route.with # Absent
      <4>1. ctx = [row |-> f.ctx.row, meta |-> route.with, caller |-> f.ctx.caller]
        BY <3>2 DEF IsContext
      <4> HIDE DEF ctx, route
      <4> QED BY <4>1 DEF IsContext
    <3> QED BY <3>1, <3>2
  <2> HIDE DEF ctx, route
  <2>6. /\ Delegated(def, f).op = "call" /\ Delegated(def, f).id = route.cell
        /\ Delegated(def, f).ctx = ctx /\ Delegated(def, f).is = "ask"
        /\ Delegated(def, f).input = f.input
    BY <2>4 DEF Asks
  <2>7. \E i \in DOMAIN def.rules : RouteOf(def, f).to = "cell"
    BY <2>1, <2>2 DEF route
  <2> QED BY <1>2, <2>3, <2>4, <2>5, <2>6, <2>7
<1> QED BY <1>1, <1>2 DEF Delegates

\* What is asked is one of the cell's delegations.
LEMMA InnerIsNext ==
  ASSUME NEW g, GraphOK(g), NEW q, NEW f, FrameOK(g, q, f),
         Trim(InnerOf(g, f).id) \in DOMAIN g
  PROVE  Trim(InnerOf(g, f).id) \in Delegations(g)[f.id]
<1> DEFINE def   == g[f.id].def
           inner == Delegated(def, f)
<1>1. f.id \in DOMAIN g /\ WellFormed(def) /\ IsContext(f.ctx) /\ Delegates(def, f)
  BY DEF FrameOK, GraphOK, IsCell
<1>2. \/ def.kind = "program" /\ def.code.do \in {"get", "call"} /\ inner.id = def.code.of
      \/ def.kind = "router" /\ inner.id \in TargetsOf(def)
  <2> HIDE DEF def
  <2> QED BY <1>1, DelegatedFacts
<1>3. Trim(inner.id) \in DOMAIN g
  BY DEF InnerOf
<1> HIDE DEF inner
<1> QED BY <1>1, <1>2, <1>3 DEF Delegations, InnerOf, inner

LEMMA DelegationsDomain ==
  ASSUME NEW g
  PROVE  DOMAIN Delegations(g) = DOMAIN g
BY DEF Delegations

LEMMA LastFacts ==
  ASSUME NEW s, s \in Seq(ToSet(s)), s # << >>
  PROVE  /\ Len(s) \in Nat /\ Len(s) \in 1..Len(s) /\ Last(s) = s[Len(s)]
         /\ Front(s) = SubSeq(s, 1, Len(s) - 1)
BY DEF Last, Front

\* The request to come is within reach of the caller's and of each one it is
\* inside of.
LEMMA ReachNext ==
  ASSUME NEW g, GraphOK(g), NEW q, NEW frames, StackOK(g, q, frames),
         NEW id \in DOMAIN g, NEW op, Follows(g, q, frames, id, op)
  PROVE  /\ id \in Closure(Delegations(g), {q.id})
         /\ \A i \in 1..Len(frames) : id \in Closure(Delegations(g), Delegations(g)[frames[i].id])
<1> DEFINE D == Delegations(g)
<1>1. id \in DOMAIN D
  BY DelegationsDomain
<1>2. CASE frames = << >>
  <2>1. id \in {q.id} /\ Len(frames) = 0
    BY <1>2 DEF Follows
  <2>2. id \in Closure(D, {q.id})
    <3> HIDE DEF D
    <3> QED BY <1>1, <2>1, ClosureHas
  <2> QED BY <2>1, <2>2
<1>3. CASE frames # << >>
  <2> DEFINE n == Len(frames)
             c == frames[n].id
  <2>1. n \in Nat /\ n \in 1..n /\ Last(frames) = frames[n]
    BY <1>3, LastFacts DEF StackOK
  <2>2. FrameOK(g, q, frames[n]) /\ id = Trim(InnerOf(g, frames[n]).id)
    BY <1>3, <2>1 DEF StackOK, Follows
  <2>3. id \in D[c]
    BY <2>2, InnerIsNext
  <2>4. /\ c \in Closure(D, {q.id})
        /\ \A i \in 1..n : i < n => c \in Closure(D, D[frames[i].id])
    BY <2>1 DEF StackOK, Reaching
  <2> HIDE DEF D, c
  <2>5. id \in Closure(D, {q.id})
    BY <1>1, <2>3, <2>4, ClosureStep
  <2>6. ASSUME NEW i \in 1..n PROVE id \in Closure(D, D[frames[i].id])
    <3>1. CASE i < n
      BY <3>1, <1>1, <2>3, <2>4, ClosureStep
    <3>2. CASE i = n
      BY <3>2, <1>1, <2>3, ClosureHas DEF c
    <3> QED BY <3>1, <3>2, <2>1
  <2> QED BY <2>5, <2>6 DEF D
<1> QED BY <1>2, <1>3

\* A request that is made again inside itself is on a cycle of delegations.
LEMMA AgainIsACycle ==
  ASSUME NEW g, GraphOK(g), NEW q, NEW frames, StackOK(g, q, frames),
         NEW f \in ToSet(frames), NEW op, Follows(g, q, frames, f.id, op)
  PROVE  ReachesCycle(g, q.id)
<1>1. PICK i \in 1..Len(frames) : frames[i] = f
  BY DEF ToSet, StackOK
<1>2. f.id \in DOMAIN g
  BY <1>1 DEF StackOK, FrameOK
<1>3. f.id \in Closure(Delegations(g), {q.id}) /\ OnCycle(g, f.id)
  BY <1>1, <1>2, ReachNext DEF OnCycle
<1> QED BY <1>3 DEF ReachesCycle

\* The prefixes of a sequence that grows or shrinks at its end.
LEMMA GrownPrefixes ==
  ASSUME NEW s, s \in Seq(ToSet(s)), NEW e, NEW k \in 0..Len(s)
  PROVE  SubSeq(Append(s, e), 1, k) = SubSeq(s, 1, k)
<1> DEFINE t == Append(s, e)
<1>1. /\ t \in Seq(ToSet(t)) /\ Len(t) = Len(s) + 1 /\ Len(s) \in Nat
      /\ \A i \in 1..Len(s) : t[i] = s[i]
  BY AppendFacts
<1> HIDE DEF t
<1>2. /\ SubSeq(t, 1, k) = [i \in 1..k |-> t[i]]
      /\ SubSeq(s, 1, k) = [i \in 1..k |-> s[i]]
  BY <1>1
<1> QED BY <1>1, <1>2 DEF t

LEMMA ShrunkPrefixes ==
  ASSUME NEW s, s \in Seq(ToSet(s)), NEW n \in 0..Len(s), NEW k \in 0..n
  PROVE  /\ SubSeq(SubSeq(s, 1, n), 1, k) = SubSeq(s, 1, k)
         /\ Len(SubSeq(s, 1, n)) = n /\ SubSeq(s, 1, n) \in Seq(ToSet(SubSeq(s, 1, n)))
         /\ \A i \in 1..n : SubSeq(s, 1, n)[i] = s[i]
<1> DEFINE t == SubSeq(s, 1, n)
<1>1. t \in Seq(ToSet(s)) /\ Len(t) = n /\ \A i \in 1..n : t[i] = s[i]
  BY PrefixFacts
<1>2. t \in Seq(ToSet(t))
  BY <1>1, SeqOfOwn
<1> HIDE DEF t
<1>3. /\ SubSeq(t, 1, k) = [i \in 1..k |-> t[i]]
      /\ SubSeq(s, 1, k) = [i \in 1..k |-> s[i]]
  BY <1>1
<1> QED BY <1>1, <1>2, <1>3 DEF t

\* A request that delegates joins the ones in progress.
LEMMA StackGrows ==
  ASSUME NEW g, GraphOK(g), NEW q, NEW frames, StackOK(g, q, frames),
         NEW f, FrameOK(g, q, f), Follows(g, q, frames, f.id, f.op)
  PROVE  /\ StackOK(g, q, Append(frames, f))
         /\ Append(frames, f) # << >> /\ Last(Append(frames, f)) = f
<1> DEFINE t == Append(frames, f)
           n == Len(frames)
           D == Delegations(g)
<1>1. frames \in Seq(ToSet(frames))
  BY DEF StackOK
<1>2. /\ t \in Seq(ToSet(t)) /\ Len(t) = n + 1 /\ n \in Nat
      /\ t[n + 1] = f /\ \A i \in 1..n : t[i] = frames[i]
  BY <1>1, AppendFacts
<1>3. \A k \in 0..n : SubSeq(t, 1, k) = SubSeq(frames, 1, k)
  BY <1>1, GrownPrefixes
<1>4. SubSeq(frames, 1, n) = frames
  BY <1>1
<1> HIDE DEF t
<1>5. ASSUME NEW k \in 1..Len(t) PROVE FrameOK(g, q, t[k])
  BY <1>2 DEF StackOK
<1>6. Chained(g, q, t)
  <2> SUFFICES ASSUME NEW k \in 1..Len(t)
               PROVE  Follows(g, q, SubSeq(t, 1, k - 1), t[k].id, t[k].op)
    BY DEF Chained
  <2>1. CASE k = n + 1
    <3>1. SubSeq(t, 1, k - 1) = frames
      BY <2>1, <1>2, <1>3, <1>4
    <3> QED BY <3>1, <2>1, <1>2
  <2>2. CASE k \in 1..n
    <3>1. SubSeq(t, 1, k - 1) = SubSeq(frames, 1, k - 1)
      BY <2>2, <1>2, <1>3
    <3> QED BY <3>1, <2>2, <1>2 DEF StackOK, Chained
  <2> QED BY <2>1, <2>2, <1>2
<1>7. Reaching(g, q, t)
  <2>1. f.id \in DOMAIN g
    BY DEF FrameOK
  <2>2. f.id \in Closure(D, {q.id}) /\ \A i \in 1..n : f.id \in Closure(D, D[frames[i].id])
    BY <2>1, ReachNext
  <2>3. /\ \A k \in 1..n : frames[k].id \in Closure(D, {q.id})
        /\ \A i, k \in 1..n : i < k => frames[k].id \in Closure(D, D[frames[i].id])
    BY DEF StackOK, Reaching
  <2> HIDE DEF D
  <2>4. ASSUME NEW k \in 1..Len(t) PROVE t[k].id \in Closure(D, {q.id})
    <3>1. k = n + 1 \/ k \in 1..n
      BY <1>2
    <3>2. CASE k = n + 1
      BY <3>2, <1>2, <2>2
    <3>3. CASE k \in 1..n
      BY <3>3, <1>2, <2>3
    <3> QED BY <3>1, <3>2, <3>3
  <2>5. ASSUME NEW i \in 1..Len(t), NEW k \in 1..Len(t), i < k
        PROVE  t[k].id \in Closure(D, D[t[i].id])
    <3>1. CASE k = n + 1
      <4>1. i \in 1..n
        BY <3>1, <2>5, <1>2
      <4> QED BY <4>1, <3>1, <2>2, <1>2
    <3>2. CASE k \in 1..n
      <4>1. i \in 1..n
        BY <3>2, <2>5, <1>2
      <4> QED BY <4>1, <3>2, <2>3, <2>5, <1>2
    <3> QED BY <3>1, <3>2, <1>2
  <2> QED BY <2>4, <2>5 DEF Reaching, D
<1>8. t # << >> /\ Last(t) = f
  BY <1>2, AppendFacts DEF Last
<1> QED BY <1>2, <1>5, <1>6, <1>7, <1>8 DEF StackOK, t

\* The last one leaves.
LEMMA StackShrinks ==
  ASSUME NEW g, NEW q, NEW frames, StackOK(g, q, frames), frames # << >>
  PROVE  /\ StackOK(g, q, Front(frames)) /\ FrameOK(g, q, Last(frames))
         /\ Follows(g, q, Front(frames), Last(frames).id, Last(frames).op)
<1> DEFINE n == Len(frames) - 1
           t == SubSeq(frames, 1, n)
<1>1. frames \in Seq(ToSet(frames))
  BY DEF StackOK
<1>2. /\ Len(frames) \in Nat /\ Len(frames) \in 1..Len(frames)
      /\ Last(frames) = frames[Len(frames)] /\ Front(frames) = t
  BY <1>1, LastFacts
<1>3. n \in 0..Len(frames) /\ n \in Nat /\ Len(frames) = n + 1
  BY <1>2
<1> HIDE DEF n
<1>4. /\ Len(t) = n /\ t \in Seq(ToSet(t)) /\ \A i \in 1..n : t[i] = frames[i]
      /\ \A k \in 0..n : SubSeq(t, 1, k) = SubSeq(frames, 1, k)
  BY <1>1, <1>3, ShrunkPrefixes
<1>5. Follows(g, q, t, Last(frames).id, Last(frames).op)
  BY <1>2, <1>3 DEF StackOK, Chained, n
<1> HIDE DEF t
<1>6. ASSUME NEW k \in 1..n
      PROVE  FrameOK(g, q, t[k]) /\ Follows(g, q, SubSeq(t, 1, k - 1), t[k].id, t[k].op)
  <2>1. k \in 1..Len(frames) /\ k - 1 \in 0..n
    BY <1>3
  <2>2. t[k] = frames[k] /\ SubSeq(t, 1, k - 1) = SubSeq(frames, 1, k - 1)
    BY <2>1, <1>4
  <2> QED BY <2>1, <2>2 DEF StackOK, Chained
<1>7. Reaching(g, q, t)
  <2>1. \A k \in 1..n : k \in 1..Len(frames) /\ t[k] = frames[k]
    BY <1>3, <1>4
  <2> QED BY <2>1, <1>4 DEF StackOK, Reaching
<1> QED BY <1>2, <1>4, <1>5, <1>6, <1>7 DEF StackOK, Chained

\* The requests are the same while the cells have the same defs, and whatever
\* the last answer was.
SameQuestion(q, p) == p.op = q.op /\ p.id = q.id /\ p.row = q.row /\ p.net = q.net

LEMMA StackSame ==
  ASSUME NEW g, NEW h, SameDefs(g, h), NEW q, NEW p, SameQuestion(q, p),
         NEW frames, StackOK(g, q, frames)
  PROVE  /\ StackOK(h, p, frames)
         /\ \A id, op : Follows(g, q, frames, id, op) => Follows(h, p, frames, id, op)
<1>1. DOMAIN h = DOMAIN g /\ \A id \in DOMAIN g : h[id].def = g[id].def
  BY DEF SameDefs
<1>2. /\ frames \in Seq(ToSet(frames))
      /\ \A k \in 1..Len(frames) : FrameOK(g, q, frames[k])
      /\ Chained(g, q, frames) /\ Reaching(g, q, frames)
  BY DEF StackOK
<1>3. \A k \in 1..Len(frames) : FrameOK(h, p, frames[k])
  BY <1>1, <1>2 DEF FrameOK, SameQuestion
<1>4. ASSUME NEW k \in 0..Len(frames), NEW id, NEW op,
             Follows(g, q, SubSeq(frames, 1, k), id, op)
      PROVE  Follows(h, p, SubSeq(frames, 1, k), id, op)
  <2> DEFINE s == SubSeq(frames, 1, k)
  <2>0. s \in Seq(ToSet(frames)) /\ Len(s) = k /\ \A i \in 1..k : s[i] = frames[i]
    BY <1>2, PrefixFacts
  <2> HIDE DEF s
  <2>1. CASE s = << >>
    BY <2>1, <1>4 DEF Follows, SameQuestion, s
  <2>2. CASE s # << >>
    <3>1. k \in 1..Len(frames)
      BY <2>0, <2>2, <1>2
    <3>2. Last(s) = frames[k]
      BY <2>0, <3>1 DEF Last
    <3>3. InnerOf(h, Last(s)) = InnerOf(g, Last(s))
      BY <3>1, <3>2, <1>1, <1>2 DEF InnerOf, FrameOK
    <3> QED BY <2>2, <3>3, <1>4 DEF Follows, s
  <2> QED BY <2>1, <2>2
<1>5. SubSeq(frames, 1, Len(frames)) = frames /\ Len(frames) \in 0..Len(frames)
  BY <1>2
<1>6. \A id, op : Follows(g, q, frames, id, op) => Follows(h, p, frames, id, op)
  BY <1>4, <1>5
<1>7. Chained(h, p, frames)
  <2>1. \A k \in 1..Len(frames) : k - 1 \in 0..Len(frames)
    BY <1>2
  <2> QED BY <2>1, <1>2, <1>4 DEF Chained
<1>8. Delegations(h) = Delegations(g)
  BY SameDefsSame
<1>9. Reaching(h, p, frames)
  BY <1>2, <1>8 DEF Reaching, SameQuestion
<1> QED BY <1>2, <1>3, <1>6, <1>7, <1>9 DEF StackOK

-----------------------------------------------------------------------------
\* Good answers.

\* A good answer stays one while the cells have the same defs, and data that
\* was read is not written.
LEMMA GoodSame ==
  ASSUME NEW g, NEW h, SameDefs(g, h), NEW loaded, NEW q, NEW p, SameQuestion(q, p),
         NEW id, NEW op, NEW r, Good(g, loaded, q, id, op, r),
         op = "get" => \A d \in DOMAIN g :
           (d = id \/ << id, d >> \in ReadDirectly(g) \cup ReadThrough(g)) =>
             (g[d].def.kind \in {"value", "sensor", "io"} => DataOf(h[d]) = DataOf(g[d]))
  PROVE  Good(h, loaded, p, id, op, r)
<1>1. DOMAIN h = DOMAIN g /\ \A d \in DOMAIN g : h[d].def = g[d].def
  BY DEF SameDefs
<1>2. /\ TellRow(h) = TellRow(g) /\ MayPassOnRow(h) = MayPassOnRow(g)
      /\ Askable(h) = Askable(g)
      /\ ReadDirectly(h) = ReadDirectly(g) /\ ReadThrough(h) = ReadThrough(g)
      /\ Trimmed(h) <=> Trimmed(g)
      /\ \A d : ReachesCycle(h, d) <=> ReachesCycle(g, d)
  BY SameDefsSame
<1>3. ReadOK(h, id, op, r)
  <2> SUFFICES ASSUME op = "get", id \in Askable(g) PROVE ReadOK(h, id, op, r)
    BY <1>2 DEF ReadOK
  <2>0. id \in DOMAIN g /\ ReadOK(g, id, op, r)
    BY DEF Askable, Good
  <2>1. g[id].def.kind \in {"value", "sensor", "io"} => r.ok /\ r.value.data = DataOf(h[id])
    BY <2>0 DEF ReadOK
  <2>2. g[id].def.kind = "program" => r.ok \/ r = Diverges
    BY <2>0 DEF ReadOK
  <2>3. ASSUME r.ok, NEW e \in ReadDirectly(g) \cup ReadThrough(g), e[1] = id
        PROVE  r.value.data = DataOf(h[e[2]])
    <3>1. /\ e = << id, e[2] >> /\ e[2] \in DOMAIN g
          /\ g[e[2]].def.kind \in {"value", "sensor", "io"}
      <4>1. e \in Askable(g) \X Askable(g)
        BY DEF ReadDirectly, ReadThrough
      <4>2. e = << id, e[2] >> /\ e[2] \in DOMAIN g
        <5>1. PICK c \in Askable(g), d \in Askable(g) : e = << c, d >>
          BY <4>1
        <5>2. c = id /\ e[2] = d
          BY <5>1, <2>3
        <5> QED BY <5>1, <5>2 DEF Askable
      <4>3. \E c : << c, e[2] >> \in ReadDirectly(g)
        BY <4>2 DEF ReadThrough
      <4>4. g[e[2]].def.kind \in {"value", "sensor", "io"}
        BY <4>3 DEF ReadDirectly
      <4> QED BY <4>2, <4>4
    <3>2. DataOf(h[e[2]]) = DataOf(g[e[2]])
      BY <2>3, <3>1
    <3>3. r.value.data = DataOf(g[e[2]])
      BY <2>0, <2>3 DEF ReadOK
    <3> QED BY <3>2, <3>3
  <2> QED BY <2>0, <2>1, <2>2, <2>3, <1>1, <1>2 DEF ReadOK
<1>4. RetryOK(p, r) /\ RowOK(h, p, id, r) /\ FieldOK(h, loaded, id, r) /\ CycleOK(h, p, r)
  <2>1. RetryOK(q, r) /\ RowOK(g, q, id, r) /\ FieldOK(g, loaded, id, r) /\ CycleOK(g, q, r)
    BY DEF Good
  <2>2. RetryOK(p, r)
    BY <2>1 DEF RetryOK, SameQuestion
  <2>3. RowOK(h, p, id, r)
    BY <2>1, <1>2 DEF RowOK, SameQuestion
  <2>4. FieldOK(h, loaded, id, r)
    BY <2>1, <1>1, <1>2 DEF FieldOK
  <2>5. CycleOK(h, p, r)
    BY <2>1, <1>2 DEF CycleOK, SameQuestion
  <2> QED BY <2>2, <2>3, <2>4, <2>5
<1>5. r.ok \in BOOLEAN /\ (r.ok => id \in DOMAIN h)
  BY <1>1 DEF Good
<1> QED BY <1>3, <1>4, <1>5 DEF Good

\* Caching an answer that is good for the row it was asked with.
LEMMA StoredKeeps ==
  ASSUME NEW g, GraphOK(g), CachesOK(g), NEW q, NEW f, f.id \in DOMAIN g, IsContext(f.ctx),
         f.ctx.row = q.row, NEW r, RowOK(g, q, f.id, r),
         g[f.id].def.kind \in HeldKinds => r.value.error = "none"
  PROVE  LET h == Stored(g, f, r) IN
         /\ GraphOK(h) /\ CachesOK(h) /\ SameDefs(g, h)
         /\ \A d \in DOMAIN g :
              (d # f.id \/ ~ CachesIt(f.op, g[f.id].def.kind)) => h[d] = g[d]
<1>1. CASE r.ok /\ CachesIt(f.op, g[f.id].def.kind)
  <2>1. (f.id \in TellRow(g) \cup MayPassOnRow(g) /\ f.ctx.row # Absent) =>
          r.value.data \in {f.ctx.row, Null}
    BY <1>1 DEF RowOK
  <2>2. LET h == Cached(g, f.id, f.ctx, r.value) IN
        /\ GraphOK(h) /\ CachesOK(h) /\ SameDefs(g, h)
        /\ \A d \in DOMAIN g : d # f.id => h[d] = g[d]
    BY <2>1, CachedKeeps
  <2>3. Stored(g, f, r) = Cached(g, f.id, f.ctx, r.value)
    BY <1>1 DEF Stored
  <2> QED BY <2>2, <2>3, <1>1
<1>2. CASE ~ (r.ok /\ CachesIt(f.op, g[f.id].def.kind))
  BY <1>2 DEF Stored, SameDefs
<1> QED BY <1>1, <1>2

\* What comes of the answer to what a cell asked.
LEMMA GoodTaken ==
  ASSUME NEW g, GraphOK(g), NEW loaded, loaded => SheetOK(g), NEW q, NEW f, FrameOK(g, q, f),
         NEW r, Good(g, loaded, q, Trim(InnerOf(g, f).id), InnerOf(g, f).op, r)
  PROVE  Good(g, loaded, q, f.id, f.op, Taken(g[f.id].def, r))
<1> DEFINE def   == g[f.id].def
           inner == InnerOf(g, f)
           id    == Trim(inner.id)
           res   == Taken(def, r)
<1>1. f.id \in DOMAIN g /\ WellFormed(def) /\ IsContext(f.ctx) /\ Delegates(def, f)
  BY DEF FrameOK, GraphOK, IsCell
<1>2. \/ def.kind = "program" /\ def.code.do \in {"get", "call"}
         /\ inner.op = def.code.do /\ inner.id = def.code.of
      \/ def.kind = "router" /\ inner.op = "call" /\ inner.id \in TargetsOf(def)
  <2> HIDE DEF def
  <2> QED BY <1>1, DelegatedFacts DEF InnerOf, def
<1>3. /\ r.ok \in BOOLEAN /\ (r.ok => id \in DOMAIN g)
      /\ RetryOK(q, r) /\ RowOK(g, q, id, r) /\ ReadOK(g, id, inner.op, r)
      /\ FieldOK(g, loaded, id, r) /\ CycleOK(g, q, r)
  BY DEF Good
<1> HIDE DEF inner, res
<1>4. CASE def.kind = "router"
  <2>1. res = r
    BY <1>4 DEF Taken, res
  <2>2. RowOK(g, q, f.id, res)
    <3> SUFFICES ASSUME q.row # Absent, r.ok, f.id \in TellRow(g) \cup MayPassOnRow(g)
                 PROVE  r.value.data \in {q.row, Null}
      BY <2>1 DEF RowOK
    <3>1. {Trim(t) : t \in TargetsOf(def)} \cap DOMAIN g \subseteq TellRow(g)
      BY <1>4 DEF TellRow, MayPassOnRow
    <3>2. id \in TellRow(g)
      BY <3>1, <1>2, <1>3, <1>4
    <3> QED BY <3>2, <1>3 DEF RowOK
  <2>3. ReadOK(g, f.id, f.op, res)
    BY <1>4, <1>1 DEF ReadOK, ReadDirectly, ReadThrough
  <2>4. FieldOK(g, loaded, f.id, res)
    <3> SUFFICES ASSUME loaded, Trimmed(g)
                 PROVE  r.error \in {"none", "diverges"} /\ r.value.error \notin {"no code", "no endpoint"}
      BY <2>1 DEF FieldOK
    <3>1. TargetsOf(def) \subseteq DOMAIN g
      BY <1>1, <1>4 DEF SheetOK
    <3>2. id \in DOMAIN g
      BY <3>1, <1>2, <1>4 DEF Trimmed
    <3> QED BY <3>2, <1>3 DEF FieldOK
  <2> QED BY <2>1, <2>2, <2>3, <2>4, <1>1, <1>3 DEF Good, res
<1>5. CASE def.kind = "program" /\ r = Diverges
  <2>1. res = Diverges /\ ~ res.ok /\ res.error = "diverges" /\ res.value.error = "none"
        /\ res = r
    BY <1>5 DEF Taken, res, Diverges, Err, IdleOf
  <2>2. RetryOK(q, res) /\ RowOK(g, q, f.id, res) /\ FieldOK(g, loaded, f.id, res)
        /\ CycleOK(g, q, res)
    BY <2>1, <1>3 DEF RetryOK, RowOK, FieldOK
  <2>3. ReadOK(g, f.id, f.op, res)
    BY <2>1, <1>5 DEF ReadOK
  <2> QED BY <2>1, <2>2, <2>3, <1>3 DEF Good, res
<1>6. CASE def.kind = "program" /\ r # Diverges
  <2>1. /\ res = Ok(ReadyOf(IF r.ok THEN r.value.data ELSE Null))
        /\ res.ok = TRUE /\ res.error = "none" /\ res.value.error = "none"
        /\ res.value.data = IF r.ok THEN r.value.data ELSE Null
    BY <1>6 DEF Taken, res, Ok, ReadyOf
  <2>2. res # Diverges
    BY <2>1 DEF Diverges, Err
  <2>3. RetryOK(q, res) /\ FieldOK(g, loaded, f.id, res) /\ CycleOK(g, q, res)
    BY <2>1, <2>2 DEF RetryOK, FieldOK, CycleOK
  <2>4. RowOK(g, q, f.id, res)
    <3> SUFFICES ASSUME q.row # Absent, r.ok, f.id \in TellRow(g) \cup MayPassOnRow(g)
                 PROVE  r.value.data \in {q.row, Null}
      BY <2>1 DEF RowOK
    <3>1. def.code.do = "call" /\ {Trim(def.code.of)} \cap DOMAIN g \subseteq TellRow(g)
      BY <1>2, <1>6 DEF TellRow, MayPassOnRow
    <3>2. id \in TellRow(g)
      BY <3>1, <1>2, <1>3, <1>6
    <3> QED BY <3>2, <1>3 DEF RowOK
  <2>5. ReadOK(g, f.id, f.op, res)
    <3> SUFFICES ASSUME NEW p \in ReadDirectly(g) \cup ReadThrough(g), p[1] = f.id
                 PROVE  res.value.data = DataOf(g[p[2]])
      BY <1>6, <2>1 DEF ReadOK
    <3>1. inner.op = "get"
      BY <1>2, <1>6 DEF ReadDirectly, ReadThrough
    <3>2. CASE p \in ReadDirectly(g)
      <4>1. id = p[2] /\ id \in Askable(g) /\ g[id].def.kind \in {"value", "sensor", "io"}
        BY <3>2, <1>2, <1>6 DEF ReadDirectly
      <4> QED BY <4>1, <3>1, <2>1, <1>3 DEF ReadOK
    <3>3. CASE p \in ReadThrough(g)
      <4>1. << id, p[2] >> \in ReadDirectly(g)
        BY <3>3, <1>2, <1>6 DEF ReadThrough
      <4>2. id \in Askable(g) /\ g[id].def.kind = "program"
        BY <4>1 DEF ReadDirectly
      <4>3. r.ok
        BY <4>2, <3>1, <1>3, <1>6 DEF ReadOK
      <4>4. r.value.data = DataOf(g[p[2]])
        BY <4>1, <4>2, <4>3, <3>1, <1>3 DEF ReadOK
      <4> QED BY <4>3, <4>4, <2>1
    <3> QED BY <3>2, <3>3
  <2> QED BY <2>1, <2>3, <2>4, <2>5, <1>1 DEF Good, res
<1> QED BY <1>2, <1>4, <1>5, <1>6 DEF res

\* The parts of a value.
LEMMA ValueFacts ==
  /\ \A data : ReadyOf(data).data = data /\ ReadyOf(data).error = "none"
  /\ \A error : ErrorOf(error).data = Null /\ ErrorOf(error).error = error
  /\ \A data : [ErrorOf("model swap") EXCEPT !.data = data].error = "model swap"
BY DEF ReadyOf, ErrorOf

\* An evaluation that asks nobody.
LEMMA GoodEvaluated ==
  ASSUME NEW g, GraphOK(g), NEW loaded, loaded => SheetOK(g), NEW q, NEW f, f.id \in DOMAIN g,
         f.ctx.row = q.row, ~ Delegates(g[f.id].def, f)
  PROVE  /\ Good(g, loaded, q, f.id, f.op, Ok(Evaluated(g[f.id], f, q.net)))
         /\ g[f.id].def.kind \in HeldKinds => Evaluated(g[f.id], f, q.net).error = "none"
<1> DEFINE cell == g[f.id]
           def  == cell.def
           v    == Evaluated(cell, f, q.net)
           r    == Ok(v)
<1>1. WellFormed(def) /\ (def.kind \in HeldKinds => cell.value.error = "none")
  BY DEF GraphOK, IsCell
<1>2. loaded => HasItsField(def)
  BY DEF SheetOK
<1>3. r.ok = TRUE /\ r.error = "none" /\ r.value = v /\ r # Diverges
  BY DEF Ok, Diverges, Err
<1>4. ~ Delegates(def, f)
  OBVIOUS
<1>5. \* What fails, and what comes of a cell that tells its caller's row.
      /\ v.error = "http" => q.net # "answers"
      /\ HasItsField(def) => v.error \notin {"no code", "no endpoint"}
      /\ def.kind \in HeldKinds => v.error = "none"
      /\ (def.kind = "program" /\ def.code.do = "row" /\ q.row # Absent) => v.data = q.row
      /\ (def.kind = "api" /\ def.endpoint = "{{row}}" /\ q.row # Absent) =>
           v.data \in {q.row, Null}
      /\ def.kind = "value" => v.data = EvaluateValue(cell).data
      /\ def.kind \in {"sensor", "io"} => v.data = cell.value.data
  <2>1. CASE def.kind = "value"
    BY <2>1 DEF Evaluated, EvaluateValue, ReadyOf, HeldKinds
  <2>2. CASE def.kind = "api"
    <3>1. v = EvaluateApi(def, f.ctx, q.net)
      BY <2>2 DEF Evaluated
    <3>2. CASE def.endpoint = Absent
      <4> HIDE DEF v, def, cell
      <4>1. v = ErrorOf("no endpoint")
        BY <3>1, <3>2 DEF EvaluateApi, Absent
      <4>2. ~ HasItsField(def)
        BY <3>2, <2>2 DEF HasItsField
      <4> QED BY <4>1, <4>2, <3>2, <2>2, ValueFacts DEF HeldKinds, Absent
    <3>3. CASE def.endpoint \in {"model:", "mcp://"}
      <4>1. v = ReadyOf("note") /\ def.endpoint # "{{row}}"
        BY <3>1, <3>3 DEF EvaluateApi, Absent
      <4> HIDE DEF v, def, cell
      <4> QED BY <4>1, <2>2, ValueFacts DEF HeldKinds
    <3>4. CASE def.endpoint \notin {Absent, "model:", "mcp://"}
      <4>1. v = IF q.net = "answers" THEN ReadyOf(Substituted(def.endpoint, f.ctx))
                                     ELSE ErrorOf("http")
        BY <3>1, <3>4 DEF EvaluateApi
      <4>2. (def.endpoint = "{{row}}" /\ q.row # Absent) =>
              Substituted(def.endpoint, f.ctx) = q.row
        BY DEF Substituted
      <4> HIDE DEF v, def
      <4> QED BY <4>1, <4>2, <2>2, ValueFacts DEF HeldKinds
    <3> QED BY <3>2, <3>3, <3>4
  <2>3. CASE def.kind = "program"
    <3>1. v = EvaluateProgram(def, f) /\ def.code.do \in {Absent, "fail", "input", "row", "meta", "set"}
      BY <2>3, <1>1, <1>4 DEF Evaluated, Delegates, WellFormed
    <3>2. \/ v = ErrorOf("no code") /\ ~ HasItsField(def) /\ def.code.do # "row"
          \/ v = ErrorOf("script") /\ def.code.do # "row"
          \/ (\E data : v = ReadyOf(data)) /\ def.code.do # "row"
          \/ v = ReadyOf(Seen(f.ctx.row))
      BY <3>1, <2>3 DEF EvaluateProgram, HasItsField, Absent
    <3>3. q.row # Absent => Seen(f.ctx.row) = q.row
      BY DEF Seen
    <3> HIDE DEF v, def, cell
    <3>4. /\ v.error \in {"no code", "script", "none"}
          /\ v.error = "no code" => ~ HasItsField(def)
      BY <3>2, ValueFacts
    <3>5. (def.code.do = "row" /\ q.row # Absent) => v.data = q.row
      BY <3>2, <3>3, ValueFacts
    <3> QED BY <3>4, <3>5, <2>3 DEF HeldKinds
  <2>4. CASE def.kind = "router"
    <3>1. v = EvaluateRouter(def, f)
      BY <2>4 DEF Evaluated
    <3>2. v = ReadyOf(Seen(f.input)) \/ v = ReadyOf(RouteOf(def, f).value)
            \/ v = [ErrorOf("model swap") EXCEPT !.data = Seen(f.input)]
      BY <3>1 DEF EvaluateRouter
    <3> HIDE DEF v, def, cell
    <3>4. v.error \in {"none", "model swap"}
      BY <3>2, ValueFacts
    <3> QED BY <3>4, <2>4 DEF HeldKinds
  <2>5. CASE def.kind \in HeldKinds
    <3>1. v = cell.value
      BY <2>5 DEF Evaluated, HeldKinds
    <3> QED BY <3>1, <2>5, <1>1 DEF HeldKinds
  <2> QED BY <2>1, <2>2, <2>3, <2>4, <2>5, <1>1 DEF WellFormed, HeldKinds
<1>6. RowOK(g, q, f.id, r)
  <2> SUFFICES ASSUME q.row # Absent, f.id \in TellRow(g) \cup MayPassOnRow(g)
               PROVE  v.data \in {q.row, Null}
    BY <1>3 DEF RowOK
  <2>1. CASE f.id \in TellRow(g)
    BY <2>1, <1>5 DEF TellRow
  <2>2. CASE f.id \in MayPassOnRow(g)
    <3>1. ~ (def.kind = "program" /\ def.code.do = "call")
      BY <1>4 DEF Delegates
    <3>2. /\ def.kind = "router" /\ \A x \in ToSet(def.rules) : x.route.to = "cell"
          /\ \E x \in ToSet(def.rules) : x.when.is = "true"
      BY <3>1, <2>2 DEF MayPassOnRow
    <3>3. \E i \in DOMAIN def.rules : RuleMatches(def.rules[i].when, f.ctx, f.input)
      BY <3>2 DEF ToSet, RuleMatches
    <3>4. /\ Winner(def.rules, f.ctx, f.input) # 0
          /\ def.rules[Winner(def.rules, f.ctx, f.input)] \in ToSet(def.rules)
      BY <3>3, <1>1, WinnerFacts DEF WellFormed
    <3> QED BY <3>2, <3>4, <1>4 DEF Delegates, RouteOf
  <2> QED BY <2>1, <2>2
<1>7. ReadOK(g, f.id, f.op, r)
  <2>1. ASSUME NEW p \in ReadDirectly(g) \cup ReadThrough(g), p[1] = f.id PROVE FALSE
    BY <2>1, <1>4 DEF ReadDirectly, ReadThrough, Delegates
  <2>2. def.kind \in {"value", "sensor", "io"} => v.data = DataOf(cell)
    BY <1>5 DEF DataOf
  <2> QED BY <2>1, <2>2, <1>3 DEF ReadOK
<1>8. RetryOK(q, r) /\ FieldOK(g, loaded, f.id, r) /\ CycleOK(g, q, r)
  BY <1>2, <1>3, <1>5 DEF RetryOK, FieldOK, CycleOK
<1> QED BY <1>3, <1>5, <1>6, <1>7, <1>8 DEF Good

\* An answer from the cache, which only call takes.
LEMMA GoodServed ==
  ASSUME NEW g, GraphOK(g), CachesOK(g), NEW loaded, NEW q, NEW f, f.id \in DOMAIN g,
         f.ctx.row = q.row, Serves(f.op, g[f.id], f.ctx)
  PROVE  Good(g, loaded, q, f.id, f.op, Ok(g[f.id].cache[ContextKey(f.ctx)]))
<1> DEFINE key == ContextKey(f.ctx)
           v   == g[f.id].cache[key]
           r   == Ok(v)
<1>1. f.op = "call" /\ key \in DOMAIN g[f.id].cache /\ v.error = "none"
  BY DEF Serves, Hit
<1>2. r.ok = TRUE /\ r.error = "none" /\ r.value = v /\ r # Diverges
  BY DEF Ok, Diverges, Err
<1>3. key[1] = f.ctx.row
  BY DEF ContextKey
<1> HIDE DEF key, v
<1>4. RowOK(g, q, f.id, r)
  BY <1>1, <1>2, <1>3 DEF RowOK, CachesOK, v
<1>5. ReadOK(g, f.id, f.op, r)
  BY <1>1 DEF ReadOK
<1>6. RetryOK(q, r) /\ FieldOK(g, loaded, f.id, r) /\ CycleOK(g, q, r)
  BY <1>1, <1>2 DEF RetryOK, FieldOK, CycleOK
<1> HIDE DEF r
<1>7. r.ok \in BOOLEAN /\ (r.ok => f.id \in DOMAIN g)
  BY <1>2
<1> QED BY <1>4, <1>5, <1>6, <1>7 DEF Good, r, v, key

\* A request that is refused: of a cell that is not there, or inside itself.
LEMMA GoodRefused ==
  ASSUME NEW g, GraphOK(g), NEW loaded, loaded => SheetOK(g), NEW q, NEW id, NEW op,
         NEW error, \/ error = "invalid id" /\ id = ""
                    \/ error = "not found" /\ id \notin DOMAIN g
                    \/ /\ error = "diverges" /\ id \in DOMAIN g /\ ReachesCycle(g, q.id)
                       /\ g[id].def.kind \in {"program", "router"}
  PROVE  Good(g, loaded, q, id, op, Err(error))
<1> DEFINE r == Err(error)
<1>1. r.ok = FALSE /\ r.error = error /\ r.value.error = "none"
  BY DEF Err, IdleOf
<1>2. r = Diverges <=> error = "diverges"
  BY DEF Err, Diverges
<1>3. (loaded /\ Trimmed(g) /\ id \in DOMAIN g) => error = "diverges"
  BY DEF SheetOK, Trimmed
<1>4. id \in Askable(g) => error = "diverges" /\ g[id].def.kind \in {"program", "router"}
  BY DEF Askable
<1> HIDE DEF r
<1>5. ReadOK(g, id, op, r)
  BY <1>1, <1>2, <1>4 DEF ReadOK
<1>6. RetryOK(q, r) /\ RowOK(g, q, id, r) /\ FieldOK(g, loaded, id, r)
  BY <1>1, <1>3 DEF RetryOK, RowOK, FieldOK
<1>7. CycleOK(g, q, r)
  BY <1>2 DEF CycleOK
<1>8. r.ok \in BOOLEAN /\ (r.ok => id \in DOMAIN g)
  BY <1>1
<1> QED BY <1>5, <1>6, <1>7, <1>8 DEF Good, r

-----------------------------------------------------------------------------
\* The invariant holds at first and after every step.

LEMMA Initially ==
  ASSUME EffectInit
  PROVE  EffectInv
<1>1. cells = << >> /\ DOMAIN cells = {}
  BY DEF EffectInit
<1>2. GraphOK(cells)
  <2>1. cells = [id \in DOMAIN cells |-> cells[id]]
    BY <1>1
  <2> QED BY <1>1, <2>1 DEF GraphOK
<1>3. CachesOK(cells) /\ SheetOK(cells)
  BY <1>1 DEF CachesOK, SheetOK, TellRow, MayPassOnRow
<1>4. IsAnswer(answer) /\ AtRest
  BY DEF EffectInit, IsAnswer, AtRest, NoAnswer
<1> QED BY <1>2, <1>3, <1>4 DEF EffectInv, EffectInit

\* Between requests: whatever the cells have become, there is no answer yet.
LEMMA OverKeeps ==
  ASSUME EffectInv, Step, Over, GraphOK(cells'), CachesOK(cells'),
         accepted' => SheetOK(cells'), accepted' \in BOOLEAN
  PROVE  EffectInv'
<1>1. AtRest
  BY DEF EffectInv, Step, Asking, Giving, Idle
<1>2. IsAnswer(answer)' /\ AtRest'
  BY <1>1 DEF Over, AtRest, IsAnswer, NoAnswer
<1> QED BY <1>2 DEF EffectInv

LEMMA BeginKeeps ==
  ASSUME EffectInv, Step, NEW request, NEW op, NEW net,
         request = Asks(request.op, request.id, request.input, request.ctx),
         IsContext(request.ctx), op \in {"get", "call"} => op = request.op,
         Begin(request, op, net)
  PROVE  EffectInv'
<1>1. AtRest /\ stack = << >>
  BY DEF EffectInv, Step, Asking, Giving, Idle, AtRest
<1>2. /\ cells' = cells /\ accepted' = accepted /\ stack' = << >> /\ turn' = request
      /\ answer' = [NoAnswer EXCEPT !.op = op, !.id = Trim(request.id),
                                    !.row = request.ctx.row, !.net = net]
  BY <1>1 DEF Begin
<1>3. answer' = [op |-> op, id |-> Trim(request.id), row |-> request.ctx.row, net |-> net,
                 result |-> Ok(IdleOf)]
  BY <1>2 DEF NoAnswer
<1>4. IsAnswer(answer)' /\ answer'.op = op /\ answer'.id = Trim(request.id)
      /\ answer'.row = request.ctx.row
  BY <1>3 DEF IsAnswer
<1>5. StackOK(cells, answer, stack)'
  <2>1. << >> \in Seq(ToSet(<< >>)) /\ Len(<< >>) = 0
    BY DEF ToSet
  <2> QED BY <1>2, <2>1 DEF StackOK, Chained, Reaching
<1>6. request.is = "ask"
  BY DEF Asks
<1>7. Asking'
  BY <1>2, <1>4, <1>5, <1>6 DEF Asking, Follows
<1> QED BY <1>2, <1>4, <1>7 DEF EffectInv

LEMMA AsksFacts ==
  ASSUME NEW op, NEW id, NEW input, NEW ctx
  PROVE  LET request == Asks(op, id, input, ctx) IN
         /\ request = Asks(request.op, request.id, request.input, request.ctx)
         /\ request.op = op /\ request.id = id /\ request.ctx = ctx
BY DEF Asks

LEMMA GetKeeps ==
  ASSUME EffectInv, Step, NEW id, NEW ctx, IsContext(ctx), NEW net, Get(id, ctx, net)
  PROVE  EffectInv'
BY BeginKeeps, AsksFacts DEF Get

LEMMA CallKeeps ==
  ASSUME EffectInv, Step, NEW id, NEW input, NEW ctx, IsContext(ctx), NEW net,
         Call(id, input, ctx, net)
  PROVE  EffectInv'
BY BeginKeeps, AsksFacts DEF Call

LEMMA FireKeeps ==
  ASSUME EffectInv, Step, NEW id, NEW changed, NEW net, FireListener(id, changed, net)
  PROVE  EffectInv'
<1> DEFINE request == Asks("call", cells[id].def.action, cells[changed].value.data, cells[id].last)
<1>1. \/ Begin(request, "fire", net)
      \/ Over /\ UNCHANGED << cells, accepted >>
  BY DEF FireListener
<1>2. CASE Begin(request, "fire", net)
  <2>1. id \in DOMAIN cells /\ IsContext(cells[id].last)
    BY DEF FireListener, EffectInv, GraphOK, IsCell
  <2>2. /\ request = Asks(request.op, request.id, request.input, request.ctx)
        /\ request.ctx = cells[id].last
    BY AsksFacts
  <2> HIDE DEF request
  <2> QED BY <1>2, <2>1, <2>2, BeginKeeps
<1>3. CASE Over /\ UNCHANGED << cells, accepted >>
  BY <1>3, OverKeeps DEF EffectInv
<1> QED BY <1>1, <1>2, <1>3

LEMMA SetKeeps ==
  ASSUME EffectInv, Step, NEW id, NEW data, Set(id, data)
  PROVE  EffectInv'
<1>1. CASE cells' = cells
  BY <1>1, OverKeeps DEF Set, EffectInv
<1>2. CASE Trim(id) \in DOMAIN cells /\ cells' = WithSet(cells, Trim(id), data)
  <2>1. Rewritten(cells, cells')
    BY <1>2, WriteRewrites DEF EffectInv
  <2>2. CachesOK(cells') /\ (SheetOK(cells') <=> SheetOK(cells))
    BY <2>1, RewrittenCaches, SameDefsSame DEF EffectInv, Rewritten
  <2> QED BY <2>1, <2>2, OverKeeps DEF Set, EffectInv, Rewritten
<1> QED BY <1>1, <1>2 DEF Set, Askable

LEMMA PushKeeps ==
  ASSUME EffectInv, Step, NEW id, NEW data, Push(id, data)
  PROVE  EffectInv'
<1>1. CASE cells' = cells
  BY <1>1, OverKeeps DEF Push, EffectInv
<1>2. CASE Trim(id) \in DOMAIN cells /\ cells' = WithPushed(cells, Trim(id), data)
  <2>1. Rewritten(cells, cells')
    BY <1>2, WriteRewrites DEF EffectInv
  <2>2. CachesOK(cells') /\ (SheetOK(cells') <=> SheetOK(cells))
    BY <2>1, RewrittenCaches, SameDefsSame DEF EffectInv, Rewritten
  <2> QED BY <2>1, <2>2, OverKeeps DEF Push, EffectInv, Rewritten
<1> QED BY <1>1, <1>2 DEF Push, Askable

LEMMA LoadKeeps ==
  ASSUME EffectInv, Step, NEW sheet \in Sheets, ParseAndLoad(sheet) \/ LoadSheet(sheet)
  PROVE  EffectInv'
<1>1. /\ GraphOK(Loaded(sheet)) /\ CachesOK(Loaded(sheet))
      /\ ValidSheet(sheet) => SheetOK(Loaded(sheet))
  BY EffectfulAssumption, LoadedFacts DEF EffectfulAssumption
<1>2. CASE ParseAndLoad(sheet)
  BY <1>1, <1>2, OverKeeps DEF ParseAndLoad, EffectInv
<1>3. CASE LoadSheet(sheet)
  BY <1>1, <1>3, OverKeeps DEF LoadSheet
<1> QED BY <1>2, <1>3

LEMMA RegisterKeeps ==
  ASSUME EffectInv, Step, NEW def \in Extras, Register(def)
  PROVE  EffectInv'
<1>0. Over /\ accepted \in BOOLEAN /\ GraphOK(cells) /\ CachesOK(cells)
      /\ (accepted => SheetOK(cells)) /\ accepted' = (accepted /\ def.id \in DOMAIN cells)
  BY DEF Register, EffectInv
<1>1. CASE def.id \in DOMAIN cells
  <2>1. cells' = cells
    BY <1>1 DEF Register
  <2> QED BY <1>0, <2>1, OverKeeps
<1>2. CASE def.id \notin DOMAIN cells
  <2>1. cells' = Registered(cells, def) /\ ~ accepted'
    BY <1>0, <1>2 DEF Register
  <2>2. GraphOK(cells') /\ CachesOK(cells')
    BY <1>0, <1>2, <2>1, EffectfulAssumption, RegisteredFacts DEF EffectfulAssumption
  <2> QED BY <1>0, <2>1, <2>2, OverKeeps
<1> QED BY <1>1, <1>2

-----------------------------------------------------------------------------
\* The steps of a request in flight.

\* A good answer that goes where it was asked for.
LEMMA AnswerKeeps ==
  ASSUME EffectInv, NEW rest, NEW result, NEW id, NEW op, Answer(rest, result),
         SameDefs(cells, cells'), GraphOK(cells'), CachesOK(cells'),
         StackOK(cells, answer, rest), Follows(cells, answer, rest, id, op),
         Good(cells', accepted, answer, id, op, result)
  PROVE  EffectInv'
<1>1. accepted' = accepted /\ stack' = rest
  BY DEF Answer
<1>2. IsAnswer(answer)' /\ SameQuestion(answer, answer')
      /\ (rest = << >> => answer'.result = result)
  <2>1. answer = [op |-> answer.op, id |-> answer.id, row |-> answer.row, net |-> answer.net,
                  result |-> answer.result]
    BY DEF EffectInv, IsAnswer
  <2>2. CASE rest = << >>
    <3>1. answer' = [op |-> answer.op, id |-> answer.id, row |-> answer.row, net |-> answer.net,
                     result |-> result]
      BY <2>1, <2>2 DEF Answer
    <3> QED BY <3>1 DEF IsAnswer, SameQuestion
  <2>3. CASE rest # << >>
    <3>1. answer' = answer
      BY <2>3 DEF Answer
    <3> QED BY <2>1, <2>3, <3>1 DEF IsAnswer, SameQuestion
  <2> QED BY <2>2, <2>3
<1>3. SheetOK(cells') <=> SheetOK(cells)
  BY SameDefsSame
<1>4. StackOK(cells', answer', rest) /\ Follows(cells', answer', rest, id, op)
  BY <1>2, StackSame
<1>5. Good(cells', accepted, answer', id, op, result)
  <2>1. SameDefs(cells', cells')
    BY DEF SameDefs
  <2> QED BY <1>2, <2>1, GoodSame
<1>6. CASE rest = << >>
  <2>1. turn' = Idle /\ answer'.result = result
    BY <1>2, <1>6 DEF Answer
  <2>2. id = answer'.id /\ (answer'.op \in {"get", "call"} => op = answer'.op)
    BY <1>4, <1>6 DEF Follows
  <2>3. AtRest'
    BY <1>1, <1>5, <1>6, <2>1, <2>2 DEF AtRest
  <2> QED BY <1>1, <1>2, <1>3, <2>3 DEF EffectInv
<1>7. CASE rest # << >>
  <2>1. turn' = Gives(result) /\ turn'.is = "give" /\ turn'.result = result
    BY <1>7 DEF Answer, Gives
  <2>2. id = Trim(InnerOf(cells', Last(rest)).id) /\ op = InnerOf(cells', Last(rest)).op
    BY <1>4, <1>7 DEF Follows
  <2>3. Giving'
    BY <1>1, <1>4, <1>5, <1>7, <2>1, <2>2 DEF Giving
  <2> QED BY <1>1, <1>2, <1>3, <2>3 DEF EffectInv
<1> QED BY <1>6, <1>7

LEMMA SameAsItself ==
  ASSUME NEW g
  PROVE  SameDefs(g, g)
BY DEF SameDefs

LEMMA RequestedFacts ==
  ASSUME EffectInv, turn.is = "ask"
  PROVE  /\ StackOK(cells, answer, stack)
         /\ Follows(cells, answer, stack, Requested.id, Requested.op)
         /\ Requested = [op |-> Requested.op, id |-> Requested.id,
                         input |-> Requested.input, ctx |-> Requested.ctx]
         /\ IsContext(Requested.ctx) /\ Requested.ctx.row = answer.row
         /\ Requested.ctx.caller = Requested.id
<1>1. Asking
  BY DEF EffectInv, AtRest, Giving, Idle
<1>2. Requested.op = turn.op /\ Requested.id = Trim(turn.id)
      /\ Requested.ctx = [turn.ctx EXCEPT !.caller = Trim(turn.id)]
  BY DEF Requested, Extended
<1>3. Requested.ctx = [row |-> turn.ctx.row, meta |-> turn.ctx.meta, caller |-> Trim(turn.id)]
  BY <1>1, <1>2 DEF Asking, IsContext
<1>4. Requested = [op |-> Requested.op, id |-> Requested.id,
                   input |-> Requested.input, ctx |-> Requested.ctx]
  BY DEF Requested
<1>5. IsContext(Requested.ctx) /\ Requested.ctx.row = turn.ctx.row
      /\ Requested.ctx.caller = Requested.id
  BY <1>2, <1>3 DEF IsContext
<1> QED BY <1>1, <1>2, <1>4, <1>5 DEF Asking

LEMMA RefuseKeeps ==
  ASSUME EffectInv, Refuse
  PROVE  EffectInv'
<1> DEFINE id == Requested.id
           op == Requested.op
<1>1. cells' = cells /\ turn.is = "ask" /\ GraphOK(cells) /\ CachesOK(cells)
      /\ (accepted => SheetOK(cells))
  BY DEF Refuse, EffectInv
<1>2. StackOK(cells, answer, stack) /\ Follows(cells, answer, stack, id, op)
  BY <1>1, RequestedFacts
<1>3. PICK error : /\ Answer(stack, Err(error))
                   /\ \/ error = "invalid id" /\ id = ""
                      \/ error = "not found" /\ id \notin DOMAIN cells
                      \/ error = "diverges" /\ id \in DOMAIN cells /\ Requested \in ToSet(stack)
  BY DEF Refuse, Diverges
<1>4. ASSUME id \in DOMAIN cells, Requested \in ToSet(stack)
      PROVE  /\ ReachesCycle(cells, answer.id)
             /\ cells[id].def.kind \in {"program", "router"}
  <2>1. ReachesCycle(cells, answer.id)
    BY <1>1, <1>2, <1>4, AgainIsACycle
  <2>2. FrameOK(cells, answer, Requested)
    BY <1>2, <1>4 DEF StackOK, ToSet
  <2> QED BY <2>1, <2>2 DEF FrameOK, Delegates
<1>5. Good(cells, accepted, answer, id, op, Err(error))
  <2> HIDE DEF id, op
  <2> QED BY <1>1, <1>3, <1>4, GoodRefused
<1> QED BY <1>1, <1>2, <1>3, <1>5, AnswerKeeps, SameAsItself

LEMMA ServeKeeps ==
  ASSUME EffectInv, Serve
  PROVE  EffectInv'
<1> DEFINE result == Ok(cells[Requested.id].cache[ContextKey(Requested.ctx)])
<1>1. /\ cells' = cells /\ turn.is = "ask" /\ GraphOK(cells) /\ CachesOK(cells)
      /\ Requested.id \in DOMAIN cells /\ Answer(stack, result)
      /\ Serves(Requested.op, cells[Requested.id], Requested.ctx)
  BY DEF Serve, Sound, EffectInv
<1>2. /\ StackOK(cells, answer, stack) /\ Requested.ctx.row = answer.row
      /\ Follows(cells, answer, stack, Requested.id, Requested.op)
  BY <1>1, RequestedFacts
<1>3. Good(cells, accepted, answer, Requested.id, Requested.op, result)
  BY <1>1, <1>2, GoodServed
<1> HIDE DEF result
<1> QED BY <1>1, <1>2, <1>3, AnswerKeeps, SameAsItself

LEMMA DelegateKeeps ==
  ASSUME EffectInv, Delegate
  PROVE  EffectInv'
<1> DEFINE f     == Requested
           inner == Delegated(cells[f.id].def, f)
<1>1. /\ cells' = cells /\ accepted' = accepted /\ answer' = answer
      /\ turn.is = "ask" /\ GraphOK(cells) /\ f.id \in DOMAIN cells
      /\ Delegates(cells[f.id].def, f)
      /\ stack' = Append(stack, f) /\ turn' = inner
  BY DEF Delegate, Sound, EffectInv
<1>2. /\ StackOK(cells, answer, stack) /\ Follows(cells, answer, stack, f.id, f.op)
      /\ f = [op |-> f.op, id |-> f.id, input |-> f.input, ctx |-> f.ctx]
      /\ IsContext(f.ctx) /\ f.ctx.row = answer.row /\ f.ctx.caller = f.id
  BY <1>1, RequestedFacts
<1> HIDE DEF f
<1>3. FrameOK(cells, answer, f)
  BY <1>1, <1>2 DEF FrameOK
<1>4. StackOK(cells, answer, stack') /\ stack' # << >> /\ Last(stack') = f
  BY <1>1, <1>2, <1>3, StackGrows
<1>5. /\ inner = Asks(inner.op, inner.id, inner.input, inner.ctx) /\ inner.is = "ask"
      /\ IsContext(inner.ctx) /\ inner.ctx.row = answer.row
  <2>1. WellFormed(cells[f.id].def)
    BY <1>1 DEF GraphOK, IsCell
  <2> QED BY <1>1, <1>2, <2>1, DelegatedFacts
<1>6. Asking'
  BY <1>1, <1>4, <1>5 DEF Asking, Follows, InnerOf
<1> QED BY <1>1, <1>6 DEF EffectInv

\* The cells an evaluation leaves: what a script sets is not what it answers
\* with, and get caches what has no data of its own.
LEMMA EvaluateKeeps ==
  ASSUME EffectInv, Evaluate
  PROVE  EffectInv'
<1> DEFINE f      == Requested
           value  == Evaluated(cells[f.id], f, answer.net)
           result == Ok(value)
           kind   == cells[f.id].def.kind
           g      == Touched(cells, f)
<1>1. /\ turn.is = "ask" /\ GraphOK(cells) /\ CachesOK(cells) /\ (accepted => SheetOK(cells))
      /\ f.id \in DOMAIN cells /\ ~ Delegates(cells[f.id].def, f)
      /\ cells' = Stored(g, f, result) /\ Answer(stack, result)
  BY DEF Evaluate, Sound, EffectInv
<1>2. /\ StackOK(cells, answer, stack) /\ Follows(cells, answer, stack, f.id, f.op)
      /\ IsContext(f.ctx) /\ f.ctx.row = answer.row
  BY <1>1, RequestedFacts
<1>3. /\ Good(cells, accepted, answer, f.id, f.op, result)
      /\ kind \in HeldKinds => value.error = "none"
  <2> HIDE DEF f
  <2> QED BY <1>1, <1>2, GoodEvaluated
<1>4. /\ GraphOK(g) /\ CachesOK(g) /\ SameDefs(cells, g)
      /\ kind = "program" \/ g = cells
  <2>1. CASE g = cells
    BY <2>1, <1>1, SameAsItself
  <2>2. CASE /\ kind = "program" /\ Trim(cells[f.id].def.code.of) \in DOMAIN cells
             /\ g = WithSet(cells, Trim(cells[f.id].def.code.of), Seen(f.input))
    <3>1. Rewritten(cells, g)
      BY <2>2, <1>1, WriteRewrites
    <3>2. CachesOK(g)
      BY <3>1, <1>1, RewrittenCaches
    <3> QED BY <2>2, <3>1, <3>2 DEF Rewritten
  <2> QED BY <2>1, <2>2 DEF Touched, Askable
<1> HIDE DEF f, value, g
<1>5. g[f.id].def = cells[f.id].def /\ DOMAIN g = DOMAIN cells
  BY <1>1, <1>4 DEF SameDefs
<1>6. result.value = value
  BY DEF Ok
<1>7. RowOK(g, answer, f.id, result)
  <2>1. TellRow(g) = TellRow(cells) /\ MayPassOnRow(g) = MayPassOnRow(cells)
    BY <1>4, SameDefsSame
  <2> QED BY <1>3, <2>1 DEF Good, RowOK
<1> HIDE DEF result
<1>8. /\ GraphOK(cells') /\ CachesOK(cells') /\ SameDefs(g, cells')
      /\ \A d \in DOMAIN g : (d # f.id \/ ~ CachesIt(f.op, kind)) => cells'[d] = g[d]
  BY <1>1, <1>2, <1>3, <1>4, <1>5, <1>6, <1>7, StoredKeeps
<1>9. SameDefs(cells, cells')
  BY <1>4, <1>8 DEF SameDefs
<1>10. ASSUME f.op = "get", NEW d \in DOMAIN cells,
              d = f.id \/ << f.id, d >> \in ReadDirectly(cells) \cup ReadThrough(cells),
              cells[d].def.kind \in {"value", "sensor", "io"}
       PROVE  DataOf(cells'[d]) = DataOf(cells[d])
  <2>1. d = f.id
    BY <1>1, <1>10 DEF ReadDirectly, ReadThrough, Delegates
  <2>2. g = cells /\ ~ CachesIt(f.op, kind)
    BY <2>1, <1>4, <1>10 DEF CachesIt
  <2> QED BY <2>1, <2>2, <1>8, <1>10
<1>11. Good(cells', accepted, answer, f.id, f.op, result)
  <2>1. SameQuestion(answer, answer)
    BY DEF SameQuestion
  <2> QED BY <2>1, <1>3, <1>9, <1>10, GoodSame
<1> QED BY <1>1, <1>2, <1>8, <1>9, <1>11, AnswerKeeps

LEMMA ReturnKeeps ==
  ASSUME EffectInv, Return
  PROVE  EffectInv'
<1> DEFINE f      == Last(stack)
           rest   == Front(stack)
           result == Taken(cells[f.id].def, turn.result)
           kind   == cells[f.id].def.kind
<1>1. /\ Giving /\ GraphOK(cells) /\ CachesOK(cells) /\ (accepted => SheetOK(cells))
      /\ cells' = Stored(cells, f, result) /\ Answer(rest, result)
  BY DEF Return, EffectInv, AtRest, Asking, Idle
<1>2. /\ StackOK(cells, answer, stack) /\ stack # << >>
      /\ Good(cells, accepted, answer, Trim(InnerOf(cells, f).id), InnerOf(cells, f).op,
              turn.result)
  BY <1>1 DEF Giving
<1>3. /\ StackOK(cells, answer, rest) /\ FrameOK(cells, answer, f)
      /\ Follows(cells, answer, rest, f.id, f.op)
  BY <1>2, StackShrinks
<1> HIDE DEF f, rest
<1>4. Good(cells, accepted, answer, f.id, f.op, result)
  BY <1>1, <1>2, <1>3, GoodTaken
<1>5. /\ f.id \in DOMAIN cells /\ IsContext(f.ctx) /\ f.ctx.row = answer.row
      /\ kind \in {"program", "router"}
  BY <1>3 DEF FrameOK, Delegates
<1> HIDE DEF result
<1>6. /\ GraphOK(cells') /\ CachesOK(cells') /\ SameDefs(cells, cells')
      /\ \A d \in DOMAIN cells : d # f.id => cells'[d] = cells[d]
  <2>1. RowOK(cells, answer, f.id, result) /\ kind \notin HeldKinds
    BY <1>4, <1>5 DEF Good, HeldKinds
  <2> QED BY <1>1, <1>5, <2>1, StoredKeeps
<1>7. Good(cells', accepted, answer, f.id, f.op, result)
  <2>1. SameQuestion(answer, answer)
    BY DEF SameQuestion
  <2>2. \A d \in DOMAIN cells :
          cells[d].def.kind \in {"value", "sensor", "io"} => DataOf(cells'[d]) = DataOf(cells[d])
    BY <1>5, <1>6
  <2> QED BY <2>1, <2>2, <1>4, <1>6, GoodSame
<1> QED BY <1>1, <1>3, <1>6, <1>7, AnswerKeeps

LEMMA EffectStep ==
  ASSUME EffectInv, [Next]_effectVars
  PROVE  EffectInv'
<1>1. CASE Tool
  <2>1. \A row : IsContext(BuildContext(row))
    BY DEF BuildContext, Context, IsContext
  <2> QED BY <1>1, <2>1, GetKeeps, CallKeeps, SetKeeps, PushKeeps, LoadKeeps
       DEF Tool, CellGet, CellCall, CellSet, CellPush, RegisterCell
<1>2. CASE Embedder
  BY <1>2, LoadKeeps, RegisterKeeps, FireKeeps DEF Embedder
<1>3. CASE InFlight
  BY <1>3, RefuseKeeps, ServeKeeps, DelegateKeeps, EvaluateKeeps, ReturnKeeps DEF InFlight
<1>4. CASE UNCHANGED effectVars
  BY <1>4 DEF effectVars, EffectInv, AtRest, Asking, Giving
<1> QED BY <1>1, <1>2, <1>3, <1>4 DEF Next

\* What is cached is good for whoever finds it, and every request in flight
\* asks what one of the caller's delegations asks.
THEOREM EffectfulInductive == Spec => []EffectInv
<1>1. EffectInit => EffectInv
  BY Initially
<1>2. EffectInv /\ [Next]_effectVars => EffectInv'
  BY EffectStep
<1> QED BY <1>1, <1>2, PTL DEF Spec

-----------------------------------------------------------------------------
\* What an answer says, once it is the caller's.
LEMMA AnsweredIsGood ==
  ASSUME EffectInv, Answered
  PROVE  Good(cells, accepted, answer, answer.id, answer.op, answer.result)
BY DEF EffectInv, Answered, AtRest, Asking, Giving, Idle

\* On a sheet the parser accepted, no get or call ends at a cell or a field
\* that is missing, and one that never ends is of a cell whose delegations go
\* round: for every sheet, however the requests nest.
THEOREM AcceptedSheetsAlwaysAnswer == Spec => []AcceptedSheetsAnswer
<1>1. EffectInv => AcceptedSheetsAnswer
  <2> SUFFICES ASSUME EffectInv, accepted, Answered, Trimmed(cells)
               PROVE  /\ answer.result.error \in {"none", "diverges"}
                      /\ answer.result.value.error \notin {"no code", "no endpoint"}
                      /\ answer.result = Diverges => ReachesCycle(cells, answer.id)
    BY DEF AcceptedSheetsAnswer, Trimmed
  <2>1. FieldOK(cells, accepted, answer.id, answer.result) /\ answer.id \in DOMAIN cells
        /\ CycleOK(cells, answer, answer.result)
    BY AnsweredIsGood DEF Good, Answered
  <2> QED BY <2>1 DEF FieldOK, CycleOK
<1> QED BY <1>1, EffectfulInductive, PTL

\* The answer of a cell that tells its caller's row tells this caller's, with
\* any caches, of any number of rows, routes and scripts.
THEOREM OwnRowAlwaysAnswers == Spec => []OwnRowAnswers
<1>1. EffectInv => OwnRowAnswers
  <2> SUFFICES ASSUME EffectInv, Answered, answer.row # Absent, answer.result.ok,
                      answer.id \in TellRow(cells) \cup PassOnRow(cells)
               PROVE  answer.result.value.data \in {answer.row, Null}
    BY DEF OwnRowAnswers
  <2>1. RowOK(cells, answer, answer.id, answer.result)
    BY AnsweredIsGood DEF Good
  <2>2. PassOnRow(cells) \subseteq MayPassOnRow(cells)
    BY DEF PassOnRow, MayPassOnRow
  <2> QED BY <2>1, <2>2 DEF RowOK
<1> QED BY <1>1, EffectfulInductive, PTL

\* A get of a program that reads another cell's data, itself or through a
\* program it asks, answers with the data the cell holds at that moment.
THEOREM GetAlwaysReadsThrough == Spec => []GetReadsThrough
<1>1. EffectInv => GetReadsThrough
  <2> SUFFICES ASSUME EffectInv, Answered, answer.op = "get", answer.result.ok,
                      NEW p \in ReadDirectly(cells) \cup ReadThrough(cells), p[1] = answer.id
               PROVE  answer.result.value.data = DataOf(cells[p[2]])
    BY DEF GetReadsThrough
  <2>1. ReadOK(cells, answer.id, answer.op, answer.result)
    BY AnsweredIsGood DEF Good
  <2>2. answer.id \in Askable(cells)
    BY DEF ReadDirectly, ReadThrough
  <2> QED BY <2>1, <2>2 DEF ReadOK
<1> QED BY <1>1, EffectfulInductive, PTL

\* A failure of the server is never an answer to a caller whose own request the
\* server would have answered: no cache keeps it.
THEOREM FailuresAreAlwaysRetried == Spec => []FailuresAreRetried
<1>1. EffectInv => FailuresAreRetried
  BY AnsweredIsGood DEF FailuresAreRetried, Good, RetryOK
<1> QED BY <1>1, EffectfulInductive, PTL
=============================================================================
