---------------------------- MODULE EngineProofs ----------------------------
(***************************************************************************)
(* Theorems about Engine, for every sheet, any number of threads and any   *)
(* number of operations.                                                   *)
(***************************************************************************)
EXTENDS Engine, Lemmas, FiniteSetTheorems

\* Cells that set or push may write.
Writable(c) == c \in Settable \/ Kind[c] \in {"sensor", "io"}

\* The callers the theorems are about: nobody replaces the sheet or registers
\* a cell while threads run, nobody calls a cell that is written, only got, and
\* what is set is neither a formula nor a value that depends on another cell.
\* Each of these can be dropped only at the price of a lost write or event.
Calm ==
  /\ Loader = {}
  /\ \A c \in Callable : ~ Writable(c)
  /\ \A c \in Settable :
       /\ Kind[c] # "formula"
       /\ Kind[c] = "value" => Declared[c] \cup (Mentioned[c] \ {c}) = {}

\* A dependent that propagate may mark stale without losing a write.
Spared(d) == Kind[d] \in {"formula", "value"} => ~ Writable(d)

-----------------------------------------------------------------------------
(***************************************************************************)
(* Frames and stacks.                                                      *)
(***************************************************************************)

\* Being a sequence, whatever of.
Sequence(s) == s \in Seq(ToSet(s))

FrameShape(f) ==
  f = [at |-> f.at, cell |-> f.cell, ctx |-> f.ctx, near |-> f.near,
       todo |-> f.todo, seen |-> f.seen, data |-> f.data]

\* What a call in progress has to do with what has been written so far: who
\* waits to store has no written cell, who is to be told of was written, and
\* what is about to be sent was written.
FrameOK(f, w) ==
  /\ f.at \in {"collect", "deps", "evaluate"} => f.cell \in Formulas
  /\ f.at \in {"await", "store"} => ~ Writable(f.cell)
  /\ f.at = "push" =>
       Kind[f.cell] \in {"sensor", "io"} /\ f.data = ReadyValue(f.data.data)
  /\ f.at = "notify" => \E i \in 1..Len(w) : w[i].cell = f.cell
  /\ f.at = "send" =>
       \E i \in 1..Len(w) : w[i] = [cell |-> f.cell, data |-> f.data.data]
  /\ f.at = "mark" => \A d \in f.todo : Spared(d)

\* A writer that has not told yet is in no other call.
Alone == {"push", "notify", "send"}

GoodFrame(f, w) == FrameShape(f) /\ FrameOK(f, w)

Tame(s, w) ==
  /\ Sequence(s)
  /\ \A i \in 1..Len(s) : GoodFrame(s[i], w)
  /\ \A i \in 1..Len(s) : s[i].at \in Alone => Len(s) = 1

\* A thread between its write and the event of it.
Noisy(s) == s # << >> /\ s[1].at \in {"notify", "send"}

\* What a sequence is made of when its head is taken off,
LEMMA TailFacts ==
  ASSUME NEW s, s \in Seq(ToSet(s)), s # << >>
  PROVE  /\ Len(s) \in Nat /\ Len(s) >= 1
         /\ Sequence(Tail(s)) /\ Len(Tail(s)) = Len(s) - 1
         /\ \A i \in 1..(Len(s) - 1) : Tail(s)[i] = s[i + 1]
<1> DEFINE T == ToSet(s)
<1>1. s \in Seq(T)
  OBVIOUS
<1> HIDE DEF T
<1>2. /\ Len(s) \in Nat /\ Len(s) >= 1
      /\ Tail(s) \in Seq(T) /\ Len(Tail(s)) = Len(s) - 1
      /\ \A i \in 1..(Len(s) - 1) : Tail(s)[i] = s[i + 1]
  BY <1>1
<1> QED BY <1>2, SeqOfOwn DEF Sequence

\* and when an element is put in front of it.
LEMMA ConsFacts ==
  ASSUME NEW s, s \in Seq(ToSet(s)), NEW f
  PROVE  /\ Len(s) \in Nat
         /\ Sequence(<< f >> \o s) /\ Len(<< f >> \o s) = Len(s) + 1
         /\ (<< f >> \o s)[1] = f
         /\ \A i \in 2..(Len(s) + 1) : (<< f >> \o s)[i] = s[i - 1]
<1> DEFINE T == ToSet(s) \cup {f}
           r == << f >> \o s
<1>1. s \in Seq(T) /\ f \in T
  <2>1. ToSet(s) \subseteq T /\ s \in Seq(ToSet(s))
    OBVIOUS
  <2> QED BY <2>1
<1> HIDE DEF T
<1>2. Len(s) \in Nat /\ r \in Seq(T) /\ Len(r) = Len(s) + 1 /\ r[1] = f
  BY <1>1
<1>3. ASSUME NEW i \in 2..(Len(s) + 1) PROVE r[i] = s[i - 1]
  <2>1. i - 1 \in 1..Len(s)
    BY <1>2
  <2> QED BY <1>1, <1>2, <2>1
<1> HIDE DEF r
<1>4. Sequence(r)
  BY <1>2, SeqOfOwn DEF Sequence
<1> QED BY <1>2, <1>3, <1>4 DEF r

\* Two elements in front are one in front of one.
LEMMA ConsTwo ==
  ASSUME NEW s, s \in Seq(ToSet(s)), NEW f, NEW g
  PROVE  << g, f >> \o s = << g >> \o (<< f >> \o s)
<1> DEFINE T == ToSet(s) \cup {f, g}
<1>1. s \in Seq(T) /\ f \in T /\ g \in T
  <2>1. ToSet(s) \subseteq T /\ s \in Seq(ToSet(s))
    OBVIOUS
  <2> QED BY <2>1
<1> HIDE DEF T
<1> DEFINE a == << g, f >> \o s
           b == << f >> \o s
           c == << g >> \o b
<1>2. /\ Len(s) \in Nat /\ a \in Seq(T) /\ Len(a) = Len(s) + 2
      /\ a[1] = g /\ a[2] = f /\ b \in Seq(T) /\ Len(b) = Len(s) + 1 /\ b[1] = f
  BY <1>1
<1>3. \A i \in 1..Len(s) : a[i + 2] = s[i] /\ b[i + 1] = s[i]
  BY <1>1, <1>2
<1> HIDE DEF a, b
<1>4. c \in Seq(T) /\ Len(c) = Len(s) + 2 /\ c[1] = g
  BY <1>1, <1>2
<1>5. \A i \in 1..Len(b) : c[i + 1] = b[i]
  BY <1>1, <1>2
<1> HIDE DEF c
<1>6. ASSUME NEW i \in 1..Len(a) PROVE a[i] = c[i]
  <2>1. CASE i = 1
    BY <1>2, <1>4, <2>1
  <2>2. CASE i = 2
    <3>1. 1 \in 1..Len(b) /\ 1 + 1 = 2
      BY <1>2
    <3>2. c[1 + 1] = b[1]
      BY <1>5, <3>1
    <3> QED BY <1>2, <3>1, <3>2, <2>2
  <2>3. CASE i # 1 /\ i # 2
    <3>1. /\ i - 2 \in 1..Len(s) /\ i - 1 \in 1..Len(b)
          /\ (i - 2) + 2 = i /\ (i - 1) + 1 = i /\ (i - 2) + 1 = i - 1
      BY <1>2, <2>3
    <3>2. a[i] = s[i - 2] /\ b[i - 1] = s[i - 2]
      BY <1>3, <3>1
    <3>3. c[i] = b[i - 1]
      BY <1>5, <3>1
    <3> QED BY <3>2, <3>3
  <2> QED BY <2>1, <2>2, <2>3
<1>7. a \in Seq(ToSet(a)) /\ c \in Seq(ToSet(c)) /\ Len(a) = Len(c)
  BY <1>2, <1>4, SeqOfOwn
<1> QED BY <1>6, <1>7, SameSeq DEF a, b, c

\* Another call begins, with none in progress that could object.
LEMMA TameCons ==
  ASSUME NEW s, NEW w, Tame(s, w), NEW f, GoodFrame(f, w),
         f.at \in Alone => s = << >>,
         \A i \in 1..Len(s) : s[i].at \notin Alone
  PROVE  Tame(<< f >> \o s, w) /\ (<< f >> \o s)[1] = f /\ (<< f >> \o s) # << >>
<1> DEFINE r == << f >> \o s
<1>0. s \in Seq(ToSet(s))
  BY DEF Tame, Sequence
<1>1. /\ Len(s) \in Nat /\ Sequence(r) /\ Len(r) = Len(s) + 1 /\ r[1] = f
      /\ \A i \in 2..(Len(s) + 1) : r[i] = s[i - 1]
  BY <1>0, ConsFacts
<1>2. s = << >> => Len(s) = 0
  OBVIOUS
<1> HIDE DEF r
<1>3. ASSUME NEW i \in 1..Len(r)
      PROVE  GoodFrame(r[i], w) /\ (r[i].at \in Alone => Len(r) = 1)
  <2>1. CASE i = 1
    BY <1>1, <1>2, <2>1
  <2>2. CASE i # 1
    <3>1. i \in 2..(Len(s) + 1) /\ i - 1 \in 1..Len(s)
      BY <1>1, <2>2
    <3> QED BY <1>1, <3>1 DEF Tame
  <2> QED BY <2>1, <2>2
<1>4. r # << >>
  BY <1>1
<1> QED BY <1>1, <1>3, <1>4 DEF Tame, r

\* The innermost call returns, or another call begins inside it.
LEMMA TameTail ==
  ASSUME NEW s, NEW w, Tame(s, w), s # << >>
  PROVE  /\ Tame(Tail(s), w)
         /\ \A i \in 1..Len(Tail(s)) : Tail(s)[i].at \notin Alone
         /\ ~ Noisy(Tail(s))
<1> DEFINE r == Tail(s)
<1>0. s \in Seq(ToSet(s))
  BY DEF Tame, Sequence
<1>1. /\ Len(s) \in Nat /\ Len(s) >= 1 /\ Sequence(r) /\ Len(r) = Len(s) - 1
      /\ \A i \in 1..(Len(s) - 1) : r[i] = s[i + 1]
  BY <1>0, TailFacts
<1> HIDE DEF r
<1>2. ASSUME NEW i \in 1..Len(r)
      PROVE  GoodFrame(r[i], w) /\ r[i].at \notin Alone
  <2>1. i + 1 \in 1..Len(s) /\ r[i] = s[i + 1] /\ Len(s) # 1
    BY <1>1
  <2> QED BY <2>1 DEF Tame
<1>3. ~ Noisy(r)
  <2> SUFFICES ASSUME r # << >> PROVE r[1].at \notin Alone
    BY DEF Noisy, Alone
  <2>1. 1 \in 1..Len(r)
    BY <1>1 DEF Sequence
  <2> QED BY <1>2, <2>1
<1> QED BY <1>1, <1>2, <1>3 DEF Tame, r

\* The innermost call goes on.
LEMMA TameGoto ==
  ASSUME NEW s, NEW w, Tame(s, w), s # << >>, NEW f, GoodFrame(f, w),
         f.at \in Alone => s[1].at \in Alone
  PROVE  /\ Tame(<< f >> \o Tail(s), w)
         /\ Noisy(<< f >> \o Tail(s)) <=> f.at \in {"notify", "send"}
<1> DEFINE p == Tail(s)
<1>1. Tame(p, w) /\ \A i \in 1..Len(p) : p[i].at \notin Alone
  BY TameTail
<1>2. f.at \in Alone => p = << >>
  <2>1. s \in Seq(ToSet(s))
    BY DEF Tame, Sequence
  <2>2. /\ Len(s) \in Nat /\ Len(s) >= 1 /\ Sequence(p) /\ Len(p) = Len(s) - 1
    BY <2>1, TailFacts
  <2>3. f.at \in Alone => Len(s) = 1
    <3>1. 1 \in 1..Len(s)
      BY <2>2
    <3> QED BY <3>1 DEF Tame
  <2> HIDE DEF p
  <2> QED BY <2>2, <2>3 DEF Sequence
<1> HIDE DEF p
<1>3. Tame(<< f >> \o p, w) /\ (<< f >> \o p)[1] = f /\ (<< f >> \o p) # << >>
  BY <1>1, <1>2, TameCons
<1> QED BY <1>3 DEF Noisy, p

\* The innermost call waits while another one begins.
LEMMA TamePush ==
  ASSUME NEW s, NEW w, Tame(s, w), s # << >>, NEW f, GoodFrame(f, w),
         NEW g, GoodFrame(g, w), f.at \notin Alone, g.at \notin Alone
  PROVE  Tame(<< g, f >> \o Tail(s), w) /\ ~ Noisy(<< g, f >> \o Tail(s))
<1> DEFINE p == Tail(s)
           q == << f >> \o p
<1>1. Tame(p, w) /\ \A i \in 1..Len(p) : p[i].at \notin Alone
  BY TameTail
<1>2. p \in Seq(ToSet(p))
  BY <1>1 DEF Tame, Sequence
<1> HIDE DEF p
<1>3. Tame(q, w)
  BY <1>1, TameCons
<1>4. \A i \in 1..Len(q) : q[i].at \notin Alone
  <2>1. /\ Len(p) \in Nat /\ Len(q) = Len(p) + 1 /\ q[1] = f
        /\ \A i \in 2..(Len(p) + 1) : q[i] = p[i - 1]
    BY <1>2, ConsFacts
  <2> HIDE DEF q
  <2>2. ASSUME NEW i \in 1..Len(q), i # 1 PROVE q[i].at \notin Alone
    <3>1. i - 1 \in 1..Len(p) /\ i \in 2..(Len(p) + 1)
      BY <2>1, <2>2
    <3> QED BY <1>1, <2>1, <3>1
  <2> QED BY <2>1, <2>2
<1>5. << g, f >> \o p = << g >> \o q
  BY <1>2, ConsTwo
<1> HIDE DEF q
<1>6. Tame(<< g >> \o q, w) /\ (<< g >> \o q)[1] = g /\ (<< g >> \o q) # << >>
  BY <1>3, <1>4, TameCons
<1>7. ~ Noisy(<< g >> \o q)
  BY <1>6 DEF Noisy, Alone
<1> QED BY <1>5, <1>6, <1>7 DEF p

\* A thread that was idle is in one call, or in one within another.
LEMMA TameOne ==
  ASSUME NEW w, NEW f, GoodFrame(f, w)
  PROVE  Tame(<< f >> \o << >>, w) /\ (<< f >> \o << >>) = << f >>
<1>1. << f >> \o << >> = << f >>
  OBVIOUS
<1>2. << f >> \in Seq({f}) /\ Len(<< f >>) = 1 /\ << f >>[1] = f
  OBVIOUS
<1> DEFINE r == << f >>
<1> HIDE DEF r
<1>3. Sequence(r)
  BY <1>2, SeqOfOwn DEF Sequence, r
<1>4. Tame(r, w)
  BY <1>2, <1>3 DEF Tame, r
<1> QED BY <1>1, <1>4 DEF r

LEMMA TameTwo ==
  ASSUME NEW w, NEW f, GoodFrame(f, w), NEW g, GoodFrame(g, w),
         f.at \notin Alone, g.at \notin Alone
  PROVE  Tame(<< f, g >>, w) /\ ~ Noisy(<< f, g >>)
<1> DEFINE r == << f, g >>
<1>1. r \in Seq({f, g}) /\ Len(r) = 2 /\ r[1] = f /\ r[2] = g
  OBVIOUS
<1> HIDE DEF r
<1>2. Sequence(r)
  BY <1>1, SeqOfOwn DEF Sequence
<1>3. \A i \in 1..Len(r) : GoodFrame(r[i], w) /\ r[i].at \notin Alone
  BY <1>1
<1>4. Tame(r, w)
  BY <1>2, <1>3 DEF Tame
<1>5. ~ Noisy(r)
  BY <1>1 DEF Noisy, Alone
<1> QED BY <1>4, <1>5 DEF r

\* What is written later takes nothing back.
LEMMA TameMore ==
  ASSUME NEW w, Sequence(w), NEW e, NEW s, Tame(s, w)
  PROVE  Tame(s, Append(w, e))
<1>1. /\ Len(Append(w, e)) = Len(w) + 1 /\ Len(w) \in Nat
      /\ \A i \in 1..Len(w) : Append(w, e)[i] = w[i]
  BY AppendFacts DEF Sequence
<1> DEFINE v == Append(w, e)
<1> HIDE DEF v
<1>2. \A i \in 1..Len(w) : i \in 1..Len(v) /\ v[i] = w[i]
  BY <1>1 DEF v
<1>3. \A f : GoodFrame(f, w) => GoodFrame(f, v)
  <2> SUFFICES ASSUME NEW f, GoodFrame(f, w) PROVE FrameOK(f, v)
    BY DEF GoodFrame
  <2>1. f.at = "notify" => \E i \in 1..Len(v) : v[i].cell = f.cell
    BY <1>2 DEF GoodFrame, FrameOK
  <2>2. f.at = "send" =>
          \E i \in 1..Len(v) : v[i] = [cell |-> f.cell, data |-> f.data.data]
    <3> DEFINE ev == [cell |-> f.cell, data |-> f.data.data]
    <3>1. f.at = "send" => \E i \in 1..Len(w) : w[i] = ev
      BY DEF GoodFrame, FrameOK
    <3> HIDE DEF ev
    <3>2. f.at = "send" => \E i \in 1..Len(v) : v[i] = ev
      BY <1>2, <3>1
    <3> QED BY <3>2 DEF ev
  <2> QED BY <2>1, <2>2 DEF GoodFrame, FrameOK
<1> QED BY <1>3 DEF Tame, v

-----------------------------------------------------------------------------
(***************************************************************************)
(* The inductive invariant.                                                *)
(***************************************************************************)

CellShape(cell) ==
  cell = [value |-> cell.value, cache |-> cell.cache, deps |-> cell.deps,
          dependents |-> cell.dependents]

GraphOK(g) ==
  /\ g = [c \in DOMAIN g |-> g[c]]
  /\ DOMAIN g \subseteq Cell
  /\ \A c \in DOMAIN g : CellShape(g[c]) /\ \A d \in g[c].dependents : Spared(d)

StackOK(s, w) == s = [t \in Thread |-> s[t]] /\ \A t \in Thread : Tame(s[t], w)

Event(e) == e = [cell |-> e.cell, data |-> e.data]

HistoryOK(w, g) ==
  /\ Sequence(w)
  /\ \A i \in 1..Len(w) : Event(w[i]) /\ Writable(w[i].cell) /\ w[i].cell \in DOMAIN g

\* A cell has the value of the last write of it.
Settled(w, g) ==
  \A i \in 1..Len(w) :
    (\A j \in 1..Len(w) : w[j].cell = w[i].cell => j <= i) =>
      g[w[i].cell].value = ReadyValue(w[i].data)

\* The threads that have an event still to send.
Late(s) == {t \in Thread : Noisy(s[t])}

\* A wildcard subscriber has been sent every write but those of late threads.
Counted(ch, w, s) ==
  /\ ch = [b \in Subscriber |-> ch[b]]
  /\ IsFiniteSet(Late(s))
  /\ \A b \in Subscriber : b.all =>
       /\ Sequence(ch[b])
       /\ Len(ch[b]) + Cardinality(Late(s)) = Len(w)
       /\ \A i \in 1..Len(ch[b]) : ch[b][i] \in ToSet(w)

EngInv ==
  /\ GraphOK(cells)
  /\ StackOK(stack, written)
  /\ HistoryOK(written, cells)
  /\ Settled(written, cells)
  /\ Counted(channel, written, stack)

-----------------------------------------------------------------------------
(***************************************************************************)
(* Effects of steps on the invariant.                                      *)
(***************************************************************************)

\* Thread t has the calls k now, the other threads what they had.
StackStep(t, k) == stack' = [u \in Thread |-> IF u = t THEN k ELSE stack[u]]

\* Cell c is m now, the other cells are what they were.
CellStep(c, m) == cells' = [e \in DOMAIN cells |-> IF e = c THEN m ELSE cells[e]]

\* What a step may make of cell c without a write.
Kept(c, m) ==
  /\ CellShape(m) /\ m.dependents = cells[c].dependents
  /\ Writable(c) => m.value = cells[c].value

LEMMA StackStepIs ==
  ASSUME StackOK(stack, written), NEW t \in Thread, NEW k,
         stack' = [stack EXCEPT ![t] = k]
  PROVE  StackStep(t, k)
<1>1. stack = [u \in Thread |-> stack[u]]
  BY DEF StackOK
<1> QED BY <1>1 DEF StackStep

LEMMA StackStepOK ==
  ASSUME NEW w, StackOK(stack, written), NEW t \in Thread, NEW k, StackStep(t, k),
         Tame(k, w), \A u \in Thread : Tame(stack[u], w)
  PROVE  StackOK(stack', w)
BY DEF StackStep, StackOK

LEMMA CellStepOK ==
  ASSUME GraphOK(cells), NEW c \in DOMAIN cells, NEW m, CellStep(c, m),
         CellShape(m), m.dependents = cells[c].dependents
  PROVE  GraphOK(cells') /\ DOMAIN cells' = DOMAIN cells
<1>1. /\ DOMAIN cells' = DOMAIN cells
      /\ cells' = [e \in DOMAIN cells' |-> cells'[e]]
      /\ \A e \in DOMAIN cells' : cells'[e] = IF e = c THEN m ELSE cells[e]
  BY DEF CellStep
<1>2. ASSUME NEW e \in DOMAIN cells'
      PROVE  CellShape(cells'[e]) /\ \A d \in cells'[e].dependents : Spared(d)
  BY <1>1, <1>2 DEF GraphOK
<1> QED BY <1>1, <1>2 DEF GraphOK

\* A step that neither writes nor sends.
LEMMA QuietStep ==
  ASSUME EngInv, NEW t \in Thread, NEW k, StackStep(t, k), Tame(k, written),
         Noisy(k) <=> Noisy(stack[t]),
         written' = written, channel' = channel,
         GraphOK(cells'), DOMAIN cells' = DOMAIN cells,
         \A c \in DOMAIN cells : Writable(c) => cells'[c].value = cells[c].value
  PROVE  EngInv'
<1>1. StackOK(stack', written)
  BY StackStepOK DEF EngInv, StackOK
<1>2. HistoryOK(written, cells')
  BY DEF EngInv, HistoryOK
<1>3. Settled(written, cells')
  <2> SUFFICES ASSUME NEW i \in 1..Len(written),
                      \A j \in 1..Len(written) : written[j].cell = written[i].cell => j <= i
               PROVE  cells'[written[i].cell].value = ReadyValue(written[i].data)
    BY DEF Settled
  <2>1. cells[written[i].cell].value = ReadyValue(written[i].data)
    BY DEF EngInv, Settled
  <2>2. written[i].cell \in DOMAIN cells /\ Writable(written[i].cell)
    BY DEF EngInv, HistoryOK
  <2> QED BY <2>1, <2>2
<1>4. Late(stack') = Late(stack)
  BY DEF Late, StackStep
<1>5. Counted(channel, written, stack')
  BY <1>4 DEF EngInv, Counted
<1> QED BY <1>1, <1>2, <1>3, <1>5 DEF EngInv

LEMMA QuietFrame ==
  ASSUME EngInv, NEW t \in Thread, NEW k, StackStep(t, k), Tame(k, written),
         Noisy(k) <=> Noisy(stack[t]),
         written' = written, channel' = channel, cells' = cells
  PROVE  EngInv'
<1>1. GraphOK(cells') /\ DOMAIN cells' = DOMAIN cells
  BY DEF EngInv
<1>2. \A c \in DOMAIN cells : Writable(c) => cells'[c].value = cells[c].value
  OBVIOUS
<1> QED BY <1>1, <1>2, QuietStep

LEMMA QuietCell ==
  ASSUME EngInv, NEW t \in Thread, NEW k, StackStep(t, k), Tame(k, written),
         Noisy(k) <=> Noisy(stack[t]),
         written' = written, channel' = channel,
         NEW c \in DOMAIN cells, NEW m, CellStep(c, m), Kept(c, m)
  PROVE  EngInv'
<1>1. GraphOK(cells') /\ DOMAIN cells' = DOMAIN cells
  BY CellStepOK DEF EngInv, Kept
<1>2. \A e \in DOMAIN cells : Writable(e) => cells'[e].value = cells[e].value
  BY DEF CellStep, Kept
<1> QED BY <1>1, <1>2, QuietStep

\* A write: its thread is late from then on.
LEMMA WriteStep ==
  ASSUME EngInv, NEW t \in Thread, NEW k, StackStep(t, k), ~ Noisy(stack[t]), Noisy(k),
         NEW e, Event(e), Writable(e.cell), e.cell \in DOMAIN cells,
         written' = Append(written, e), Tame(k, written'), channel' = channel,
         NEW m, CellStep(e.cell, m), CellShape(m),
         m.dependents = cells[e.cell].dependents, m.value = ReadyValue(e.data)
  PROVE  EngInv'
<1> DEFINE w == Append(written, e)
           n == Len(written)
<1>1. GraphOK(cells') /\ DOMAIN cells' = DOMAIN cells
  BY CellStepOK DEF EngInv
<1>2. /\ Sequence(w) /\ Len(w) = n + 1 /\ n \in Nat /\ w[n + 1] = e
      /\ \A i \in 1..n : w[i] = written[i]
  BY AppendFacts DEF EngInv, HistoryOK, Sequence
<1>3. StackOK(stack', w)
  <2>1. \A u \in Thread : Tame(stack[u], w)
    BY TameMore DEF EngInv, HistoryOK, StackOK
  <2> QED BY <2>1, StackStepOK DEF EngInv
<1> HIDE DEF w, n
<1>4. HistoryOK(w, cells')
  <2>1. ASSUME NEW i \in 1..Len(w)
        PROVE  Event(w[i]) /\ Writable(w[i].cell) /\ w[i].cell \in DOMAIN cells
    <3>1. i = n + 1 \/ i \in 1..n
      BY <1>2
    <3> QED BY <1>2, <3>1 DEF EngInv, HistoryOK, n
  <2> QED BY <1>1, <1>2, <2>1 DEF HistoryOK
<1>5. Settled(w, cells')
  <2> SUFFICES ASSUME NEW i \in 1..Len(w),
                      \A j \in 1..Len(w) : w[j].cell = w[i].cell => j <= i
               PROVE  cells'[w[i].cell].value = ReadyValue(w[i].data)
    BY DEF Settled
  <2>1. CASE i = n + 1
    BY <1>2, <2>1 DEF CellStep
  <2>2. CASE i # n + 1
    <3>1. i \in 1..n /\ n + 1 \in 1..Len(w) /\ ~ (n + 1 <= i)
      BY <1>2, <2>2
    <3>2. w[i] = written[i] /\ w[i].cell # e.cell
      BY <1>2, <3>1
    <3>3. \A j \in 1..n : j \in 1..Len(w) /\ w[j] = written[j]
      BY <1>2
    <3>4. \A j \in 1..n : written[j].cell = written[i].cell => j <= i
      BY <3>2, <3>3
    <3>5. cells[written[i].cell].value = ReadyValue(written[i].data)
      BY <3>1, <3>4 DEF EngInv, Settled, n
    <3>6. written[i].cell \in DOMAIN cells
      BY <3>1 DEF EngInv, HistoryOK, n
    <3>7. cells'[written[i].cell] = cells[written[i].cell]
      BY <3>2, <3>6 DEF CellStep
    <3> QED BY <3>2, <3>5, <3>7
  <2> QED BY <2>1, <2>2
<1>6. Counted(channel, w, stack')
  <2>1. Late(stack') = Late(stack) \cup {t} /\ t \notin Late(stack)
    BY DEF Late, StackStep
  <2>2. IsFiniteSet(Late(stack)) /\ Cardinality(Late(stack)) \in Nat
    BY FS_CardinalityType DEF EngInv, Counted
  <2>3. /\ IsFiniteSet(Late(stack'))
        /\ Cardinality(Late(stack')) = Cardinality(Late(stack)) + 1
    BY <2>1, <2>2, FS_AddElement
  <2>4. ASSUME NEW b \in Subscriber, b.all
        PROVE  /\ Sequence(channel[b])
               /\ Len(channel[b]) + Cardinality(Late(stack')) = Len(w)
               /\ \A i \in 1..Len(channel[b]) : channel[b][i] \in ToSet(w)
    <3>1. /\ Sequence(channel[b])
          /\ Len(channel[b]) + Cardinality(Late(stack)) = n
          /\ \A i \in 1..Len(channel[b]) : channel[b][i] \in ToSet(written)
      BY <2>4 DEF EngInv, Counted, n
    <3>2. Len(channel[b]) \in Nat
      BY <3>1 DEF Sequence
    <3>3. ToSet(written) \subseteq ToSet(w)
      BY <1>2 DEF ToSet, n, EngInv, HistoryOK, Sequence
    <3> QED BY <1>2, <2>2, <2>3, <3>1, <3>2, <3>3
  <2>5. channel = [b \in Subscriber |-> channel[b]]
    BY DEF EngInv, Counted
  <2> QED BY <2>3, <2>4, <2>5 DEF Counted
<1> QED BY <1>1, <1>3, <1>4, <1>5, <1>6 DEF EngInv, w

\* The event of a write: its thread is not late any more.
LEMMA SendStep ==
  ASSUME EngInv, NEW t \in Thread, NEW k, StackStep(t, k), Noisy(stack[t]), ~ Noisy(k),
         Tame(k, written), written' = written, cells' = cells,
         NEW e, e \in ToSet(written),
         channel' = [b \in Subscriber |-> IF b.all \/ Matches(b, e.cell)
                                          THEN Append(channel[b], e) ELSE channel[b]]
  PROVE  EngInv'
<1>1. StackOK(stack', written)
  BY StackStepOK DEF EngInv, StackOK
<1>2. Counted(channel', written, stack')
  <2>1. Late(stack) = Late(stack') \cup {t} /\ t \notin Late(stack')
    BY DEF Late, StackStep
  <2>2. IsFiniteSet(Late(stack)) /\ Late(stack') \subseteq Late(stack)
    BY <2>1 DEF EngInv, Counted
  <2>3. IsFiniteSet(Late(stack')) /\ Cardinality(Late(stack')) \in Nat
    BY <2>2, FS_Subset, FS_CardinalityType
  <2>4. Cardinality(Late(stack)) = Cardinality(Late(stack')) + 1
    BY <2>1, <2>3, FS_AddElement
  <2>5. ASSUME NEW b \in Subscriber, b.all
        PROVE  /\ Sequence(channel'[b])
               /\ Len(channel'[b]) + Cardinality(Late(stack')) = Len(written)
               /\ \A i \in 1..Len(channel'[b]) : channel'[b][i] \in ToSet(written)
    <3>1. /\ Sequence(channel[b])
          /\ Len(channel[b]) + Cardinality(Late(stack)) = Len(written)
          /\ \A i \in 1..Len(channel[b]) : channel[b][i] \in ToSet(written)
      BY <2>5 DEF EngInv, Counted
    <3>2. channel'[b] = Append(channel[b], e)
      BY <2>5
    <3> DEFINE p == channel[b]
               q == Append(channel[b], e)
    <3>3. /\ Sequence(q) /\ Len(q) = Len(p) + 1 /\ Len(p) \in Nat /\ q[Len(p) + 1] = e
          /\ \A i \in 1..Len(p) : q[i] = p[i]
      BY <3>1, AppendFacts DEF Sequence
    <3> HIDE DEF p, q
    <3>4. ASSUME NEW i \in 1..Len(q) PROVE q[i] \in ToSet(written)
      <4>1. i = Len(p) + 1 \/ i \in 1..Len(p)
        BY <3>3
      <4> QED BY <3>1, <3>3, <4>1 DEF p
    <3>5. Len(q) + Cardinality(Late(stack')) = Len(written)
      <4>1. Len(p) + Cardinality(Late(stack)) = Len(written)
        BY <3>1 DEF p
      <4> QED BY <2>3, <2>4, <3>3, <4>1
    <3> QED BY <3>2, <3>3, <3>4, <3>5 DEF q
  <2>6. channel' = [b \in Subscriber |-> channel'[b]]
    OBVIOUS
  <2> QED BY <2>3, <2>5, <2>6 DEF Counted
<1> QED BY <1>1, <1>2 DEF EngInv

-----------------------------------------------------------------------------
(***************************************************************************)
(* A call in progress that goes on is what it was but for some fields.     *)
(***************************************************************************)

Fields(f, at, c, x, near, todo, seen, data) ==
  /\ FrameShape(f) /\ f.at = at /\ f.cell = c /\ f.ctx = x /\ f.near = near
  /\ f.todo = todo /\ f.seen = seen /\ f.data = data

LEMMA NewFields ==
  ASSUME NEW at, NEW c, NEW x, NEW near, NEW data
  PROVE  Fields(Frame(at, c, x, near, data), at, c, x, near, near, << >>, data)
BY DEF Fields, Frame, FrameShape

LEMMA FieldsAt ==
  ASSUME NEW f, FrameShape(f), NEW v
  PROVE  Fields([f EXCEPT !.at = v], v, f.cell, f.ctx, f.near, f.todo, f.seen, f.data)
BY DEF Fields, FrameShape

LEMMA FieldsNear ==
  ASSUME NEW f, FrameShape(f), NEW v
  PROVE  Fields([f EXCEPT !.near = v], f.at, f.cell, f.ctx, v, f.todo, f.seen, f.data)
BY DEF Fields, FrameShape

LEMMA FieldsTodo ==
  ASSUME NEW f, FrameShape(f), NEW v
  PROVE  Fields([f EXCEPT !.todo = v], f.at, f.cell, f.ctx, f.near, v, f.seen, f.data)
BY DEF Fields, FrameShape

LEMMA FieldsSeen ==
  ASSUME NEW f, FrameShape(f), NEW v
  PROVE  Fields([f EXCEPT !.seen = v], f.at, f.cell, f.ctx, f.near, f.todo, v, f.data)
BY DEF Fields, FrameShape

LEMMA FieldsData ==
  ASSUME NEW f, FrameShape(f), NEW v
  PROVE  Fields([f EXCEPT !.data = v], f.at, f.cell, f.ctx, f.near, f.todo, f.seen, v)
BY DEF Fields, FrameShape

ButAtData(f, u, v) == [f EXCEPT !.at = u, !.data = v]

LEMMA FieldsAtData ==
  ASSUME NEW f, FrameShape(f), NEW u, NEW v
  PROVE  Fields(ButAtData(f, u, v), u, f.cell, f.ctx, f.near, f.todo, f.seen, v)
<1> DEFINE h == [f EXCEPT !.at = u]
           i == [h EXCEPT !.data = v]
<1>1. ButAtData(f, u, v) = i
  BY DEF ButAtData
<1>2. Fields(h, u, f.cell, f.ctx, f.near, f.todo, f.seen, f.data)
  BY FieldsAt
<1> HIDE DEF h
<1>3. Fields(i, h.at, h.cell, h.ctx, h.near, h.todo, h.seen, v)
  BY FieldsData, <1>2 DEF Fields
<1> HIDE DEF i
<1> QED BY <1>1, <1>2, <1>3 DEF Fields

ButAtSeen(f, u, v) == [f EXCEPT !.at = u, !.seen = v]

LEMMA FieldsAtSeen ==
  ASSUME NEW f, FrameShape(f), NEW u, NEW v
  PROVE  Fields(ButAtSeen(f, u, v), u, f.cell, f.ctx, f.near, f.todo, v, f.data)
<1> DEFINE h == [f EXCEPT !.at = u]
           i == [h EXCEPT !.seen = v]
<1>1. ButAtSeen(f, u, v) = i
  BY DEF ButAtSeen
<1>2. Fields(h, u, f.cell, f.ctx, f.near, f.todo, f.seen, f.data)
  BY FieldsAt
<1> HIDE DEF h
<1>3. Fields(i, h.at, h.cell, h.ctx, h.near, h.todo, v, h.data)
  BY FieldsSeen, <1>2 DEF Fields
<1> HIDE DEF i
<1> QED BY <1>1, <1>2, <1>3 DEF Fields

ButAtTodo(f, u, v) == [f EXCEPT !.at = u, !.todo = v]

LEMMA FieldsAtTodo ==
  ASSUME NEW f, FrameShape(f), NEW u, NEW v
  PROVE  Fields(ButAtTodo(f, u, v), u, f.cell, f.ctx, f.near, v, f.seen, f.data)
<1> DEFINE h == [f EXCEPT !.at = u]
           i == [h EXCEPT !.todo = v]
<1>1. ButAtTodo(f, u, v) = i
  BY DEF ButAtTodo
<1>2. Fields(h, u, f.cell, f.ctx, f.near, f.todo, f.seen, f.data)
  BY FieldsAt
<1> HIDE DEF h
<1>3. Fields(i, h.at, h.cell, h.ctx, h.near, v, h.seen, h.data)
  BY FieldsTodo, <1>2 DEF Fields
<1> HIDE DEF i
<1> QED BY <1>1, <1>2, <1>3 DEF Fields

ButAtNearTodo(f, u, v, w) == [f EXCEPT !.at = u, !.near = v, !.todo = w]

LEMMA FieldsAtNearTodo ==
  ASSUME NEW f, FrameShape(f), NEW u, NEW v, NEW w
  PROVE  Fields(ButAtNearTodo(f, u, v, w), u, f.cell, f.ctx, v, w, f.seen, f.data)
<1> DEFINE h == [f EXCEPT !.at = u]
           i == [h EXCEPT !.near = v]
           j == [i EXCEPT !.todo = w]
<1>1. ButAtNearTodo(f, u, v, w) = j
  BY DEF ButAtNearTodo
<1>2. Fields(h, u, f.cell, f.ctx, f.near, f.todo, f.seen, f.data)
  BY FieldsAt
<1> HIDE DEF h
<1>3. Fields(i, h.at, h.cell, h.ctx, v, h.todo, h.seen, h.data)
  BY FieldsNear, <1>2 DEF Fields
<1> HIDE DEF i
<1>4. Fields(j, i.at, i.cell, i.ctx, i.near, w, i.seen, i.data)
  BY FieldsTodo, <1>3 DEF Fields
<1> HIDE DEF j
<1> QED BY <1>1, <1>2, <1>3, <1>4 DEF Fields

ButJustTodo(f, u) == [f EXCEPT !.todo = u]

LEMMA FieldsJustTodo ==
  ASSUME NEW f, FrameShape(f), NEW u
  PROVE  Fields(ButJustTodo(f, u), f.at, f.cell, f.ctx, f.near, u, f.seen, f.data)
<1> DEFINE h == [f EXCEPT !.todo = u]
<1>1. ButJustTodo(f, u) = h
  BY DEF ButJustTodo
<1>2. Fields(h, f.at, f.cell, f.ctx, f.near, u, f.seen, f.data)
  BY FieldsTodo
<1> HIDE DEF h
<1> QED BY <1>1, <1>2 DEF Fields

\* As much of that as the proofs below need.
LEMMA WithJustTodo ==
  ASSUME NEW f, FrameShape(f), NEW u
  PROVE  LET g == ButJustTodo(f, u) IN
         FrameShape(g) /\ g.at = f.at /\ g.cell = f.cell /\ g.todo = u /\ g.data = f.data
BY FieldsJustTodo DEF Fields

LEMMA WithAtData ==
  ASSUME NEW f, FrameShape(f), NEW u, NEW v
  PROVE  LET g == ButAtData(f, u, v) IN
         FrameShape(g) /\ g.at = u /\ g.cell = f.cell /\ g.todo = f.todo /\ g.data = v
BY FieldsAtData DEF Fields

LEMMA WithAtSeen ==
  ASSUME NEW f, FrameShape(f), NEW u, NEW v
  PROVE  LET g == ButAtSeen(f, u, v) IN
         FrameShape(g) /\ g.at = u /\ g.cell = f.cell /\ g.todo = f.todo /\ g.data = f.data
BY FieldsAtSeen DEF Fields

LEMMA WithAtTodo ==
  ASSUME NEW f, FrameShape(f), NEW u, NEW v
  PROVE  LET g == ButAtTodo(f, u, v) IN
         FrameShape(g) /\ g.at = u /\ g.cell = f.cell /\ g.todo = v /\ g.data = f.data
BY FieldsAtTodo DEF Fields

LEMMA WithAtNearTodo ==
  ASSUME NEW f, FrameShape(f), NEW u, NEW v, NEW w
  PROVE  LET g == ButAtNearTodo(f, u, v, w) IN
         FrameShape(g) /\ g.at = u /\ g.cell = f.cell /\ g.todo = w /\ g.data = f.data
BY FieldsAtNearTodo DEF Fields

-----------------------------------------------------------------------------
(***************************************************************************)
(* One lemma per action.                                                   *)
(***************************************************************************)

LEMMA FrameFields ==
  ASSUME NEW at, NEW c, NEW x, NEW near, NEW data
  PROVE  LET f == Frame(at, c, x, near, data) IN
         /\ FrameShape(f) /\ f.at = at /\ f.cell = c /\ f.ctx = x
         /\ f.data = data /\ f.todo = near
BY NewFields DEF Fields

\* Idle threads have no event to send, and what enters is all there is.
LEMMA Entered ==
  ASSUME EngInv, NEW t \in Thread, Idle(t), NEW f, Enter(t, f)
  PROVE  /\ StackStep(t, << f >> \o << >>) /\ (<< f >> \o << >>) = << f >>
         /\ ~ Noisy(stack[t])
         /\ Noisy(<< f >>) <=> f.at \in {"notify", "send"}
<1>1. StackStep(t, << f >> \o stack[t])
  BY StackStepIs DEF Enter, EngInv
<1>2. stack[t] = << >>
  BY DEF Idle
<1>3. (<< f >> \o << >>) = << f >>
  OBVIOUS
<1>4. << f >> # << >> /\ << f >>[1] = f
  OBVIOUS
<1> QED BY <1>1, <1>2, <1>3, <1>4 DEF Noisy

LEMMA GetFrameGood ==
  ASSUME NEW c \in Cell, NEW x, NEW w
  PROVE  GoodFrame(GetFrame(c, x), w) /\ GetFrame(c, x).at \notin Alone
                                      /\ GetFrame(c, x).at \in {"collect", "read"}
<1> DEFINE f == GetFrame(c, x)
<1>1. /\ FrameShape(f) /\ f.cell = c
      /\ f.at = IF Kind[c] = "formula" THEN "collect" ELSE "read"
  BY FrameFields DEF GetFrame
<1> HIDE DEF f
<1>2. FrameOK(f, w)
  BY <1>1 DEF FrameOK, Formulas
<1> QED BY <1>1, <1>2 DEF GoodFrame, Alone, f

LEMMA GetBeginKeeps ==
  ASSUME EngInv, NEW t \in Thread, NEW c \in Cell, NEW x, GetBegin(t, c, x)
  PROVE  EngInv'
<1> DEFINE f == GetFrame(c, x)
<1>1. GoodFrame(f, written) /\ f.at \notin Alone
  BY GetFrameGood
<1> HIDE DEF f
<1>2. StackStep(t, << f >>) /\ ~ Noisy(stack[t]) /\ ~ Noisy(<< f >>)
  <2>1. Idle(t) /\ Enter(t, f)
    BY DEF GetBegin, Begin, f
  <2> QED BY <1>1, <2>1, Entered DEF Alone
<1>3. Tame(<< f >>, written)
  BY <1>1, TameOne
<1>4. written' = written /\ channel' = channel /\ cells' = cells
  BY DEF GetBegin
<1> QED BY <1>2, <1>3, <1>4, QuietFrame

LEMMA CallBeginKeeps ==
  ASSUME Calm, EngInv, NEW t \in Thread, NEW c \in Cell, c \in Callable, NEW x, CallBegin(t, c, x)
  PROVE  EngInv'
<1> DEFINE f == GetFrame(c, x)
           g == Frame("await", c, x, {}, NoData)
<1>1. GoodFrame(f, written) /\ f.at \notin Alone
  BY GetFrameGood
<1>2. GoodFrame(g, written) /\ g.at \notin Alone
  <2>1. FrameShape(g) /\ g.at = "await" /\ g.cell = c
    BY FrameFields
  <2> HIDE DEF g
  <2>2. ~ Writable(c)
    BY DEF Calm
  <2> QED BY <2>1, <2>2 DEF GoodFrame, FrameOK, Alone
<1> HIDE DEF f, g
<1>3. StackStep(t, << f, g >>) /\ ~ Noisy(stack[t])
  <2>1. stack' = [stack EXCEPT ![t] = << f, g >>] /\ stack[t] = << >>
    BY DEF CallBegin, Begin, Idle, f, g
  <2>2. StackStep(t, << f, g >>)
    BY <2>1, StackStepIs DEF EngInv
  <2> QED BY <2>1, <2>2 DEF Noisy
<1>4. Tame(<< f, g >>, written) /\ ~ Noisy(<< f, g >>)
  BY <1>1, <1>2, TameTwo
<1>5. written' = written /\ channel' = channel /\ cells' = cells
  BY DEF CallBegin
<1> QED BY <1>3, <1>4, <1>5, QuietFrame

LEMMA SameStack ==
  ASSUME EngInv, stack' = stack, cells' = cells, written' = written, channel' = channel
  PROVE  EngInv'
BY DEF EngInv, Counted, Late

\* The calls of a thread that is in one.
LEMMA TopFacts ==
  ASSUME EngInv, NEW t \in Thread, NEW at, At(t, at)
  PROVE  /\ Tame(stack[t], written) /\ stack[t] # << >>
         /\ GoodFrame(Top(t), written) /\ Top(t).at = at /\ Top(t) = stack[t][1]
         /\ Noisy(stack[t]) <=> at \in {"notify", "send"}
<1>1. Tame(stack[t], written) /\ stack[t] # << >> /\ Top(t).at = at /\ Top(t) = stack[t][1]
  BY DEF EngInv, StackOK, At, Idle, Top
<1>2. 1 \in 1..Len(stack[t])
  <2>1. stack[t] \in Seq(ToSet(stack[t]))
    BY <1>1 DEF Tame, Sequence
  <2> QED BY <1>1, <2>1, TailFacts
<1> QED BY <1>1, <1>2 DEF Tame, Noisy

\* The innermost call goes on as f.
LEMMA Going ==
  ASSUME EngInv, NEW t \in Thread, NEW at, At(t, at), NEW f, Goto(t, f)
  PROVE  StackStep(t, << f >> \o Tail(stack[t]))
BY StackStepIs DEF Goto, EngInv

LEMMA GoingQuietly ==
  ASSUME EngInv, NEW t \in Thread, NEW at, At(t, at), NEW f, Goto(t, f),
         GoodFrame(f, written), f.at \in Alone => at \in Alone,
         f.at \in {"notify", "send"} <=> at \in {"notify", "send"},
         written' = written, channel' = channel, cells' = cells
  PROVE  EngInv'
<1>1. /\ Tame(stack[t], written) /\ stack[t] # << >>
      /\ stack[t][1].at = at
      /\ Noisy(stack[t]) <=> at \in {"notify", "send"}
  BY TopFacts
<1> DEFINE k == << f >> \o Tail(stack[t])
<1>2. StackStep(t, k)
  BY Going
<1>3. Tame(k, written) /\ (Noisy(k) <=> f.at \in {"notify", "send"})
  BY <1>1, TameGoto
<1> HIDE DEF k
<1> QED BY <1>1, <1>2, <1>3, QuietFrame

\* The innermost call returns v.
LEMMA Returned ==
  ASSUME EngInv, NEW t \in Thread, NEW at, At(t, at), NEW v, Return(t, v)
  PROVE  \E k : StackStep(t, k) /\ Tame(k, written) /\ ~ Noisy(k)
<1> DEFINE rest == Tail(stack[t])
<1>1. /\ Tame(stack[t], written) /\ stack[t] # << >>
  BY TopFacts
<1>2. /\ Tame(rest, written) /\ ~ Noisy(rest)
      /\ \A i \in 1..Len(rest) : rest[i].at \notin Alone
  BY <1>1, TameTail
<1>3. CASE ~ (rest # << >> /\ rest[1].at = "await")
  <2>1. stack' = [stack EXCEPT ![t] = rest]
    BY <1>3 DEF Return
  <2>2. StackStep(t, rest)
    BY <2>1, StackStepIs DEF EngInv
  <2> QED BY <1>2, <2>2
<1>4. CASE rest # << >> /\ rest[1].at = "await"
  <2> DEFINE f == [rest[1] EXCEPT !.at = "store", !.data = v]
             k == << f >> \o Tail(rest)
  <2>1. stack' = [stack EXCEPT ![t] = k]
    BY <1>4 DEF Return
  <2>2. StackStep(t, k)
    BY <2>1, StackStepIs DEF EngInv
  <2>3. GoodFrame(rest[1], written)
    <3>1. rest \in Seq(ToSet(rest))
      BY <1>2 DEF Tame, Sequence
    <3> HIDE DEF rest
    <3>2. 1 \in 1..Len(rest)
      BY <1>4, <3>1, TailFacts
    <3> QED BY <1>2, <3>2 DEF Tame
  <2> HIDE DEF rest
  <2>4. FrameShape(f) /\ f.at = "store" /\ f.cell = rest[1].cell
    <3>1. FrameShape(rest[1])
      BY <2>3 DEF GoodFrame
    <3>2. f = ButAtData(rest[1], "store", v)
      BY DEF ButAtData
    <3> HIDE DEF f
    <3> QED BY <3>1, <3>2, WithAtData
  <2> HIDE DEF f
  <2>5. GoodFrame(f, written) /\ f.at \notin Alone
    BY <1>4, <2>3, <2>4 DEF GoodFrame, FrameOK, Alone
  <2>6. Tame(k, written) /\ (Noisy(k) <=> f.at \in {"notify", "send"})
    BY <1>2, <1>4, <2>5, TameGoto
  <2> QED BY <2>2, <2>4, <2>6
<1> QED BY <1>3, <1>4

\* Frames that promise nothing.
LEMMA PlainFrame ==
  ASSUME NEW f, NEW w, FrameShape(f), f.at \in {"read", "propagate", "recurse"}
  PROVE  GoodFrame(f, w) /\ f.at \notin Alone
BY DEF GoodFrame, FrameOK, Alone

\* A call that fails ends all the calls of its thread.
LEMMA Panicked ==
  ASSUME EngInv, NEW t \in Thread, ~ Noisy(stack[t]), Panic(t)
  PROVE  EngInv'
<1>1. StackStep(t, << >>)
  BY StackStepIs DEF Panic, EngInv
<1> DEFINE k == << >>
<1>2. k \in Seq({}) /\ Len(k) = 0 /\ ToSet(k) = {}
  BY DEF ToSet
<1>3. Tame(k, written) /\ ~ Noisy(k)
  BY <1>2 DEF Tame, Sequence, Noisy
<1>4. written' = written /\ channel' = channel /\ cells' = cells
  BY DEF Panic
<1> QED BY <1>1, <1>3, <1>4, QuietFrame

LEMMA ReadCellKeeps ==
  ASSUME EngInv, NEW t \in Thread, ReadCell(t)
  PROVE  EngInv'
<1>1. At(t, "read") /\ ~ Noisy(stack[t])
  BY TopFacts DEF ReadCell
<1>2. CASE Panic(t)
  BY <1>1, <1>2, Panicked
<1>3. CASE ~ Panic(t)
  <2>1. PICK v : Return(t, v)
    BY <1>3 DEF ReadCell
  <2>2. PICK k : StackStep(t, k) /\ Tame(k, written) /\ ~ Noisy(k)
    BY <1>1, <2>1, Returned
  <2>3. written' = written /\ channel' = channel /\ cells' = cells
    BY <1>3 DEF ReadCell
  <2> QED BY <1>1, <2>2, <2>3, QuietFrame
<1> QED BY <1>2, <1>3

LEMMA CollectKeeps ==
  ASSUME EngInv, NEW t \in Thread, Collect(t)
  PROVE  EngInv'
<1> DEFINE c == Top(t).cell
           ds == IF IsLoaded(c) THEN cells[c].deps ELSE {}
           f == [Top(t) EXCEPT !.at = "deps", !.near = ds, !.todo = ds \cap Formulas]
<1>1. At(t, "collect") /\ Goto(t, f)
  BY DEF Collect
<1>2. f = ButAtNearTodo(Top(t), "deps", ds, ds \cap Formulas)
  BY DEF ButAtNearTodo
<1>3. written' = written /\ channel' = channel /\ cells' = cells
  BY DEF Collect
<1>4. GoodFrame(Top(t), written) /\ Top(t).at = "collect"
  BY <1>1, TopFacts
<1> HIDE DEF f
<1>5. FrameShape(f) /\ f.at = "deps" /\ f.cell = Top(t).cell
  BY <1>2, <1>4, WithAtNearTodo DEF GoodFrame
<1>6. GoodFrame(f, written)
  BY <1>4, <1>5 DEF GoodFrame, FrameOK
<1>7. f.at \notin Alone /\ f.at \notin {"notify", "send"} /\ "collect" \notin {"notify", "send"}
  BY <1>5 DEF Alone
<1> QED BY <1>1, <1>3, <1>6, <1>7, GoingQuietly

LEMMA GetDependencyKeeps ==
  ASSUME EngInv, NEW t \in Thread, GetDependency(t)
  PROVE  EngInv'
<1>1. At(t, "deps")
  BY DEF GetDependency
<1>2. written' = written /\ channel' = channel /\ cells' = cells
  BY DEF GetDependency
<1>3. PICK d \in Top(t).todo :
        LET waiting == [Top(t) EXCEPT !.todo = @ \ {d}] IN
        IF IsLoaded(d)
        THEN stack' = [stack EXCEPT ![t] = << GetFrame(d, Top(t).ctx), waiting >> \o Tail(@)]
        ELSE Goto(t, waiting)
  BY DEF GetDependency
<1> DEFINE f == [Top(t) EXCEPT !.todo = @ \ {d}]
<1>4. /\ Tame(stack[t], written) /\ stack[t] # << >>
      /\ GoodFrame(Top(t), written) /\ Top(t).at = "deps" /\ ~ Noisy(stack[t])
  BY <1>1, TopFacts
<1>5. FrameShape(f) /\ f.at = "deps" /\ f.cell = Top(t).cell
  <2>1. f = ButJustTodo(Top(t), Top(t).todo \ {d})
    BY DEF ButJustTodo
  <2> HIDE DEF f
  <2> QED BY <1>4, <2>1, WithJustTodo DEF GoodFrame
<1>6. CASE ~ IsLoaded(d)
  <2>1. Goto(t, f)
    BY <1>3, <1>6
  <2> HIDE DEF f
  <2>2. GoodFrame(f, written) /\ f.at \notin Alone /\ f.at \notin {"notify", "send"}
    BY <1>4, <1>5 DEF GoodFrame, FrameOK, Alone
  <2>3. "deps" \notin {"notify", "send"}
    OBVIOUS
  <2> QED BY <1>1, <1>2, <2>1, <2>2, <2>3, GoingQuietly
<1>7. CASE IsLoaded(d)
  <2> DEFINE g == GetFrame(d, Top(t).ctx)
             k == << g, f >> \o Tail(stack[t])
  <2>1. stack' = [stack EXCEPT ![t] = k]
    BY <1>3, <1>7
  <2>2. StackStep(t, k)
    BY <2>1, StackStepIs DEF EngInv
  <2>3. d \in Cell
    BY <1>7 DEF IsLoaded, EngInv, GraphOK
  <2> HIDE DEF f
  <2>4. GoodFrame(f, written) /\ f.at \notin Alone
    BY <1>4, <1>5 DEF GoodFrame, FrameOK, Alone
  <2>5. GoodFrame(g, written) /\ g.at \notin Alone
    BY <2>3, GetFrameGood
  <2> HIDE DEF g
  <2>6. Tame(k, written) /\ ~ Noisy(k)
    BY <1>4, <2>4, <2>5, TamePush
  <2> QED BY <1>2, <1>4, <2>2, <2>6, QuietFrame
<1> QED BY <1>6, <1>7

LEMMA TakeSnapshotKeeps ==
  ASSUME EngInv, NEW t \in Thread, TakeSnapshot(t)
  PROVE  EngInv'
<1>1. At(t, "deps")
  BY DEF TakeSnapshot
<1>2. written' = written /\ channel' = channel /\ cells' = cells
  BY DEF TakeSnapshot
<1>3. PICK seen : Goto(t, ButAtSeen(Top(t), "evaluate", seen))
  BY DEF TakeSnapshot, ButAtSeen
<1> DEFINE f == ButAtSeen(Top(t), "evaluate", seen)
<1>4. GoodFrame(Top(t), written) /\ Top(t).at = "deps"
  BY <1>1, TopFacts
<1>5. FrameShape(f) /\ f.at = "evaluate" /\ f.cell = Top(t).cell
  BY <1>4, WithAtSeen DEF GoodFrame
<1> HIDE DEF f
<1>6. GoodFrame(f, written)
  BY <1>4, <1>5 DEF GoodFrame, FrameOK
<1>7. f.at \notin Alone /\ f.at \notin {"notify", "send"} /\ "deps" \notin {"notify", "send"}
  BY <1>5 DEF Alone
<1> QED BY <1>1, <1>2, <1>3, <1>6, <1>7, GoingQuietly DEF f

LEMMA EvaluateKeeps ==
  ASSUME Calm, EngInv, NEW t \in Thread, Evaluate(t)
  PROVE  EngInv'
<1>1. At(t, "evaluate")
  BY DEF Evaluate
<1>2. GoodFrame(Top(t), written) /\ Top(t).at = "evaluate" /\ ~ Noisy(stack[t])
  BY <1>1, TopFacts
<1>3. CASE Panic(t)
  BY <1>2, <1>3, Panicked
<1>4. CASE ~ Panic(t)
  <2>1. written' = written /\ channel' = channel /\ cells' = cells
    BY <1>4 DEF Evaluate
  <2>2. PICK v : Goto(t, ButAtData(Top(t), "store", v))
    BY <1>4 DEF Evaluate, ButAtData
  <2> DEFINE f == ButAtData(Top(t), "store", v)
  <2>3. FrameShape(f) /\ f.at = "store" /\ f.cell = Top(t).cell
    BY <1>2, WithAtData DEF GoodFrame
  <2> HIDE DEF f
  <2>4. Top(t).cell \in Formulas
    BY <1>2 DEF GoodFrame, FrameOK
  <2>5. ~ Writable(Top(t).cell)
    BY <2>4 DEF Formulas, Writable, Calm
  <2>6. GoodFrame(f, written)
    BY <2>3, <2>5 DEF GoodFrame, FrameOK
  <2>7. f.at \notin Alone /\ f.at \notin {"notify", "send"} /\ "evaluate" \notin {"notify", "send"}
    BY <2>3 DEF Alone
  <2> QED BY <1>1, <2>1, <2>2, <2>6, <2>7, GoingQuietly DEF f
<1> QED BY <1>3, <1>4

\* What the write locks make of a cell.
Reset(g, c, v) == [g EXCEPT ![c].value = v, ![c].cache = << >>]
Pushed(g, c, v) == [g EXCEPT ![c].value = v]
Stored(g, c, x, v) == [g EXCEPT ![c] = Cached(@, x, v)]

CellIs(c, m, v) ==
  CellStep(c, m) /\ CellShape(m) /\ m.dependents = cells[c].dependents /\ m.value = v

LEMMA ResetIs ==
  ASSUME GraphOK(cells), NEW c \in DOMAIN cells, NEW v, cells' = Reset(cells, c, v)
  PROVE  \E m : CellIs(c, m, v)
<1> DEFINE a == [cells[c] EXCEPT !.value = v]
           m == [a EXCEPT !.cache = << >>]
           g == [cells EXCEPT ![c] = a]
           h == [g EXCEPT ![c] = m]
<1>1. /\ cells = [e \in DOMAIN cells |-> cells[e]]
      /\ CellShape(cells[c])
  BY DEF GraphOK
<1>2. Reset(cells, c, v) = h
  BY <1>1 DEF Reset
<1>3. /\ CellShape(a) /\ a.dependents = cells[c].dependents /\ a.value = v
  BY <1>1 DEF CellShape
<1> HIDE DEF a
<1>4. CellShape(m) /\ m.dependents = a.dependents /\ m.value = a.value
  BY <1>3 DEF CellShape
<1> HIDE DEF m
<1>5. h = [e \in DOMAIN cells |-> IF e = c THEN m ELSE cells[e]]
  BY <1>1
<1>6. CellStep(c, m)
  BY <1>2, <1>5 DEF CellStep
<1> QED BY <1>3, <1>4, <1>6 DEF CellIs

LEMMA PushedIs ==
  ASSUME GraphOK(cells), NEW c \in DOMAIN cells, NEW v, cells' = Pushed(cells, c, v)
  PROVE  \E m : CellIs(c, m, v)
<1> DEFINE m == [cells[c] EXCEPT !.value = v]
           h == [cells EXCEPT ![c] = m]
<1>1. /\ cells = [e \in DOMAIN cells |-> cells[e]]
      /\ CellShape(cells[c])
  BY DEF GraphOK
<1>2. Pushed(cells, c, v) = h
  BY <1>1 DEF Pushed
<1>3. CellShape(m) /\ m.dependents = cells[c].dependents /\ m.value = v
  BY <1>1 DEF CellShape
<1> HIDE DEF m
<1>4. h = [e \in DOMAIN cells |-> IF e = c THEN m ELSE cells[e]]
  BY <1>1
<1>5. CellStep(c, m)
  BY <1>2, <1>4 DEF CellStep
<1> QED BY <1>3, <1>5 DEF CellIs

LEMMA StoredIs ==
  ASSUME GraphOK(cells), NEW c \in DOMAIN cells, NEW x, NEW v, cells' = Stored(cells, c, x, v)
  PROVE  \E m : CellIs(c, m, v)
<1> DEFINE old == cells[c].cache
           new == [y \in DOMAIN old \cup {x} |-> IF y = x THEN v ELSE old[y]]
           a == [cells[c] EXCEPT !.value = v]
           m == [a EXCEPT !.cache = new]
           h == [cells EXCEPT ![c] = m]
<1>1. /\ cells = [e \in DOMAIN cells |-> cells[e]]
      /\ CellShape(cells[c])
  BY DEF GraphOK
<1>2. Cached(cells[c], x, v) = m
  BY <1>1 DEF Cached, CellShape
<1> HIDE DEF new
<1>3. Stored(cells, c, x, v) = h
  BY <1>2 DEF Stored
<1>4. /\ CellShape(a) /\ a.dependents = cells[c].dependents /\ a.value = v
  BY <1>1 DEF CellShape
<1> HIDE DEF a
<1>5. CellShape(m) /\ m.dependents = a.dependents /\ m.value = a.value
  BY <1>4 DEF CellShape
<1> HIDE DEF m
<1>6. h = [e \in DOMAIN cells |-> IF e = c THEN m ELSE cells[e]]
  BY <1>1
<1>7. CellStep(c, m)
  BY <1>3, <1>6 DEF CellStep
<1> QED BY <1>4, <1>5, <1>7 DEF CellIs

LEMMA StoreKeeps ==
  ASSUME EngInv, NEW t \in Thread, Store(t)
  PROVE  EngInv'
<1>1. At(t, "store")
  BY DEF Store
<1>2. GoodFrame(Top(t), written) /\ Top(t).at = "store" /\ ~ Noisy(stack[t])
  BY <1>1, TopFacts
<1>3. Return(t, Top(t).data) /\ written' = written /\ channel' = channel
  BY DEF Store
<1>4. PICK k : StackStep(t, k) /\ Tame(k, written) /\ ~ Noisy(k)
  BY <1>1, <1>3, Returned
<1> DEFINE c == Top(t).cell
<1>5. CASE ~ IsLoaded(c)
  <2>1. cells' = cells
    BY <1>5 DEF Store
  <2> QED BY <1>2, <1>3, <1>4, <2>1, QuietFrame
<1>6. CASE IsLoaded(c)
  <2>1. cells' = Stored(cells, c, Top(t).ctx, Top(t).data)
    BY <1>6 DEF Store, Stored
  <2>2. PICK m : CellIs(c, m, Top(t).data)
    BY <1>6, <2>1, StoredIs DEF EngInv, IsLoaded
  <2>3. ~ Writable(c)
    BY <1>2 DEF GoodFrame, FrameOK
  <2>4. c \in DOMAIN cells /\ CellStep(c, m) /\ Kept(c, m)
    BY <1>6, <2>2, <2>3 DEF CellIs, Kept, IsLoaded
  <2> HIDE DEF c
  <2> QED BY <1>2, <1>3, <1>4, <2>4, QuietCell
<1> QED BY <1>5, <1>6

\* A record of a write is what it says.
LEMMA EventOf ==
  ASSUME NEW c, NEW d
  PROVE  LET e == [cell |-> c, data |-> d] IN Event(e) /\ e.cell = c /\ e.data = d
BY DEF Event

LEMMA SetWriteKeeps ==
  ASSUME EngInv, NEW t \in Thread, NEW c, c \in Settable, NEW d, SetWrite(t, c, d)
  PROVE  EngInv'
<1> DEFINE e == [cell |-> c, data |-> d]
           f == Frame("notify", c, NoCtx, {}, NoData)
           w == Append(written, e)
<1>1. Idle(t) /\ Enter(t, f) /\ c \in DOMAIN cells /\ channel' = channel /\ written' = w
  BY DEF SetWrite, Begin, IsLoaded, Write
<1>2. cells' = Reset(cells, c, ReadyValue(d))
  BY DEF SetWrite, Reset
<1>3. PICK m : CellIs(c, m, ReadyValue(d))
  BY <1>1, <1>2, ResetIs DEF EngInv
<1>4. Event(e) /\ e.cell = c /\ e.data = d /\ Writable(c)
  BY EventOf DEF Writable
<1> HIDE DEF e
<1>5. FrameShape(f) /\ f.at = "notify" /\ f.cell = c
  BY FrameFields
<1> HIDE DEF f
<1>6. GoodFrame(f, w)
  <2>1. Len(w) = Len(written) + 1 /\ Len(written) \in Nat /\ w[Len(written) + 1] = e
    BY AppendFacts DEF EngInv, HistoryOK, Sequence
  <2> HIDE DEF w
  <2>2. \E i \in 1..Len(w) : w[i].cell = c
    BY <1>4, <2>1
  <2> QED BY <1>5, <2>2 DEF GoodFrame, FrameOK
<1>7. StackStep(t, << f >>) /\ ~ Noisy(stack[t]) /\ Noisy(<< f >>)
  BY <1>1, <1>5, Entered
<1>8. Tame(<< f >>, w)
  BY <1>6, TameOne
<1>9. /\ CellStep(e.cell, m) /\ CellShape(m) /\ m.dependents = cells[e.cell].dependents
      /\ m.value = ReadyValue(e.data)
  BY <1>3, <1>4 DEF CellIs
<1>10. Tame(<< f >>, written') /\ Writable(e.cell) /\ e.cell \in DOMAIN cells
  BY <1>1, <1>4, <1>8
<1> QED BY <1>1, <1>4, <1>7, <1>9, <1>10, WriteStep

LEMMA PushBeginKeeps ==
  ASSUME EngInv, NEW t \in Thread, NEW c, NEW d, PushBegin(t, c, d)
  PROVE  EngInv'
<1> DEFINE f == Frame("push", c, NoCtx, {}, ReadyValue(d))
<1>1. /\ Idle(t) /\ Enter(t, f) /\ Kind[c] \in {"sensor", "io"}
      /\ written' = written /\ channel' = channel /\ cells' = cells
  BY DEF PushBegin, Begin
<1>2. FrameShape(f) /\ f.at = "push" /\ f.cell = c /\ f.data = ReadyValue(d)
  BY FrameFields
<1>3. ReadyValue(d).data = d
  BY DEF ReadyValue
<1> HIDE DEF f
<1>4. GoodFrame(f, written)
  BY <1>1, <1>2, <1>3 DEF GoodFrame, FrameOK
<1>5. StackStep(t, << f >>) /\ ~ Noisy(stack[t]) /\ ~ Noisy(<< f >>)
  BY <1>1, <1>2, Entered
<1>6. Tame(<< f >>, written)
  BY <1>4, TameOne
<1> QED BY <1>1, <1>5, <1>6, QuietFrame

LEMMA PushWriteKeeps ==
  ASSUME EngInv, NEW t \in Thread, PushWrite(t)
  PROVE  EngInv'
<1> DEFINE c == Top(t).cell
           d == Top(t).data.data
           e == [cell |-> c, data |-> d]
           w == Append(written, e)
           f == ButAtData(Top(t), "notify", NoData)
           k == << f >> \o Tail(stack[t])
<1>1. At(t, "push")
  BY DEF PushWrite
<1>2. /\ Tame(stack[t], written) /\ stack[t] # << >> /\ ~ Noisy(stack[t])
      /\ GoodFrame(Top(t), written) /\ Top(t).at = "push" /\ Top(t) = stack[t][1]
  BY <1>1, TopFacts
<1>3. CASE Panic(t)
  BY <1>2, <1>3, Panicked
<1>4. CASE ~ Panic(t)
  <2>1. /\ c \in DOMAIN cells /\ channel' = channel /\ written' = w /\ Goto(t, f)
        /\ cells' = Pushed(cells, c, Top(t).data)
    BY <1>4 DEF PushWrite, IsLoaded, Write, Pushed, ButAtData
  <2>2. PICK m : CellIs(c, m, Top(t).data)
    BY <2>1, PushedIs DEF EngInv
  <2>3. Event(e) /\ e.cell = c /\ e.data = d
    BY EventOf
  <2>4. Writable(c) /\ Top(t).data = ReadyValue(d)
    BY <1>2 DEF GoodFrame, FrameOK, Writable
  <2>5. FrameShape(f) /\ f.at = "notify" /\ f.cell = c
    BY <1>2, WithAtData DEF GoodFrame
  <2>6. StackStep(t, k)
    BY <1>1, <2>1, Going
  <2> HIDE DEF e, f
  <2>7. /\ Len(w) = Len(written) + 1 /\ Len(written) \in Nat /\ w[Len(written) + 1] = e
    BY AppendFacts DEF EngInv, HistoryOK, Sequence
  <2>8. Tame(stack[t], w)
    BY <1>2, TameMore DEF EngInv, HistoryOK
  <2> HIDE DEF w
  <2>9. GoodFrame(f, w)
    <3>1. \E i \in 1..Len(w) : w[i].cell = c
      BY <2>3, <2>7
    <3> QED BY <2>5, <3>1 DEF GoodFrame, FrameOK
  <2>10. Tame(k, w) /\ Noisy(k)
    <3>1. "push" \in Alone
      BY DEF Alone
    <3> QED BY <1>2, <2>5, <2>8, <2>9, <3>1, TameGoto
  <2>11. /\ CellStep(e.cell, m) /\ CellShape(m) /\ m.dependents = cells[e.cell].dependents
         /\ m.value = ReadyValue(e.data)
    BY <2>2, <2>3, <2>4 DEF CellIs
  <2>12. Tame(k, written') /\ Writable(e.cell) /\ e.cell \in DOMAIN cells
    BY <2>1, <2>3, <2>4, <2>10
  <2> HIDE DEF k
  <2> QED BY <1>2, <2>1, <2>3, <2>6, <2>10, <2>11, <2>12, WriteStep DEF w
<1> QED BY <1>3, <1>4

\* Of the writes of a cell one is the last.
LEMMA LastWrite ==
  ASSUME NEW w, Sequence(w), NEW i \in 1..Len(w)
  PROVE  \E m \in 1..Len(w) :
           /\ w[m].cell = w[i].cell
           /\ \A j \in 1..Len(w) : w[j].cell = w[m].cell => j <= m
<1> DEFINE S == {j \in 1..Len(w) : w[j].cell = w[i].cell}
<1>1. Len(w) \in Nat
  BY DEF Sequence
<1>2. S \in SUBSET Nat /\ i \in S /\ \A j \in S : j <= Len(w)
  BY <1>1
<1>3. PICK m \in S : \A j \in S : j <= m
  <2> HIDE DEF S
  <2> QED BY <1>1, <1>2, GreatestOf
<1> QED BY <1>3

\* What notify_change reads is a value that was written.
LEMMA NotifyReadKeeps ==
  ASSUME EngInv, NEW t \in Thread, NotifyRead(t)
  PROVE  EngInv'
<1> DEFINE c == Top(t).cell
           f == ButAtData(Top(t), "send", cells[c].value)
<1>1. /\ At(t, "notify")
      /\ written' = written /\ channel' = channel /\ cells' = cells
  BY DEF NotifyRead
<1>2. GoodFrame(Top(t), written) /\ Top(t).at = "notify"
  BY <1>1, TopFacts
<1>3. PICK i \in 1..Len(written) : written[i].cell = c
  BY <1>2 DEF GoodFrame, FrameOK
<1>4. c \in DOMAIN cells
  BY <1>3 DEF EngInv, HistoryOK
<1>5. Goto(t, f)
  BY <1>4 DEF NotifyRead, IsLoaded, ButAtData
<1>6. PICK m \in 1..Len(written) :
        /\ written[m].cell = written[i].cell
        /\ \A j \in 1..Len(written) : written[j].cell = written[m].cell => j <= m
  BY LastWrite DEF EngInv, HistoryOK
<1>7. cells[c].value = ReadyValue(written[m].data) /\ Event(written[m])
  BY <1>3, <1>6 DEF EngInv, Settled, HistoryOK
<1>8. /\ FrameShape(f) /\ f.at = "send" /\ f.cell = c /\ f.data = cells[c].value
  BY <1>2, WithAtData DEF GoodFrame
<1>9. f.data.data = written[m].data
  BY <1>7, <1>8 DEF ReadyValue
<1> HIDE DEF f
<1>10. \E j \in 1..Len(written) : written[j] = [cell |-> f.cell, data |-> f.data.data]
  <2>1. written[m] = [cell |-> written[m].cell, data |-> written[m].data]
    BY <1>7 DEF Event
  <2>2. written[m] = [cell |-> f.cell, data |-> f.data.data]
    BY <1>3, <1>6, <1>8, <1>9, <2>1
  <2> QED BY <2>2
<1>11. GoodFrame(f, written)
  BY <1>8, <1>10 DEF GoodFrame, FrameOK
<1>12. f.at \in {"notify", "send"} /\ "notify" \in Alone /\ "notify" \in {"notify", "send"}
  BY <1>8 DEF Alone
<1> QED BY <1>1, <1>5, <1>11, <1>12, GoingQuietly

LEMMA NotifySendKeeps ==
  ASSUME EngInv, NEW t \in Thread, NotifySend(t)
  PROVE  EngInv'
<1> DEFINE e == [cell |-> Top(t).cell, data |-> Top(t).data.data]
           f == ButAtData(Top(t), "propagate", NoData)
           k == << f >> \o Tail(stack[t])
<1>1. /\ At(t, "send") /\ Goto(t, f)
      /\ written' = written /\ cells' = cells
  BY DEF NotifySend, ButAtData
<1>2. channel' = [b \in Subscriber |-> IF Matches(b, e.cell)
                                       THEN Append(channel[b], e) ELSE channel[b]]
  BY DEF NotifySend
<1>3. /\ Tame(stack[t], written) /\ stack[t] # << >> /\ Noisy(stack[t])
      /\ GoodFrame(Top(t), written) /\ Top(t).at = "send" /\ Top(t) = stack[t][1]
  BY <1>1, TopFacts
<1>4. PICK i \in 1..Len(written) : written[i] = e
  BY <1>3 DEF GoodFrame, FrameOK
<1>5. FrameShape(f) /\ f.at = "propagate"
  BY <1>3, WithAtData DEF GoodFrame
<1>6. StackStep(t, k)
  BY <1>1, Going
<1> HIDE DEF e, f
<1>7. e \in ToSet(written)
  <2>1. written \in Seq(ToSet(written))
    BY DEF EngInv, HistoryOK, Sequence
  <2> QED BY <1>4, <2>1
<1>8. Tame(k, written) /\ ~ Noisy(k)
  BY <1>3, <1>5, PlainFrame, TameGoto
<1>9. channel' = [b \in Subscriber |-> IF b.all \/ Matches(b, e.cell)
                                       THEN Append(channel[b], e) ELSE channel[b]]
  BY <1>2 DEF Matches
<1> HIDE DEF k
<1> QED BY <1>1, <1>3, <1>6, <1>7, <1>8, <1>9, SendStep

\* propagate collects dependents that may be marked.
LEMMA PropagateKeeps ==
  ASSUME EngInv, NEW t \in Thread, Propagate(t)
  PROVE  EngInv'
<1> DEFINE c == Top(t).cell
           ds == IF IsLoaded(c) THEN cells[c].dependents ELSE {}
           f == ButAtNearTodo(Top(t), "mark", ds, ds)
<1>1. /\ At(t, "propagate") /\ Goto(t, f)
      /\ written' = written /\ channel' = channel /\ cells' = cells
  BY DEF Propagate, ButAtNearTodo
<1>2. \A d \in ds : Spared(d)
  BY DEF EngInv, GraphOK, IsLoaded
<1>3. GoodFrame(Top(t), written)
  BY <1>1, TopFacts
<1> HIDE DEF ds
<1>4. FrameShape(f) /\ f.at = "mark" /\ f.todo = ds
  BY <1>3, WithAtNearTodo DEF GoodFrame
<1> HIDE DEF f
<1>5. GoodFrame(f, written)
  BY <1>2, <1>4 DEF GoodFrame, FrameOK
<1>6. /\ f.at \notin {"notify", "send"} /\ f.at \notin Alone
      /\ "propagate" \notin {"notify", "send"}
  BY <1>4 DEF Alone
<1> QED BY <1>1, <1>5, <1>6, GoingQuietly

LEMMA MarkStaleKeeps ==
  ASSUME EngInv, NEW t \in Thread, MarkStale(t)
  PROVE  EngInv'
<1>1. /\ At(t, "mark") /\ written' = written /\ channel' = channel
  BY DEF MarkStale
<1>2. PICK d \in Top(t).todo :
        /\ cells' = IF IsLoaded(d) /\ Kind[d] \in {"formula", "value"}
                    THEN Reset(cells, d, StaleValue) ELSE cells
        /\ Goto(t, ButJustTodo(Top(t), Top(t).todo \ {d}))
  BY DEF MarkStale, Reset, ButJustTodo
<1> DEFINE f == ButJustTodo(Top(t), Top(t).todo \ {d})
           k == << f >> \o Tail(stack[t])
<1>3. /\ Tame(stack[t], written) /\ stack[t] # << >> /\ ~ Noisy(stack[t])
      /\ GoodFrame(Top(t), written) /\ Top(t).at = "mark"
  BY <1>1, TopFacts
<1>4. FrameShape(f) /\ f.at = "mark" /\ f.todo = Top(t).todo \ {d}
  BY <1>3, WithJustTodo DEF GoodFrame
<1>5. StackStep(t, k)
  BY <1>1, <1>2, Going
<1>6. \A b \in Top(t).todo : Spared(b)
  BY <1>3 DEF GoodFrame, FrameOK
<1> HIDE DEF f
<1>7. GoodFrame(f, written) /\ f.at \notin Alone /\ f.at \notin {"notify", "send"}
  BY <1>4, <1>6 DEF GoodFrame, FrameOK, Alone
<1>8. Tame(k, written) /\ ~ Noisy(k)
  BY <1>3, <1>7, TameGoto
<1> HIDE DEF k
<1>9. CASE ~ (IsLoaded(d) /\ Kind[d] \in {"formula", "value"})
  <2>1. cells' = cells
    BY <1>2, <1>9
  <2> QED BY <1>1, <1>3, <1>5, <1>8, <2>1, QuietFrame
<1>10. CASE IsLoaded(d) /\ Kind[d] \in {"formula", "value"}
  <2>1. cells' = Reset(cells, d, StaleValue) /\ d \in DOMAIN cells
    BY <1>2, <1>10 DEF IsLoaded
  <2>2. PICK m : CellIs(d, m, StaleValue)
    BY <2>1, ResetIs DEF EngInv
  <2>3. CellStep(d, m) /\ Kept(d, m)
    BY <1>6, <1>10, <2>2 DEF CellIs, Kept, Spared
  <2> QED BY <1>1, <1>3, <1>5, <1>8, <2>1, <2>3, QuietCell
<1> QED BY <1>9, <1>10

LEMMA RecurseKeeps ==
  ASSUME EngInv, NEW t \in Thread, Recurse(t)
  PROVE  EngInv'
<1>1. written' = written /\ channel' = channel /\ cells' = cells
  BY DEF Recurse
<1>2. CASE At(t, "mark") /\ Goto(t, ButAtTodo(Top(t), "recurse", Top(t).near))
  <2> DEFINE f == ButAtTodo(Top(t), "recurse", Top(t).near)
  <2>1. GoodFrame(Top(t), written)
    BY <1>2, TopFacts
  <2>2. FrameShape(f) /\ f.at = "recurse"
    BY <2>1, WithAtTodo DEF GoodFrame
  <2> HIDE DEF f
  <2>3. GoodFrame(f, written) /\ f.at \notin Alone
    BY <2>2, PlainFrame
  <2>4. f.at \notin {"notify", "send"} /\ "mark" \notin {"notify", "send"}
    BY <2>2
  <2> QED BY <1>1, <1>2, <2>3, <2>4, GoingQuietly DEF f
<1>3. CASE At(t, "recurse")
  <2>1. /\ Tame(stack[t], written) /\ stack[t] # << >> /\ ~ Noisy(stack[t])
        /\ GoodFrame(Top(t), written) /\ Top(t).at = "recurse"
    BY <1>3, TopFacts
  <2>2. CASE \E d \in Top(t).todo :
               stack' = [stack EXCEPT ![t] =
                 << Frame("propagate", d, NoCtx, {}, NoData),
                    ButJustTodo(Top(t), Top(t).todo \ {d}) >> \o Tail(@)]
    <3>1. PICK d \in Top(t).todo :
            stack' = [stack EXCEPT ![t] =
              << Frame("propagate", d, NoCtx, {}, NoData),
                 ButJustTodo(Top(t), Top(t).todo \ {d}) >> \o Tail(@)]
      BY <2>2
    <3> DEFINE g == Frame("propagate", d, NoCtx, {}, NoData)
               f == ButJustTodo(Top(t), Top(t).todo \ {d})
               k == << g, f >> \o Tail(stack[t])
    <3>2. stack' = [stack EXCEPT ![t] = k]
      BY <3>1
    <3>3. StackStep(t, k)
      BY <3>2, StackStepIs DEF EngInv
    <3>4. FrameShape(g) /\ g.at = "propagate"
      BY FrameFields
    <3>5. FrameShape(f) /\ f.at = "recurse"
      BY <2>1, WithJustTodo DEF GoodFrame
    <3> HIDE DEF f, g
    <3>6. /\ GoodFrame(f, written) /\ f.at \notin Alone
          /\ GoodFrame(g, written) /\ g.at \notin Alone
      BY <3>4, <3>5, PlainFrame
    <3>7. Tame(k, written) /\ ~ Noisy(k)
      BY <2>1, <3>6, TamePush
    <3> HIDE DEF k
    <3> QED BY <1>1, <2>1, <3>3, <3>7, QuietFrame
  <2>3. CASE Leave(t)
    <3>1. StackStep(t, Tail(stack[t]))
      BY <2>3, StackStepIs DEF Leave, EngInv
    <3>2. Tame(Tail(stack[t]), written) /\ ~ Noisy(Tail(stack[t]))
      BY <2>1, TameTail
    <3> QED BY <1>1, <2>1, <3>1, <3>2, QuietFrame
  <2>4. At(t, "recurse") /\ ~ At(t, "mark")
    BY <1>3 DEF At
  <2> QED BY <2>2, <2>3, <2>4 DEF Recurse, ButJustTodo
<1> QED BY <1>2, <1>3 DEF Recurse, ButAtTodo

-----------------------------------------------------------------------------
(***************************************************************************)
(* The theorems.                                                           *)
(***************************************************************************)

\* The graph load_sheet makes has no dependent that a mark would harm.
LEMMA LoadedOK ==
  ASSUME EngineAssumption, Calm, NEW sheet \in Sheets
  PROVE  GraphOK(Loaded(sheet))
<1> DEFINE pairs == UNION {PairsOf(c, Declared[c] \cup (Mentioned[c] \ {c}), sheet) : c \in sheet}
           g == [c \in sheet |-> NewCell(c)]
           h == Linked(g, pairs)
           up(c) == {p[1] : p \in {q \in pairs : q[2] = c}}
<1>1. sheet \subseteq Cell
  BY DEF EngineAssumption
<1>2. ASSUME NEW p \in pairs PROVE Spared(p[1])
  <2>1. PICK c \in sheet : p \in PairsOf(c, Declared[c] \cup (Mentioned[c] \ {c}), sheet)
    BY <1>2
  <2>2. p[1] = c /\ Declared[c] \cup (Mentioned[c] \ {c}) # {}
    BY <2>1 DEF PairsOf
  <2>3. c \in Settable => Kind[c] # "formula" /\ Kind[c] # "value"
    BY <2>2 DEF Calm
  <2> QED BY <2>2, <2>3 DEF Spared, Writable
<1> HIDE DEF pairs
<1>3. DOMAIN h = sheet /\ h = [c \in DOMAIN h |-> h[c]]
  BY DEF Linked
<1>4. ASSUME NEW c \in sheet
      PROVE  CellShape(h[c]) /\ \A d \in h[c].dependents : Spared(d)
  <2> DEFINE n == NewCell(c)
             deps == n.deps \cup {p[2] : p \in {q \in pairs : q[1] = c}}
             a == [n EXCEPT !.deps = deps]
             b == [a EXCEPT !.dependents = n.dependents \cup up(c)]
  <2>1. h[c] = b
    BY DEF Linked
  <2>2. CellShape(n) /\ n.dependents = {}
    BY DEF NewCell, CellShape
  <2> HIDE DEF deps, n
  <2>3. CellShape(a) /\ a.dependents = n.dependents
    BY <2>2 DEF CellShape
  <2> HIDE DEF a, up
  <2>4. CellShape(b) /\ b.dependents = n.dependents \cup up(c)
    BY <2>3 DEF CellShape
  <2>5. \A d \in up(c) : Spared(d)
    BY <1>2 DEF up
  <2> HIDE DEF b
  <2> QED BY <2>1, <2>2, <2>4, <2>5
<1>5. h = Loaded(sheet)
  BY DEF Loaded, pairs
<1> HIDE DEF h
<1> QED BY <1>1, <1>3, <1>4, <1>5 DEF GraphOK

LEMMA EngInvInit ==
  ASSUME EngineAssumption, Calm, Init
  PROVE  EngInv
<1>1. GraphOK(cells)
  BY LoadedOK DEF Init
<1> DEFINE e == << >>
<1>2. e \in Seq({}) /\ Len(e) = 0 /\ ToSet(e) = {} /\ 1..Len(e) = {}
  BY DEF ToSet
<1>3. stack = [t \in Thread |-> e] /\ written = e /\ channel = [s \in Subscriber |-> e]
  BY DEF Init
<1>4. Sequence(e) /\ Tame(e, e) /\ ~ Noisy(e)
  BY <1>2 DEF Sequence, Tame, Noisy
<1> HIDE DEF e
<1>5. StackOK(stack, written)
  BY <1>3, <1>4 DEF StackOK
<1>6. HistoryOK(written, cells) /\ Settled(written, cells)
  BY <1>2, <1>3, <1>4 DEF HistoryOK, Settled
<1>7. Late(stack) = {}
  BY <1>3, <1>4 DEF Late
<1>8. Counted(channel, written, stack)
  <2>1. IsFiniteSet({}) /\ Cardinality({}) = 0
    BY FS_EmptySet
  <2>2. ASSUME NEW b \in Subscriber
        PROVE  channel[b] = e
    BY <1>3
  <2>3. \A b \in Subscriber : \A i \in 1..Len(channel[b]) : channel[b][i] \in ToSet(written)
    BY <1>2, <2>2
  <2>4. channel = [b \in Subscriber |-> channel[b]]
    BY <1>3
  <2>5. Len(e) = 0 /\ Sequence(e)
    BY <1>2, <1>4
  <2>6. Cardinality(Late(stack)) = 0 /\ IsFiniteSet(Late(stack))
    BY <1>7, <2>1
  <2>7. \A b \in Subscriber :
          Sequence(channel[b]) /\ Len(channel[b]) + Cardinality(Late(stack)) = Len(written)
    BY <1>3, <2>2, <2>5, <2>6
  <2> QED BY <2>3, <2>4, <2>6, <2>7 DEF Counted
<1> QED BY <1>1, <1>5, <1>6, <1>8 DEF EngInv

LEMMA StepKeeps ==
  ASSUME Calm, EngInv, NEW t \in Thread, Step(t)
  PROVE  EngInv'
<1>1. CASE ReadCell(t) \/ Collect(t) \/ GetDependency(t) \/ TakeSnapshot(t)
  BY <1>1, ReadCellKeeps, CollectKeeps, GetDependencyKeeps, TakeSnapshotKeeps
<1>2. CASE Evaluate(t) \/ Store(t) \/ PushWrite(t)
  BY <1>2, EvaluateKeeps, StoreKeeps, PushWriteKeeps
<1>3. CASE NotifyRead(t) \/ NotifySend(t)
  BY <1>3, NotifyReadKeeps, NotifySendKeeps
<1>4. CASE Propagate(t) \/ MarkStale(t) \/ Recurse(t)
  BY <1>4, PropagateKeeps, MarkStaleKeeps, RecurseKeeps
<1> QED BY <1>1, <1>2, <1>3, <1>4 DEF Step

LEMMA EngInvStep ==
  ASSUME EngineAssumption, Calm, EngInv, [Next]_vars
  PROVE  EngInv'
<1>1. ASSUME NEW t \in Reader, NEW c \in Cell, NEW x \in Ctx, GetBegin(t, c, x)
      PROVE  EngInv'
  <2>1. t \in Thread
    BY DEF EngineAssumption
  <2> QED BY <1>1, <2>1, GetBeginKeeps
<1>2. ASSUME NEW t \in Reader, NEW c \in Callable, NEW x \in Ctx,
             CallBegin(t, c, x) \/ CallHit(t, c, x)
      PROVE  EngInv'
  <2>1. t \in Thread /\ c \in Cell
    BY DEF EngineAssumption
  <2>2. CASE CallBegin(t, c, x)
    BY <2>1, <2>2, CallBeginKeeps
  <2>3. CASE CallHit(t, c, x)
    BY <2>3, SameStack DEF CallHit
  <2> QED BY <1>2, <2>2, <2>3
<1>3. ASSUME NEW t \in Writer, NEW d \in Datum, NEW c \in Settable, SetWrite(t, c, d)
      PROVE  EngInv'
  <2>1. t \in Thread
    BY DEF EngineAssumption
  <2> QED BY <1>3, <2>1, SetWriteKeeps
<1>4. ASSUME NEW t \in Writer, NEW d \in Datum, NEW c \in Cell, PushBegin(t, c, d)
      PROVE  EngInv'
  <2>1. t \in Thread
    BY DEF EngineAssumption
  <2> QED BY <1>4, <2>1, PushBeginKeeps
<1>5. ASSUME NEW t \in Loader PROVE FALSE
  BY DEF Calm
<1>6. ASSUME NEW t \in Thread, Step(t) PROVE EngInv'
  BY <1>6, StepKeeps
<1>7. CASE UNCHANGED vars
  BY <1>7, SameStack DEF vars
<1> QED BY <1>1, <1>2, <1>3, <1>4, <1>5, <1>6, <1>7 DEF Next

LEMMA EngInvAlways ==
  ASSUME EngineAssumption, Calm
  PROVE  Spec => []EngInv
<1>1. Init => EngInv
  BY EngInvInit
<1>2. EngInv /\ [Next]_vars => EngInv'
  BY EngInvStep
<1> QED BY <1>1, <1>2, PTL DEF Spec

\* LastWritten is the last of the writes of a cell.
LEMMA LastWrittenIs ==
  ASSUME NEW c, Sequence(written), NEW m \in 1..Len(written), written[m].cell = c,
         \A j \in 1..Len(written) : written[j].cell = c => j <= m
  PROVE  LastWritten(c) = written[m].data
<1> DEFINE S == {i \in 1..Len(written) : written[i].cell = c}
<1>1. Len(written) \in Nat
  BY DEF Sequence
<1>2. m \in S /\ S \subseteq Nat /\ \A j \in S : j <= m
  BY <1>1
<1> HIDE DEF S
<1>3. Max(S) = m
  <2>1. \A j \in S : m >= j
    BY <1>2
  <2>2. Max(S) \in S /\ \A j \in S : Max(S) >= j
    BY <1>2, <2>1, Zenon DEF Max
  <2>3. Max(S) \in Nat /\ m \in Nat /\ m >= Max(S) /\ Max(S) >= m
    BY <1>2, <2>1, <2>2
  <2> QED BY <2>3
<1> QED BY <1>3 DEF LastWritten, S

LEMMA SettledWhenQuiet ==
  ASSUME EngInv
  PROVE  WritesSettle
<1> SUFFICES ASSUME NEW i \in 1..Len(written)
             PROVE  cells[written[i].cell].value = ReadyValue(LastWritten(written[i].cell))
  BY DEF WritesSettle
<1>1. PICK m \in 1..Len(written) :
        /\ written[m].cell = written[i].cell
        /\ \A j \in 1..Len(written) : written[j].cell = written[m].cell => j <= m
  BY LastWrite DEF EngInv, HistoryOK
<1>2. cells[written[m].cell].value = ReadyValue(written[m].data)
  BY <1>1 DEF EngInv, Settled
<1>3. LastWritten(written[i].cell) = written[m].data
  BY <1>1, LastWrittenIs DEF EngInv, HistoryOK
<1> QED BY <1>1, <1>2, <1>3

LEMMA CountedWhenQuiet ==
  ASSUME EngInv
  PROVE  OneEventPerMutation
<1> SUFFICES ASSUME Quiet, NEW s \in Subscriber, s.all
             PROVE  /\ Len(channel[s]) = Len(written)
                    /\ \A i \in 1..Len(channel[s]) : channel[s][i] \in ToSet(written)
  BY DEF OneEventPerMutation
<1>1. Late(stack) = {}
  BY DEF Quiet, Idle, Late, Noisy
<1>2. Cardinality(Late(stack)) = 0
  BY <1>1, FS_EmptySet
<1>3. /\ Sequence(channel[s])
      /\ Len(channel[s]) + Cardinality(Late(stack)) = Len(written)
      /\ \A i \in 1..Len(channel[s]) : channel[s][i] \in ToSet(written)
  BY DEF EngInv, Counted
<1>4. Len(channel[s]) \in Nat
  BY <1>3 DEF Sequence
<1> QED BY <1>2, <1>3, <1>4

\* Whatever the interleaving of any number of gets, calls, sets and pushes, of
\* calm callers, what was last written to a cell is what it holds: no cached
\* result, stale mark or late notification of engine.rs undoes a write.
THEOREM WritesSettleAlways ==
  ASSUME EngineAssumption, Calm
  PROVE  Spec => []WritesSettle
<1>1. EngInv => WritesSettle
  BY SettledWhenQuiet
<1> QED BY <1>1, EngInvAlways, PTL

\* A wildcard subscription is sent one event for each set and each push, and
\* none that no set or push made, though notify_change reads the value again
\* under a lock of its own.
THEOREM OneEventAlways ==
  ASSUME EngineAssumption, Calm
  PROVE  Spec => []OneEventPerMutation
<1>1. EngInv => OneEventPerMutation
  BY CountedWhenQuiet
<1> QED BY <1>1, EngInvAlways, PTL

-----------------------------------------------------------------------------
(***************************************************************************)
(* One thread at a time: what is cached is what evaluating would give.     *)
(***************************************************************************)

\* The dependencies a sheet or a register may give a cell.
MayNeed(c) == Declared[c] \cup (Mentioned[c] \ {c})

\* A graph without cycles, of some depth.
Ranked(n, rank) ==
  /\ n \in Nat /\ rank \in [Cell -> 0..n]
  /\ \A c \in Cell : \A d \in MayNeed(c) : rank[d] < rank[c]

\* The callers: one at a time, of sheets without cycles, who call no value
\* cell that depends on others (a call would make it ready again behind the
\* back of those that depend on it).
OneAtATime ==
  /\ \E t : Thread = {t}
  /\ \E n, rank : Ranked(n, rank)
  /\ \A c \in Callable : Kind[c] = "value" => MayNeed(c) = {}

\* The edges of a graph are in it, both ways, and are those of the defs.
Edges(g) ==
  /\ DOMAIN g \subseteq Cell
  /\ \A c \in DOMAIN g : g[c].deps \subseteq DOMAIN g /\ g[c].deps \subseteq MayNeed(c)
  /\ \A c \in DOMAIN g : g[c].dependents = {d \in DOMAIN g : c \in g[d].deps}

Shapes(g) == g = [c \in DOMAIN g |-> g[c]] /\ \A c \in DOMAIN g : CellShape(g[c])

-----------------------------------------------------------------------------
\* What propagate has still to mark, of each call in progress.

Closed(g, S) == \A e \in S \cap DOMAIN g : g[e].dependents \subseteq S

\* All that depends on a cell of A, through however many others.
After(g, A) ==
  {d \in Cell : \A S \in SUBSET Cell :
     Closed(g, S) /\ (\A e \in A \cap DOMAIN g : g[e].dependents \subseteq S) => d \in S}

Pending(g, f) ==
  CASE f.at \in {"notify", "send", "propagate"} -> After(g, {f.cell})
    [] f.at = "mark" -> f.todo \cup After(g, f.near)
    [] f.at = "recurse" -> After(g, f.todo)
    [] OTHER -> {}

Unmarked(g, s) == UNION {Pending(g, s[i]) : i \in 1..Len(s)}

\* Formula c is worth what it has cached, wherever it has.
FreshIn(g, c) == \A x \in DOMAIN g[c].cache : g[c].cache[x] = Worth(g, x)[c]

FreshBut(g, U) == \A c \in Formulas \cap DOMAIN g : FreshIn(g, c) \/ c \in U

\* Values that are called are ready, and so is what is cached of them.
ValuesReady(g) ==
  \A c \in Callable \cap DOMAIN g : Kind[c] = "value" =>
    /\ g[c].value.status = "ready"
    /\ \A x \in DOMAIN g[c].cache : g[c].cache[x] = g[c].value

Graph(g) == Edges(g) /\ Shapes(g) /\ ValuesReady(g)

-----------------------------------------------------------------------------
\* A get in progress.

\* The dependency d has a result of context x.
Known(g, d, x) == x \in DOMAIN g[d].cache

Getting == {"collect", "deps", "evaluate", "store", "read", "await"}

ReadingOK(g, f) ==
  /\ f.at = "read" => Kind[f.cell] # "formula"
  /\ f.at \in {"collect", "deps", "evaluate"} => Kind[f.cell] = "formula"
  /\ f.at = "deps" => f.near = g[f.cell].deps /\ f.todo \subseteq f.near \cap Formulas
  /\ f.at = "evaluate" =>
       f.seen = [d \in g[f.cell].deps |-> Worth(g, f.ctx)[d].data]
  /\ f.at = "store" =>
       f.data = IF Kind[f.cell] = "formula" THEN Worth(g, f.ctx)[f.cell] ELSE g[f.cell].value
  /\ f.at \in {"await", "store"} /\ Kind[f.cell] = "value" => f.cell \in Callable

GetFrameOK(g, f) ==
  FrameShape(f) /\ f.at \in Getting /\ f.cell \in DOMAIN g /\ ReadingOK(g, f)

\* The dependencies frame f has been through, but e, have results.
BeenThrough(g, f, E) == \A d \in (f.near \cap Formulas) \ f.todo : Known(g, d, f.ctx) \/ d \in E

\* Frame f waits for the one above it, e.
WaitsFor(g, f, e) ==
  /\ f.at \in {"deps", "await"} /\ e.ctx = f.ctx /\ e.at # "await"
  /\ f.at = "await" => e.cell = f.cell
  /\ f.at = "deps" =>
       /\ Kind[e.cell] = "formula" /\ e.at \in {"collect", "deps", "evaluate", "store"}
       /\ BeenThrough(g, f, {e.cell})

Chain(g, s) ==
  /\ \A i \in 1..Len(s) : GetFrameOK(g, s[i])
  /\ \A i \in 1..(Len(s) - 1) : WaitsFor(g, s[i + 1], s[i])

TopOK(g, f) == f.at # "await" /\ (f.at = "deps" => BeenThrough(g, f, {}))

GetStack(g, s) == s # << >> /\ Chain(g, s) /\ TopOK(g, s[1])

Writing == {"push", "notify", "send", "propagate", "mark", "recurse"}

WriteFrameOK(g, f) ==
  /\ FrameShape(f) /\ f.at \in Writing
  /\ f.at = "push" => f.cell \in DOMAIN g /\ Kind[f.cell] \in {"sensor", "io"}
  /\ f.at = "mark" => f.todo \subseteq f.near /\ \A d \in f.near : MayNeed(d) # {}

WriteStack(g, s) == \A i \in 1..Len(s) : WriteFrameOK(g, s[i])

SeqInv(g, s) ==
  /\ Graph(g) /\ FreshBut(g, Unmarked(g, s))
  /\ Sequence(s) /\ (GetStack(g, s) \/ WriteStack(g, s))

SeqInvNow ==
  stack = [t \in Thread |-> stack[t]] /\ \A t \in Thread : SeqInv(cells, stack[t])

-----------------------------------------------------------------------------
\* What worth is.

Inputs(g, w, c) == [d \in g[c].deps |-> w[d].data]

WorthOf(g, x, w, c) ==
  IF Kind[c] = "formula" THEN Evaluated(c, x, Inputs(g, w, c)) ELSE g[c].value

IsWorth(g, x, w) == w = [c \in DOMAIN g |-> WorthOf(g, x, w, c)]

\* w is worth as far as cells of rank below m go.
WorthBelow(g, x, rank, m, w) ==
  w = [c \in DOMAIN g |-> IF rank[c] < m THEN WorthOf(g, x, w, c) ELSE NoData]

LEMMA BelowMore ==
  ASSUME NEW n, NEW rank, Ranked(n, rank), NEW g, Edges(g), NEW x, NEW m \in Nat,
         NEW w, WorthBelow(g, x, rank, m, w)
  PROVE  \E v : WorthBelow(g, x, rank, m + 1, v)
<1>1. PICK v : v = [c \in DOMAIN g |-> IF rank[c] < m + 1 THEN WorthOf(g, x, w, c) ELSE NoData]
  OBVIOUS
<1>2. ASSUME NEW c \in DOMAIN g, rank[c] < m + 1
      PROVE  WorthOf(g, x, w, c) = WorthOf(g, x, v, c)
  <2>1. \A d \in g[c].deps : d \in DOMAIN g /\ rank[d] < rank[c] /\ rank[d] \in Nat
    BY DEF Edges, Ranked
  <2>2. rank[c] \in Nat
    BY DEF Edges, Ranked
  <2>3. \A d \in g[c].deps : rank[d] < m /\ rank[d] < m + 1
    BY <1>2, <2>1, <2>2
  <2>4. \A d \in g[c].deps : w[d] = WorthOf(g, x, w, d)
    BY <2>1, <2>3 DEF WorthBelow
  <2>5. \A d \in g[c].deps : v[d] = WorthOf(g, x, w, d)
    BY <1>1, <2>1, <2>3
  <2>6. Inputs(g, w, c) = Inputs(g, v, c)
    BY <2>4, <2>5 DEF Inputs
  <2> QED BY <2>6 DEF WorthOf
<1>3. v = [c \in DOMAIN g |-> IF rank[c] < m + 1 THEN WorthOf(g, x, v, c) ELSE NoData]
  BY <1>1, <1>2
<1> QED BY <1>3 DEF WorthBelow

LEMMA WorthIs ==
  ASSUME OneAtATime, NEW g, Edges(g), NEW x
  PROVE  IsWorth(g, x, Worth(g, x))
<1>1. PICK n, rank : Ranked(n, rank)
  BY DEF OneAtATime
<1> DEFINE S == {m \in Nat : \E w : WorthBelow(g, x, rank, m, w)}
<1>2. 0 \in S
  <2>1. PICK w : w = [c \in DOMAIN g |-> NoData]
    OBVIOUS
  <2>2. \A c \in DOMAIN g : ~ (rank[c] < 0)
    BY <1>1 DEF Edges, Ranked
  <2>3. WorthBelow(g, x, rank, 0, w)
    BY <2>1, <2>2 DEF WorthBelow
  <2> QED BY <2>3
<1>3. ASSUME NEW m \in S PROVE m + 1 \in S
  BY <1>1, <1>3, BelowMore
<1>4. S = Nat
  <2>1. S \in SUBSET Nat
    OBVIOUS
  <2> HIDE DEF S
  <2> QED BY <1>2, <1>3, <2>1, Induct
<1>5. PICK w : WorthBelow(g, x, rank, n + 1, w)
  <2>1. n + 1 \in Nat
    BY <1>1 DEF Ranked
  <2> QED BY <1>4, <2>1
<1>6. \A c \in DOMAIN g : rank[c] < n + 1
  BY <1>1 DEF Edges, Ranked
<1>7. IsWorth(g, x, w)
  BY <1>5, <1>6 DEF WorthBelow, IsWorth
<1>8. Worth(g, x) = CHOOSE v : IsWorth(g, x, v)
  BY Zenon DEF Worth, IsWorth, WorthOf, Inputs
<1> QED BY <1>7, <1>8, Zenon

\* Cells that need only cells of R, and are the same in both graphs, are worth
\* the same in both.
Alike(g, h, R) ==
  /\ R \subseteq DOMAIN g /\ R \subseteq DOMAIN h
  /\ \A c \in R : IF Kind[c] = "formula" THEN g[c].deps = h[c].deps /\ g[c].deps \subseteq R
                  ELSE g[c].value = h[c].value

LEMMA WorthAgrees ==
  ASSUME OneAtATime, NEW g, Edges(g), NEW h, Edges(h), NEW x, NEW R, Alike(g, h, R),
         NEW a \in R
  PROVE  Worth(g, x)[a] = Worth(h, x)[a]
<1>1. PICK n, rank : Ranked(n, rank)
  BY DEF OneAtATime
<1>2. PICK v, w : v = Worth(g, x) /\ w = Worth(h, x) /\ IsWorth(g, x, v) /\ IsWorth(h, x, w)
  BY WorthIs
<1> DEFINE S == {m \in Nat : \A c \in R : rank[c] < m => v[c] = w[c]}
<1>3. 0 \in S
  BY <1>1 DEF Alike, Edges, Ranked
<1>4. ASSUME NEW m \in S PROVE m + 1 \in S
  <2> SUFFICES ASSUME NEW c \in R, rank[c] < m + 1 PROVE v[c] = w[c]
    OBVIOUS
  <2>1. c \in DOMAIN g /\ c \in DOMAIN h /\ rank[c] \in Nat
    BY <1>1 DEF Alike, Edges, Ranked
  <2>2. v[c] = WorthOf(g, x, v, c) /\ w[c] = WorthOf(h, x, w, c)
    BY <1>2, <2>1 DEF IsWorth
  <2>3. CASE Kind[c] = "formula"
    <3>1. g[c].deps = h[c].deps /\ g[c].deps \subseteq R
      BY <2>3 DEF Alike
    <3>2. \A d \in g[c].deps : rank[d] < rank[c] /\ rank[d] \in Nat
      BY <1>1, <2>1 DEF Edges, Ranked
    <3>3. \A d \in g[c].deps : v[d] = w[d]
      BY <2>1, <3>1, <3>2
    <3>4. Inputs(g, v, c) = Inputs(h, w, c)
      BY <3>1, <3>3 DEF Inputs
    <3> QED BY <2>2, <2>3, <3>4 DEF WorthOf
  <2>4. CASE Kind[c] # "formula"
    BY <2>2, <2>4 DEF WorthOf, Alike
  <2> QED BY <2>3, <2>4
<1>5. S = Nat
  <2>1. S \in SUBSET Nat
    OBVIOUS
  <2> HIDE DEF S
  <2> QED BY <1>3, <1>4, <2>1, Induct
<1>6. rank[a] + 1 \in Nat /\ rank[a] < rank[a] + 1
  BY <1>1 DEF Alike, Edges, Ranked
<1> QED BY <1>2, <1>5, <1>6

\* What a formula and another cell are worth.
LEMMA WorthParts ==
  ASSUME OneAtATime, NEW g, Edges(g), NEW x, NEW c \in DOMAIN g
  PROVE  Worth(g, x)[c] =
           IF Kind[c] = "formula"
           THEN Evaluated(c, x, [d \in g[c].deps |-> Worth(g, x)[d].data])
           ELSE g[c].value
<1>1. PICK w : w = Worth(g, x) /\ IsWorth(g, x, w)
  BY WorthIs
<1>2. w[c] = WorthOf(g, x, w, c)
  BY <1>1 DEF IsWorth
<1> QED BY <1>1, <1>2 DEF WorthOf, Inputs

-----------------------------------------------------------------------------
\* What comes after a cell.

\* A set propagate has no need to leave, once it has started from A.
Covers(g, A, S) == Closed(g, S) /\ \A e \in A \cap DOMAIN g : g[e].dependents \subseteq S

LEMMA AfterIs ==
  ASSUME NEW g, NEW A, NEW d
  PROVE  d \in After(g, A) <=> d \in Cell /\ \A S \in SUBSET Cell : Covers(g, A, S) => d \in S
BY Zenon DEF After, Covers

LEMMA AfterMore ==
  ASSUME NEW g, NEW A, NEW B, A \subseteq B
  PROVE  After(g, A) \subseteq After(g, B)
<1> SUFFICES ASSUME NEW d \in After(g, A), NEW S \in SUBSET Cell, Covers(g, B, S)
             PROVE  d \in S
  <2>1. ASSUME NEW d \in After(g, A) PROVE d \in Cell
    BY <2>1, AfterIs
  <2> QED BY <2>1, AfterIs
<1>1. Covers(g, A, S)
  BY DEF Covers
<1> QED BY <1>1, AfterIs

LEMMA NothingAfter ==
  ASSUME NEW g, NEW A, A \cap DOMAIN g = {}
  PROVE  After(g, A) = {}
<1> SUFFICES ASSUME NEW d \in After(g, A) PROVE FALSE
  OBVIOUS
<1>1. {} \in SUBSET Cell /\ Covers(g, A, {})
  BY DEF Covers, Closed
<1>2. d \in {}
  BY <1>1, AfterIs
<1> QED BY <1>2

\* What depends on a cell comes after it,
LEMMA DependentsAfter ==
  ASSUME NEW g, Edges(g), NEW A, NEW c \in A \cap DOMAIN g
  PROVE  g[c].dependents \subseteq After(g, A)
<1> SUFFICES ASSUME NEW d \in g[c].dependents PROVE d \in After(g, A)
  OBVIOUS
<1>1. d \in Cell
  BY DEF Edges
<1>2. ASSUME NEW S \in SUBSET Cell, Covers(g, A, S) PROVE d \in S
  BY <1>2 DEF Covers
<1> QED BY <1>1, <1>2, AfterIs

\* and so does what depends on what comes after it.
LEMMA AfterClosed ==
  ASSUME NEW g, Edges(g), NEW A
  PROVE  Closed(g, After(g, A))
<1> SUFFICES ASSUME NEW e \in After(g, A) \cap DOMAIN g, NEW d \in g[e].dependents
             PROVE  d \in After(g, A)
  BY DEF Closed
<1>1. d \in Cell
  BY DEF Edges
<1>2. ASSUME NEW S \in SUBSET Cell, Covers(g, A, S) PROVE d \in S
  <2>1. e \in S
    BY <1>2, AfterIs
  <2> QED BY <1>2, <2>1 DEF Covers, Closed
<1> QED BY <1>1, <1>2, AfterIs

\* After a cell there are its dependents and what comes after them.
LEMMA AfterOne ==
  ASSUME NEW g, Edges(g), NEW c \in DOMAIN g
  PROVE  After(g, {c}) \subseteq g[c].dependents \cup After(g, g[c].dependents)
<1> DEFINE D == g[c].dependents
<1> SUFFICES ASSUME NEW d \in After(g, {c}), d \notin D, NEW S \in SUBSET Cell, Covers(g, D, S)
             PROVE  d \in S
  <2>1. ASSUME NEW d \in After(g, {c}) PROVE d \in Cell
    BY <2>1, AfterIs
  <2> QED BY <2>1, AfterIs
<1>1. D \subseteq DOMAIN g /\ DOMAIN g \subseteq Cell
  BY DEF Edges
<1> HIDE DEF D
<1>2. Closed(g, S \cup D)
  BY <1>1 DEF Covers, Closed
<1>3. Covers(g, {c}, S \cup D)
  BY <1>2 DEF Covers, D
<1>4. d \in S \cup D
  BY <1>1, <1>3, AfterIs
<1> QED BY <1>4

\* After some cells there is what comes after one of them or the others.
LEMMA AfterSplit ==
  ASSUME NEW g, NEW A, NEW a
  PROVE  After(g, A) \subseteq After(g, {a}) \cup After(g, A \ {a})
<1> SUFFICES ASSUME NEW d \in After(g, A), d \notin After(g, {a}), d \notin After(g, A \ {a})
             PROVE  FALSE
  OBVIOUS
<1>1. d \in Cell
  BY AfterIs
<1>2. PICK S \in SUBSET Cell : Covers(g, {a}, S) /\ d \notin S
  BY <1>1, AfterIs
<1>3. PICK T \in SUBSET Cell : Covers(g, A \ {a}, T) /\ d \notin T
  BY <1>1, AfterIs
<1>4. Closed(g, S \cup T)
  BY <1>2, <1>3 DEF Covers, Closed
<1>5. ASSUME NEW e \in A \cap DOMAIN g PROVE g[e].dependents \subseteq S \cup T
  BY <1>2, <1>3 DEF Covers
<1>6. Covers(g, A, S \cup T)
  BY <1>4, <1>5 DEF Covers
<1>7. d \in S \cup T
  BY <1>6, AfterIs
<1> QED BY <1>2, <1>3, <1>7

-----------------------------------------------------------------------------
\* Updates of the graph.

\* Only the value and the cached results of c may differ.
Changed(g, h, c) ==
  /\ Shapes(h) /\ DOMAIN h = DOMAIN g
  /\ \A e \in DOMAIN g : h[e].deps = g[e].deps /\ h[e].dependents = g[e].dependents
  /\ \A e \in DOMAIN g : e # c => h[e].value = g[e].value /\ h[e].cache = g[e].cache

LEMMA SameEdges ==
  ASSUME NEW g, NEW h, NEW c, Edges(g), Changed(g, h, c)
  PROVE  Edges(h)
BY DEF Edges, Changed

LEMMA SameAfter ==
  ASSUME NEW g, NEW h, NEW c, Edges(g), Changed(g, h, c), NEW A
  PROVE  After(h, A) = After(g, A)
<1>1. \A S : Covers(g, A, S) <=> Covers(h, A, S)
  BY DEF Covers, Closed, Changed
<1>2. \A d : d \in After(g, A) <=> d \in After(h, A)
  BY <1>1, AfterIs, Zenon
<1> QED BY <1>2

LEMMA SamePending ==
  ASSUME NEW g, NEW h, NEW c, Edges(g), Changed(g, h, c), NEW f
  PROVE  Pending(h, f) = Pending(g, f)
<1>1. After(h, {f.cell}) = After(g, {f.cell}) /\ After(h, f.near) = After(g, f.near)
      /\ After(h, f.todo) = After(g, f.todo)
  BY SameAfter
<1> QED BY <1>1, Zenon DEF Pending

LEMMA SameUnmarked ==
  ASSUME NEW g, NEW h, NEW c, Edges(g), Changed(g, h, c), NEW s
  PROVE  Unmarked(h, s) = Unmarked(g, s)
<1>1. \A i \in 1..Len(s) : Pending(h, s[i]) = Pending(g, s[i])
  BY SamePending
<1> QED BY <1>1 DEF Unmarked

LEMMA PutCell ==
  ASSUME NEW g, Shapes(g), NEW c \in DOMAIN g, NEW m, CellShape(m),
         m.deps = g[c].deps, m.dependents = g[c].dependents
  PROVE  LET h == [g EXCEPT ![c] = m] IN Changed(g, h, c) /\ h[c] = m
BY DEF Changed, Shapes

LEMMA ResetAt ==
  ASSUME NEW g, Shapes(g), NEW c \in DOMAIN g, NEW v
  PROVE  LET h == Reset(g, c, v) IN
         Changed(g, h, c) /\ h[c].value = v /\ h[c].cache = << >>
<1> DEFINE a == [g[c] EXCEPT !.value = v]
           m == [a EXCEPT !.cache = << >>]
           h == [g EXCEPT ![c] = m]
<1>1. CellShape(g[c]) /\ g = [e \in DOMAIN g |-> g[e]]
  BY DEF Shapes
<1>2. Reset(g, c, v) = h
  BY <1>1 DEF Reset
<1>3. CellShape(a) /\ a.deps = g[c].deps /\ a.dependents = g[c].dependents /\ a.value = v
  BY <1>1 DEF CellShape
<1> HIDE DEF a
<1>4. CellShape(m) /\ m.deps = a.deps /\ m.dependents = a.dependents /\ m.value = a.value
      /\ m.cache = << >>
  BY <1>3 DEF CellShape
<1> HIDE DEF m
<1>5. Changed(g, h, c) /\ h[c] = m
  BY <1>3, <1>4, PutCell
<1> HIDE DEF h
<1> QED BY <1>2, <1>3, <1>4, <1>5

LEMMA PushedAt ==
  ASSUME NEW g, Shapes(g), NEW c \in DOMAIN g, NEW v
  PROVE  LET h == Pushed(g, c, v) IN
         Changed(g, h, c) /\ h[c].value = v /\ h[c].cache = g[c].cache
<1> DEFINE m == [g[c] EXCEPT !.value = v]
           h == [g EXCEPT ![c] = m]
<1>1. CellShape(g[c]) /\ g = [e \in DOMAIN g |-> g[e]]
  BY DEF Shapes
<1>2. Pushed(g, c, v) = h
  BY <1>1 DEF Pushed
<1>3. CellShape(m) /\ m.deps = g[c].deps /\ m.dependents = g[c].dependents /\ m.value = v
      /\ m.cache = g[c].cache
  BY <1>1 DEF CellShape
<1> HIDE DEF m
<1>5. Changed(g, h, c) /\ h[c] = m
  BY <1>3, PutCell
<1> HIDE DEF h
<1> QED BY <1>2, <1>3, <1>5

LEMMA StoredAt ==
  ASSUME NEW g, Shapes(g), NEW c \in DOMAIN g, NEW x, NEW v
  PROVE  LET h == Stored(g, c, x, v) IN
         /\ Changed(g, h, c) /\ h[c].value = v /\ DOMAIN h[c].cache = DOMAIN g[c].cache \cup {x}
         /\ h[c].cache[x] = v
         /\ \A y \in DOMAIN g[c].cache : y # x => h[c].cache[y] = g[c].cache[y]
<1> DEFINE old == g[c].cache
           new == [y \in DOMAIN old \cup {x} |-> IF y = x THEN v ELSE old[y]]
           a == [g[c] EXCEPT !.value = v]
           m == [a EXCEPT !.cache = new]
           h == [g EXCEPT ![c] = m]
<1>1. CellShape(g[c]) /\ g = [e \in DOMAIN g |-> g[e]]
  BY DEF Shapes
<1>2. Cached(g[c], x, v) = m
  BY <1>1 DEF Cached, CellShape
<1>3. DOMAIN new = DOMAIN old \cup {x} /\ new[x] = v
      /\ \A y \in DOMAIN old : y # x => new[y] = old[y]
  OBVIOUS
<1> HIDE DEF new
<1>4. Stored(g, c, x, v) = h
  BY <1>2 DEF Stored
<1>5. CellShape(a) /\ a.deps = g[c].deps /\ a.dependents = g[c].dependents /\ a.value = v
  BY <1>1 DEF CellShape
<1> HIDE DEF a
<1>6. CellShape(m) /\ m.deps = a.deps /\ m.dependents = a.dependents /\ m.value = a.value
      /\ m.cache = new
  BY <1>5 DEF CellShape
<1> HIDE DEF m
<1>7. Changed(g, h, c) /\ h[c] = m
  BY <1>5, <1>6, PutCell
<1> HIDE DEF h
<1> QED BY <1>3, <1>4, <1>5, <1>6, <1>7

-----------------------------------------------------------------------------
\* What an update of the graph leaves fresh.

\* A write to a cell matters to what comes after it and to nothing else.
LEMMA WorthOutside ==
  ASSUME OneAtATime, NEW g, Edges(g), NEW c, NEW h, Changed(g, h, c), NEW x,
         NEW a \in DOMAIN g, a # c, a \notin After(g, {c})
  PROVE  Worth(g, x)[a] = Worth(h, x)[a]
<1> DEFINE R == {e \in DOMAIN g : e # c /\ e \notin After(g, {c})}
<1>1. Edges(h)
  BY SameEdges
<1>2. ASSUME NEW e \in R, NEW d \in g[e].deps PROVE d \in R
  <2>1. d \in DOMAIN g /\ e \in g[d].dependents
    BY <1>2 DEF Edges
  <2>2. d # c
    BY <1>2, <2>1, DependentsAfter
  <2>3. d \notin After(g, {c})
    BY <1>2, <2>1, AfterClosed DEF Closed
  <2> QED BY <2>1, <2>2, <2>3
<1>3. a \in R /\ R \subseteq DOMAIN g /\ c \notin R
  OBVIOUS
<1> HIDE DEF R
<1>4. Alike(g, h, R)
  BY <1>2, <1>3 DEF Alike, Changed
<1> QED BY <1>1, <1>3, <1>4, WorthAgrees

\* The value of a formula, or one that stays, matters to nothing.
LEMMA WorthSame ==
  ASSUME OneAtATime, NEW g, Edges(g), NEW c \in DOMAIN g, NEW h, Changed(g, h, c),
         Kind[c] = "formula" \/ h[c].value = g[c].value, NEW x, NEW a \in DOMAIN g
  PROVE  Worth(g, x)[a] = Worth(h, x)[a]
<1>1. Edges(h)
  BY SameEdges
<1>2. Alike(g, h, DOMAIN g)
  BY DEF Alike, Changed, Edges
<1> QED BY <1>1, <1>2, WorthAgrees

\* After a write that clears the cache, what comes after the cell is no more
\* fresh than propagate makes it; the cell itself is.
LEMMA FreshAfterWrite ==
  ASSUME OneAtATime, NEW g, Edges(g), NEW U, FreshBut(g, U), NEW c \in DOMAIN g,
         NEW h, Changed(g, h, c), Kind[c] = "formula" => h[c].cache = << >>,
         NEW V, U \ {c} \subseteq V, After(g, {c}) \subseteq V
  PROVE  FreshBut(h, V)
<1> SUFFICES ASSUME NEW a \in Formulas \cap DOMAIN h, a \notin V PROVE FreshIn(h, a)
  BY DEF FreshBut
<1>1. CASE a = c
  <2>1. h[a].cache = << >>
    BY <1>1 DEF Formulas
  <2>2. DOMAIN h[a].cache = {}
    BY <2>1
  <2> QED BY <2>2 DEF FreshIn
<1>2. CASE a # c
  <2>1. a \in DOMAIN g /\ h[a].cache = g[a].cache /\ a \notin U /\ a \notin After(g, {c})
    BY <1>2 DEF Changed
  <2>2. FreshIn(g, a)
    BY <2>1 DEF FreshBut
  <2>3. \A x : Worth(g, x)[a] = Worth(h, x)[a]
    BY <1>2, <2>1, WorthOutside
  <2> QED BY <2>1, <2>2, <2>3 DEF FreshIn
<1> QED BY <1>1, <1>2

\* Storing what a cell is worth leaves all fresh.
LEMMA FreshAfterStore ==
  ASSUME OneAtATime, NEW g, Edges(g), Shapes(g), FreshBut(g, {}), NEW c \in DOMAIN g, NEW x, NEW v,
         v = IF Kind[c] = "formula" THEN Worth(g, x)[c] ELSE g[c].value,
         NEW h, h = Stored(g, c, x, v)
  PROVE  FreshBut(h, {}) /\ \A y : \A a \in DOMAIN g : Worth(h, y)[a] = Worth(g, y)[a]
<1>1. /\ Changed(g, h, c) /\ h[c].value = v /\ DOMAIN h[c].cache = DOMAIN g[c].cache \cup {x}
      /\ h[c].cache[x] = v
      /\ \A y \in DOMAIN g[c].cache : y # x => h[c].cache[y] = g[c].cache[y]
  BY StoredAt
<1>2. Kind[c] = "formula" \/ h[c].value = g[c].value
  BY <1>1
<1>3. \A y : \A a \in DOMAIN g : Worth(h, y)[a] = Worth(g, y)[a]
  BY <1>1, <1>2, WorthSame
<1>4. ASSUME NEW a \in Formulas \cap DOMAIN h PROVE FreshIn(h, a)
  <2>1. a \in DOMAIN g /\ FreshIn(g, a) /\ Kind[a] = "formula"
    BY <1>1, <1>4 DEF FreshBut, Changed, Formulas
  <2>2. CASE a = c
    BY <1>1, <1>3, <2>1, <2>2 DEF FreshIn
  <2>3. CASE a # c
    <3>1. h[a].cache = g[a].cache
      BY <1>1, <2>1, <2>3 DEF Changed
    <3> QED BY <1>3, <2>1, <3>1 DEF FreshIn
  <2> QED BY <2>2, <2>3
<1> QED BY <1>3, <1>4 DEF FreshBut

\* A called value stays ready unless it is marked stale, and so does what is
\* cached of it if it is cached anew.
LEMMA ReadyAfter ==
  ASSUME NEW g, ValuesReady(g), NEW c, NEW h, Changed(g, h, c),
         c \in Callable /\ Kind[c] = "value" =>
           /\ h[c].value.status = "ready"
           /\ \A x \in DOMAIN h[c].cache : h[c].cache[x] = h[c].value
  PROVE  ValuesReady(h)
<1> SUFFICES ASSUME NEW a \in Callable \cap DOMAIN h, Kind[a] = "value"
             PROVE  /\ h[a].value.status = "ready"
                    /\ \A x \in DOMAIN h[a].cache : h[a].cache[x] = h[a].value
  BY DEF ValuesReady
<1>1. CASE a = c
  BY <1>1
<1>2. CASE a # c
  BY <1>2 DEF ValuesReady, Changed
<1> QED BY <1>1, <1>2

-----------------------------------------------------------------------------
\* The graphs load_sheet and register make.

LEMMA LinkedAt ==
  ASSUME NEW g, Shapes(g), NEW pairs, NEW h, h = Linked(g, pairs)
  PROVE  /\ Shapes(h) /\ DOMAIN h = DOMAIN g
         /\ \A c \in DOMAIN g :
              /\ h[c].value = g[c].value /\ h[c].cache = g[c].cache
              /\ h[c].deps = g[c].deps \cup {p[2] : p \in {q \in pairs : q[1] = c}}
              /\ h[c].dependents = g[c].dependents \cup {p[1] : p \in {q \in pairs : q[2] = c}}
<1>1. DOMAIN h = DOMAIN g /\ h = [c \in DOMAIN h |-> h[c]]
  BY DEF Linked
<1>2. ASSUME NEW c \in DOMAIN g
      PROVE  /\ CellShape(h[c]) /\ h[c].value = g[c].value /\ h[c].cache = g[c].cache
             /\ h[c].deps = g[c].deps \cup {p[2] : p \in {q \in pairs : q[1] = c}}
             /\ h[c].dependents = g[c].dependents \cup {p[1] : p \in {q \in pairs : q[2] = c}}
  <2> DEFINE down == {p[2] : p \in {q \in pairs : q[1] = c}}
             up == {p[1] : p \in {q \in pairs : q[2] = c}}
             a == [g[c] EXCEPT !.deps = g[c].deps \cup down]
             b == [a EXCEPT !.dependents = g[c].dependents \cup up]
  <2>1. CellShape(g[c])
    BY DEF Shapes
  <2>2. h[c] = b
    BY <2>1 DEF Linked, CellShape
  <2> HIDE DEF down, up
  <2>3. CellShape(a) /\ a.value = g[c].value /\ a.cache = g[c].cache
        /\ a.deps = g[c].deps \cup down
    BY <2>1 DEF CellShape
  <2> HIDE DEF a
  <2>4. CellShape(b) /\ b.value = a.value /\ b.cache = a.cache /\ b.deps = a.deps
        /\ b.dependents = g[c].dependents \cup up
    BY <2>3 DEF CellShape
  <2> HIDE DEF b
  <2> QED BY <2>2, <2>3, <2>4 DEF up, down
<1> QED BY <1>1, <1>2 DEF Shapes

LEMMA LinkedEdges ==
  ASSUME NEW g, Shapes(g), Edges(g), NEW pairs, NEW h, h = Linked(g, pairs),
         \A p \in pairs : p[1] \in DOMAIN g /\ p[2] \in DOMAIN g \cap MayNeed(p[1])
  PROVE  Edges(h)
<1>1. /\ DOMAIN h = DOMAIN g
      /\ \A c \in DOMAIN g :
           /\ h[c].deps = g[c].deps \cup {p[2] : p \in {q \in pairs : q[1] = c}}
           /\ h[c].dependents = g[c].dependents \cup {p[1] : p \in {q \in pairs : q[2] = c}}
  BY LinkedAt
<1>2. DOMAIN h \subseteq Cell
  BY <1>1 DEF Edges
<1>3. ASSUME NEW c \in DOMAIN g
      PROVE  h[c].deps \subseteq DOMAIN g /\ h[c].deps \subseteq MayNeed(c)
  BY <1>1 DEF Edges
<1>4. ASSUME NEW c \in DOMAIN g
      PROVE  h[c].dependents = {d \in DOMAIN g : c \in h[d].deps}
  <2>1. ASSUME NEW d \in h[c].dependents PROVE d \in DOMAIN g /\ c \in h[d].deps
    <3>1. CASE d \in g[c].dependents
      BY <1>1, <3>1 DEF Edges
    <3>2. CASE d \notin g[c].dependents
      <4>1. PICK p \in pairs : p[2] = c /\ p[1] = d
        BY <1>1, <2>1, <3>2
      <4> QED BY <1>1, <4>1
    <3> QED BY <3>1, <3>2
  <2>2. ASSUME NEW d \in DOMAIN g, c \in h[d].deps PROVE d \in h[c].dependents
    <3>1. CASE c \in g[d].deps
      <4>1. d \in g[c].dependents
        BY <3>1 DEF Edges
      <4> QED BY <1>1, <4>1
    <3>2. CASE c \notin g[d].deps
      <4>1. PICK p \in pairs : p[1] = d /\ p[2] = c
        BY <1>1, <2>2, <3>2
      <4> QED BY <1>1, <4>1
    <3> QED BY <3>1, <3>2
  <2> QED BY <2>1, <2>2
<1> QED BY <1>1, <1>2, <1>3, <1>4 DEF Edges

\* A new cell.
LEMMA NewAt ==
  ASSUME NEW c
  PROVE  LET n == NewCell(c) IN
         /\ CellShape(n) /\ n.deps = {} /\ n.dependents = {} /\ n.cache = << >>
         /\ DOMAIN n.cache = {} /\ (Kind[c] = "value" => n.value.status = "ready")
BY DEF NewCell, CellShape, ReadyValue

LEMMA LoadedGraph ==
  ASSUME EngineAssumption, NEW sheet \in Sheets, NEW h, h = Loaded(sheet)
  PROVE  Graph(h) /\ FreshBut(h, {})
<1> DEFINE pairs == UNION {PairsOf(c, Declared[c] \cup (Mentioned[c] \ {c}), sheet) : c \in sheet}
<1>1. PICK g : g = [c \in sheet |-> NewCell(c)]
  OBVIOUS
<1>2. sheet \subseteq Cell
  BY DEF EngineAssumption
<1>3. /\ DOMAIN g = sheet
      /\ \A c \in sheet : /\ CellShape(g[c]) /\ g[c].deps = {} /\ g[c].dependents = {}
                          /\ DOMAIN g[c].cache = {}
                          /\ Kind[c] = "value" => g[c].value.status = "ready"
  BY <1>1, NewAt
<1>4. Shapes(g) /\ Edges(g)
  <2>1. g = [c \in DOMAIN g |-> g[c]]
    BY <1>1
  <2> QED BY <1>2, <1>3, <2>1 DEF Shapes, Edges
<1>5. \A p \in pairs : p[1] \in DOMAIN g /\ p[2] \in DOMAIN g \cap MayNeed(p[1])
  BY <1>3 DEF PairsOf, MayNeed
<1>6. h = Linked(g, pairs)
  BY <1>1 DEF Loaded
<1> HIDE DEF pairs
<1>7. /\ Edges(h) /\ Shapes(h) /\ DOMAIN h = DOMAIN g
      /\ \A c \in DOMAIN g : h[c].value = g[c].value /\ h[c].cache = g[c].cache
  BY <1>4, <1>5, <1>6, LinkedEdges, LinkedAt
<1>8. ValuesReady(h)
  BY <1>3, <1>7 DEF ValuesReady
<1>9. FreshBut(h, {})
  BY <1>3, <1>7 DEF FreshBut, FreshIn
<1> QED BY <1>7, <1>8, <1>9 DEF Graph

LEMMA RegisteredGraph ==
  ASSUME EngineAssumption, OneAtATime, NEW g, Graph(g), FreshBut(g, {}), NEW c \in Cell,
         c \notin DOMAIN g, NEW h, h = Registered(g, c)
  PROVE  Graph(h) /\ FreshBut(h, {})
<1>1. PICK f : f = [d \in DOMAIN g \cup {c} |-> IF d = c THEN NewCell(c) ELSE g[d]]
  OBVIOUS
<1>2. PICK n : n = NewCell(c) /\ CellShape(n) /\ n.deps = {} /\ n.dependents = {}
               /\ DOMAIN n.cache = {} /\ (Kind[c] = "value" => n.value.status = "ready")
  BY NewAt
<1>3. DOMAIN f = DOMAIN g \cup {c} /\ f[c] = n /\ \A d \in DOMAIN g : f[d] = g[d]
  BY <1>1, <1>2
<1>4. Shapes(f)
  <2>1. f = [d \in DOMAIN f |-> f[d]]
    BY <1>1
  <2> QED BY <1>2, <1>3, <2>1 DEF Shapes, Graph
<1>5. Edges(f)
  <2>1. Edges(g)
    BY DEF Graph
  <2>2. DOMAIN f \subseteq Cell
    BY <1>3, <2>1 DEF Edges
  <2>3. \A d \in DOMAIN f : f[d].deps \subseteq DOMAIN f /\ f[d].deps \subseteq MayNeed(d)
    BY <1>2, <1>3, <2>1 DEF Edges
  <2>4. ASSUME NEW d \in DOMAIN f PROVE f[d].dependents = {e \in DOMAIN f : d \in f[e].deps}
    <3>1. CASE d = c
      <4>1. \A e \in DOMAIN f : c \notin f[e].deps
        BY <1>2, <1>3, <2>1 DEF Edges
      <4> QED BY <1>2, <1>3, <3>1, <4>1
    <3>2. CASE d # c
      <4>1. f[d].dependents = {e \in DOMAIN g : d \in g[e].deps}
        BY <1>3, <2>1, <3>2 DEF Edges
      <4> QED BY <1>2, <1>3, <4>1
    <3> QED BY <3>1, <3>2
  <2> QED BY <2>2, <2>3, <2>4 DEF Edges
<1>6. PICK pairs : pairs = PairsOf(c, Declared[c], DOMAIN f)
  OBVIOUS
<1>7. /\ \A p \in pairs : p[1] \in DOMAIN f /\ p[2] \in DOMAIN f \cap MayNeed(p[1])
      /\ \A p \in pairs : p[1] = c
  BY <1>3, <1>6 DEF PairsOf, MayNeed
<1>8. h = Linked(f, pairs)
  BY <1>1, <1>6, Zenon DEF Registered
<1>9. /\ Edges(h) /\ Shapes(h) /\ DOMAIN h = DOMAIN f
      /\ \A d \in DOMAIN f :
           /\ h[d].value = f[d].value /\ h[d].cache = f[d].cache
           /\ h[d].deps = f[d].deps \cup {p[2] : p \in {q \in pairs : q[1] = d}}
  BY <1>4, <1>5, <1>7, <1>8, LinkedEdges, LinkedAt
<1>10. ValuesReady(h)
  <2> SUFFICES ASSUME NEW a \in Callable \cap DOMAIN h, Kind[a] = "value"
               PROVE  /\ h[a].value.status = "ready"
                      /\ \A x \in DOMAIN h[a].cache : h[a].cache[x] = h[a].value
    BY DEF ValuesReady
  <2>1. CASE a = c
    BY <1>2, <1>3, <1>9, <2>1
  <2>2. CASE a # c
    BY <1>3, <1>9, <2>2 DEF ValuesReady, Graph
  <2> QED BY <2>1, <2>2
<1>11. \A d \in DOMAIN g : h[d].deps = g[d].deps
  <2> SUFFICES ASSUME NEW d \in DOMAIN g PROVE h[d].deps = g[d].deps
    OBVIOUS
  <2>1. {p[2] : p \in {q \in pairs : q[1] = d}} = {}
    BY <1>7
  <2>2. f[d].deps = g[d].deps /\ d \in DOMAIN f
    BY <1>3
  <2>3. h[d].deps = f[d].deps \cup {p[2] : p \in {q \in pairs : q[1] = d}}
    BY <1>9, <2>2
  <2> QED BY <2>1, <2>2, <2>3
<1>12. Alike(g, h, DOMAIN g)
  BY <1>3, <1>9, <1>11 DEF Alike, Edges, Graph
<1>13. ASSUME NEW a \in Formulas \cap DOMAIN h PROVE FreshIn(h, a)
  <2>1. CASE a = c
    BY <1>2, <1>3, <1>9, <2>1 DEF FreshIn
  <2>2. CASE a # c
    <3>1. a \in DOMAIN g /\ h[a].cache = g[a].cache /\ FreshIn(g, a)
      BY <1>3, <1>9, <1>13, <2>2 DEF FreshBut
    <3>2. \A x : Worth(g, x)[a] = Worth(h, x)[a]
      BY <1>9, <1>12, <3>1, WorthAgrees DEF Graph
    <3> QED BY <3>1, <3>2 DEF FreshIn
  <2> QED BY <2>1, <2>2
<1> QED BY <1>9, <1>10, <1>13 DEF Graph, FreshBut

-----------------------------------------------------------------------------
\* Stacks.

\* A call in progress and those below it.
LEMMA SplitHead ==
  ASSUME NEW s, Sequence(s), s # << >>
  PROVE  /\ s = << s[1] >> \o Tail(s) /\ Sequence(Tail(s))
         /\ Len(s) \in Nat /\ Len(s) >= 1 /\ Len(Tail(s)) = Len(s) - 1
         /\ \A i \in 1..(Len(s) - 1) : Tail(s)[i] = s[i + 1]
<1> DEFINE r == Tail(s)
           k == << s[1] >> \o r
<1>1. /\ Len(s) \in Nat /\ Len(s) >= 1 /\ Sequence(r) /\ Len(r) = Len(s) - 1
      /\ \A i \in 1..(Len(s) - 1) : r[i] = s[i + 1]
  BY TailFacts DEF Sequence
<1> HIDE DEF r
<1>2. /\ Sequence(k) /\ Len(k) = Len(r) + 1 /\ k[1] = s[1]
      /\ \A i \in 2..(Len(r) + 1) : k[i] = r[i - 1]
  BY <1>1, ConsFacts DEF Sequence
<1> HIDE DEF k
<1>3. Len(k) = Len(s)
  BY <1>1, <1>2
<1>4. ASSUME NEW i \in 1..Len(s) PROVE s[i] = k[i]
  <2>1. CASE i = 1
    BY <1>2, <2>1
  <2>2. CASE i # 1
    <3>1. i \in 2..(Len(r) + 1) /\ i - 1 \in 1..(Len(s) - 1) /\ (i - 1) + 1 = i
      BY <1>1, <2>2
    <3> QED BY <1>1, <1>2, <3>1
  <2> QED BY <2>1, <2>2
<1>5. s = k
  BY <1>2, <1>3, <1>4, SameSeq DEF Sequence
<1> QED BY <1>1, <1>5 DEF r, k

\* The elements of a sequence with one in front.
LEMMA HeadAndRest ==
  ASSUME NEW f, NEW r, Sequence(r), NEW k, k = << f >> \o r
  PROVE  /\ Sequence(k) /\ k # << >> /\ k[1] = f /\ Tail(k) = r
         /\ Len(r) \in Nat /\ Len(k) = Len(r) + 1
         /\ \A i \in 1..Len(r) : k[i + 1] = r[i]
         /\ \A i \in 1..Len(k) : i = 1 \/ (i - 1 \in 1..Len(r) /\ k[i] = r[i - 1])
<1>1. /\ Len(r) \in Nat /\ Sequence(k) /\ Len(k) = Len(r) + 1 /\ k[1] = f
      /\ \A i \in 2..(Len(r) + 1) : k[i] = r[i - 1]
  BY ConsFacts DEF Sequence
<1>2. \A i \in 1..Len(r) : i + 1 \in 2..(Len(r) + 1) /\ (i + 1) - 1 = i
  BY <1>1
<1>3. \A i \in 1..Len(r) : k[i + 1] = r[i]
  BY <1>1, <1>2
<1>4. \A i \in 1..Len(k) : i = 1 \/ (i \in 2..(Len(r) + 1) /\ i - 1 \in 1..Len(r))
  BY <1>1
<1>5. k # << >>
  <2>1. k \in Seq(ToSet(k)) /\ Len(k) # 0
    BY <1>1 DEF Sequence
  <2> QED BY <2>1
<1>6. Tail(k) = r
  <2>1. /\ Sequence(Tail(k)) /\ Len(Tail(k)) = Len(k) - 1
        /\ \A i \in 1..(Len(k) - 1) : Tail(k)[i] = k[i + 1]
    BY <1>1, <1>5, TailFacts DEF Sequence
  <2>2. Len(Tail(k)) = Len(r) /\ Len(k) - 1 = Len(r)
    BY <1>1, <2>1
  <2>3. \A i \in 1..Len(r) : Tail(k)[i] = r[i]
    BY <1>3, <2>1, <2>2
  <2> QED BY <2>1, <2>2, <2>3, SameSeq DEF Sequence
<1> QED BY <1>1, <1>3, <1>4, <1>5, <1>6

LEMMA ChainOf ==
  ASSUME NEW g, NEW f, NEW r, Sequence(r), NEW k, k = << f >> \o r
  PROVE  Chain(g, k) <=> /\ GetFrameOK(g, f) /\ Chain(g, r)
                         /\ r # << >> => WaitsFor(g, r[1], f)
<1>1. /\ k[1] = f /\ Len(r) \in Nat /\ Len(k) = Len(r) + 1
      /\ \A i \in 1..Len(r) : k[i + 1] = r[i]
      /\ \A i \in 1..Len(k) : i = 1 \/ (i - 1 \in 1..Len(r) /\ k[i] = r[i - 1])
  BY HeadAndRest
<1>2. r # << >> <=> Len(r) >= 1
  <2>1. r \in Seq(ToSet(r))
    BY DEF Sequence
  <2> QED BY <1>1, <2>1
<1>3. (\A i \in 1..Len(k) : GetFrameOK(g, k[i])) <=>
        GetFrameOK(g, f) /\ \A i \in 1..Len(r) : GetFrameOK(g, r[i])
  <2>1. \A i \in 1..Len(r) : i + 1 \in 1..Len(k)
    BY <1>1
  <2>2. 1 \in 1..Len(k)
    BY <1>1
  <2>3. ASSUME \A i \in 1..Len(k) : GetFrameOK(g, k[i])
        PROVE  GetFrameOK(g, f) /\ \A i \in 1..Len(r) : GetFrameOK(g, r[i])
    BY <1>1, <2>1, <2>2, <2>3
  <2>4. ASSUME GetFrameOK(g, f), \A i \in 1..Len(r) : GetFrameOK(g, r[i]), NEW i \in 1..Len(k)
        PROVE  GetFrameOK(g, k[i])
    BY <1>1, <2>4
  <2> QED BY <2>3, <2>4
<1>4. (\A i \in 1..(Len(k) - 1) : WaitsFor(g, k[i + 1], k[i])) <=>
        /\ r # << >> => WaitsFor(g, r[1], f)
        /\ \A i \in 1..(Len(r) - 1) : WaitsFor(g, r[i + 1], r[i])
  <2>1. ASSUME \A i \in 1..(Len(k) - 1) : WaitsFor(g, k[i + 1], k[i])
        PROVE  /\ r # << >> => WaitsFor(g, r[1], f)
               /\ \A i \in 1..(Len(r) - 1) : WaitsFor(g, r[i + 1], r[i])
    <3>1. ASSUME r # << >> PROVE WaitsFor(g, r[1], f)
      <4>1. 1 \in 1..(Len(k) - 1) /\ 1 \in 1..Len(r) /\ 1 + 1 = 2
        BY <1>1, <1>2, <3>1
      <4>2. k[2] = r[1]
        BY <1>1, <4>1
      <4> QED BY <1>1, <2>1, <4>1, <4>2
    <3>2. ASSUME NEW i \in 1..(Len(r) - 1) PROVE WaitsFor(g, r[i + 1], r[i])
      <4>1. i \in 1..Len(r) /\ i + 1 \in 1..Len(r) /\ i + 1 \in 1..(Len(k) - 1)
        BY <1>1
      <4>2. k[i + 1] = r[i] /\ k[(i + 1) + 1] = r[i + 1]
        BY <1>1, <4>1
      <4>3. WaitsFor(g, k[(i + 1) + 1], k[i + 1])
        BY <2>1, <4>1
      <4> QED BY <4>2, <4>3
    <3> QED BY <3>1, <3>2
  <2>2. ASSUME r # << >> => WaitsFor(g, r[1], f),
               \A i \in 1..(Len(r) - 1) : WaitsFor(g, r[i + 1], r[i]),
               NEW i \in 1..(Len(k) - 1)
        PROVE  WaitsFor(g, k[i + 1], k[i])
    <3>1. i \in 1..Len(r) /\ i \in 1..Len(k) /\ k[i + 1] = r[i]
      BY <1>1
    <3>2. CASE i = 1
      <4>1. r # << >>
        BY <1>1, <1>2, <3>1
      <4> QED BY <1>1, <2>2, <3>1, <3>2, <4>1
    <3>3. CASE i # 1
      <4>1. i - 1 \in 1..(Len(r) - 1) /\ (i - 1) + 1 = i /\ k[i] = r[i - 1]
        BY <1>1, <3>1, <3>3
      <4>2. WaitsFor(g, r[(i - 1) + 1], r[i - 1])
        BY <2>2, <4>1
      <4> QED BY <3>1, <4>1, <4>2
    <3> QED BY <3>2, <3>3
  <2> QED BY <2>1, <2>2
<1> QED BY <1>3, <1>4 DEF Chain

LEMMA WriteOf ==
  ASSUME NEW g, NEW f, NEW r, Sequence(r), NEW k, k = << f >> \o r
  PROVE  WriteStack(g, k) <=> WriteFrameOK(g, f) /\ WriteStack(g, r)
<1>1. /\ k[1] = f /\ Len(r) \in Nat /\ Len(k) = Len(r) + 1
      /\ \A i \in 1..Len(r) : k[i + 1] = r[i]
      /\ \A i \in 1..Len(k) : i = 1 \/ (i - 1 \in 1..Len(r) /\ k[i] = r[i - 1])
  BY HeadAndRest
<1>2. 1 \in 1..Len(k) /\ \A i \in 1..Len(r) : i + 1 \in 1..Len(k)
  BY <1>1
<1>3. ASSUME \A i \in 1..Len(k) : WriteFrameOK(g, k[i])
      PROVE  WriteFrameOK(g, f) /\ \A i \in 1..Len(r) : WriteFrameOK(g, r[i])
  BY <1>1, <1>2, <1>3
<1>4. ASSUME WriteFrameOK(g, f), \A i \in 1..Len(r) : WriteFrameOK(g, r[i]), NEW i \in 1..Len(k)
      PROVE  WriteFrameOK(g, k[i])
  BY <1>1, <1>4
<1> QED BY <1>3, <1>4 DEF WriteStack

LEMMA UnmarkedOf ==
  ASSUME NEW g, NEW f, NEW r, Sequence(r), NEW k, k = << f >> \o r
  PROVE  Unmarked(g, k) = Pending(g, f) \cup Unmarked(g, r)
<1>1. /\ k[1] = f /\ Len(r) \in Nat /\ Len(k) = Len(r) + 1
      /\ \A i \in 1..Len(r) : k[i + 1] = r[i]
      /\ \A i \in 1..Len(k) : i = 1 \/ (i - 1 \in 1..Len(r) /\ k[i] = r[i - 1])
  BY HeadAndRest
<1>2. 1 \in 1..Len(k) /\ \A i \in 1..Len(r) : i + 1 \in 1..Len(k)
  BY <1>1
<1>3. ASSUME NEW d \in Unmarked(g, k) PROVE d \in Pending(g, f) \cup Unmarked(g, r)
  <2>1. PICK i \in 1..Len(k) : d \in Pending(g, k[i])
    BY <1>3 DEF Unmarked
  <2>2. CASE i = 1
    BY <1>1, <2>1, <2>2
  <2>3. CASE i # 1
    <3>1. i - 1 \in 1..Len(r) /\ d \in Pending(g, r[i - 1])
      BY <1>1, <2>1, <2>3
    <3> QED BY <3>1 DEF Unmarked
  <2> QED BY <2>2, <2>3
<1>4. ASSUME NEW d \in Pending(g, f) PROVE d \in Unmarked(g, k)
  BY <1>1, <1>2, <1>4 DEF Unmarked
<1>5. ASSUME NEW d \in Unmarked(g, r) PROVE d \in Unmarked(g, k)
  <2>1. PICK i \in 1..Len(r) : d \in Pending(g, r[i])
    BY <1>5 DEF Unmarked
  <2>2. i + 1 \in 1..Len(k) /\ d \in Pending(g, k[i + 1])
    BY <1>1, <1>2, <2>1
  <2> QED BY <2>2 DEF Unmarked
<1> QED BY <1>3, <1>4, <1>5

LEMMA EmptyStack ==
  ASSUME NEW e, e = << >>, NEW g
  PROVE  Sequence(e) /\ WriteStack(g, e) /\ Unmarked(g, e) = {} /\ Chain(g, e)
<1>1. e \in Seq({}) /\ Len(e) = 0 /\ ToSet(e) = {} /\ 1..Len(e) = {} /\ 1..(Len(e) - 1) = {}
  BY DEF ToSet
<1>2. Sequence(e)
  BY <1>1 DEF Sequence
<1> QED BY <1>1, <1>2 DEF WriteStack, Unmarked, Chain

-----------------------------------------------------------------------------
\* What the invariant says of a thread in a get, of one in a write, and of one
\* in neither; and how it is shown of the next stack.

LEMMA NoneUnmarked ==
  ASSUME NEW g, NEW s, Chain(g, s)
  PROVE  Unmarked(g, s) = {}
<1>1. ASSUME NEW i \in 1..Len(s) PROVE Pending(g, s[i]) = {}
  BY DEF Chain, GetFrameOK, Getting, Pending
<1> QED BY <1>1 DEF Unmarked

LEMMA IdleIs ==
  ASSUME NEW g, NEW s, SeqInv(g, s), s = << >>
  PROVE  Graph(g) /\ FreshBut(g, {})
BY EmptyStack DEF SeqInv

LEMMA GetterIs ==
  ASSUME NEW g, NEW s, SeqInv(g, s), s # << >>, s[1].at \in Getting
  PROVE  /\ Graph(g) /\ FreshBut(g, {}) /\ GetFrameOK(g, s[1]) /\ TopOK(g, s[1])
         /\ Sequence(Tail(s)) /\ Chain(g, Tail(s))
         /\ Tail(s) # << >> => WaitsFor(g, Tail(s)[1], s[1])
<1>1. Sequence(s) /\ Graph(g)
  BY DEF SeqInv
<1>2. s = << s[1] >> \o Tail(s) /\ Sequence(Tail(s)) /\ 1 \in 1..Len(s)
  BY <1>1, SplitHead
<1>3. ~ WriteStack(g, s)
  <2>1. s[1].at \notin Writing
    BY DEF Getting, Writing
  <2> QED BY <1>2, <2>1 DEF WriteStack, WriteFrameOK
<1>4. Chain(g, s) /\ TopOK(g, s[1])
  BY <1>3 DEF SeqInv, GetStack
<1>5. FreshBut(g, {})
  BY <1>4, NoneUnmarked DEF SeqInv
<1> QED BY <1>1, <1>2, <1>4, <1>5, ChainOf

LEMMA WriterIs ==
  ASSUME NEW g, NEW s, SeqInv(g, s), s # << >>, s[1].at \in Writing
  PROVE  /\ Graph(g) /\ FreshBut(g, Pending(g, s[1]) \cup Unmarked(g, Tail(s)))
         /\ WriteFrameOK(g, s[1]) /\ Sequence(Tail(s)) /\ WriteStack(g, Tail(s))
<1>1. Sequence(s) /\ Graph(g)
  BY DEF SeqInv
<1>2. s = << s[1] >> \o Tail(s) /\ Sequence(Tail(s)) /\ 1 \in 1..Len(s)
  BY <1>1, SplitHead
<1>3. WriteStack(g, s)
  <2>1. s[1].at \notin Getting
    BY DEF Getting, Writing
  <2> QED BY <1>2, <2>1 DEF SeqInv, GetStack, Chain, GetFrameOK
<1>4. WriteFrameOK(g, s[1]) /\ WriteStack(g, Tail(s))
  BY <1>2, <1>3, WriteOf
<1>5. Unmarked(g, s) = Pending(g, s[1]) \cup Unmarked(g, Tail(s))
  BY <1>2, UnmarkedOf
<1> QED BY <1>1, <1>2, <1>4, <1>5 DEF SeqInv

LEMMA FreshMore ==
  ASSUME NEW g, NEW U, NEW V, FreshBut(g, U), U \subseteq V
  PROVE  FreshBut(g, V)
BY DEF FreshBut

LEMMA IdleGoes ==
  ASSUME NEW g, NEW s, Graph(g), FreshBut(g, {}), s = << >>
  PROVE  SeqInv(g, s)
BY EmptyStack DEF SeqInv

LEMMA GetGoes ==
  ASSUME NEW g, NEW f, NEW r, Graph(g), FreshBut(g, {}), GetFrameOK(g, f), TopOK(g, f),
         Sequence(r), Chain(g, r), r # << >> => WaitsFor(g, r[1], f), NEW k, k = << f >> \o r
  PROVE  SeqInv(g, k)
<1>1. Chain(g, k)
  BY ChainOf
<1>2. Sequence(k) /\ k # << >> /\ k[1] = f
  BY HeadAndRest
<1>3. FreshBut(g, Unmarked(g, k))
  BY <1>1, NoneUnmarked
<1> QED BY <1>1, <1>2, <1>3 DEF SeqInv, GetStack

LEMMA WriteGoes ==
  ASSUME NEW g, NEW f, NEW r, Graph(g), WriteFrameOK(g, f), Sequence(r), WriteStack(g, r),
         NEW V, FreshBut(g, V), V \subseteq Pending(g, f) \cup Unmarked(g, r),
         NEW k, k = << f >> \o r
  PROVE  SeqInv(g, k)
<1>1. WriteStack(g, k) /\ Sequence(k)
  BY WriteOf, HeadAndRest
<1>2. Unmarked(g, k) = Pending(g, f) \cup Unmarked(g, r)
  BY UnmarkedOf
<1>3. FreshBut(g, Unmarked(g, k))
  BY <1>2, FreshMore
<1> QED BY <1>1, <1>3 DEF SeqInv

\* What a call waits for goes on without leaving its cell.
LEMMA StillWaits ==
  ASSUME NEW g, NEW e, NEW f, NEW h, WaitsFor(g, e, f), h.cell = f.cell, h.ctx = f.ctx,
         h.at \in {"collect", "deps", "evaluate", "store"}
  PROVE  WaitsFor(g, e, h)
BY DEF WaitsFor

-----------------------------------------------------------------------------
\* Steps of a get.

Result(g, x, c) == IF Kind[c] = "formula" THEN Worth(g, x)[c] ELSE g[c].value

LEMMA GetFrameIs ==
  ASSUME NEW g, NEW c \in DOMAIN g, c \in Cell, NEW x, NEW f, f = GetFrame(c, x)
  PROVE  /\ GetFrameOK(g, f) /\ TopOK(g, f) /\ f.cell = c /\ f.ctx = x
         /\ f.at = IF Kind[c] = "formula" THEN "collect" ELSE "read"
<1>1. /\ FrameShape(f) /\ f.cell = c /\ f.ctx = x
      /\ f.at = IF Kind[c] = "formula" THEN "collect" ELSE "read"
  BY NewFields DEF GetFrame, Fields
<1> QED BY <1>1 DEF GetFrameOK, TopOK, ReadingOK, Getting

LEMMA GetBeginSeq ==
  ASSUME NEW g, NEW s, SeqInv(g, s), s = << >>, NEW c \in DOMAIN g, c \in Cell, NEW x,
         NEW k, k = << GetFrame(c, x) >> \o s
  PROVE  SeqInv(g, k)
<1>1. PICK f : f = GetFrame(c, x)
  OBVIOUS
<1>2. GetFrameOK(g, f) /\ TopOK(g, f)
  BY <1>1, GetFrameIs
<1>3. Graph(g) /\ FreshBut(g, {})
  BY IdleIs
<1>4. Sequence(s) /\ Chain(g, s)
  BY EmptyStack
<1> QED BY <1>1, <1>2, <1>3, <1>4, GetGoes

LEMMA CallBeginSeq ==
  ASSUME NEW g, NEW s, SeqInv(g, s), s = << >>, NEW c \in DOMAIN g, c \in Cell, c \in Callable,
         NEW x, NEW k, k = << GetFrame(c, x), Frame("await", c, x, {}, NoData) >>
  PROVE  SeqInv(g, k)
<1>1. PICK f : f = GetFrame(c, x)
  OBVIOUS
<1>2. PICK e : e = Frame("await", c, x, {}, NoData)
  OBVIOUS
<1>3. /\ GetFrameOK(g, f) /\ TopOK(g, f) /\ f.cell = c /\ f.ctx = x
      /\ f.at = IF Kind[c] = "formula" THEN "collect" ELSE "read"
  BY <1>1, GetFrameIs
<1>4. FrameShape(e) /\ e.at = "await" /\ e.cell = c /\ e.ctx = x
  BY <1>2, NewFields DEF Fields
<1>5. GetFrameOK(g, e)
  BY <1>4 DEF GetFrameOK, ReadingOK, Getting
<1>6. WaitsFor(g, e, f)
  BY <1>3, <1>4 DEF WaitsFor
<1>7. PICK r : r = << e >> \o s
  OBVIOUS
<1>8. Graph(g) /\ FreshBut(g, {}) /\ Sequence(s) /\ Chain(g, s)
  BY IdleIs, EmptyStack
<1>9. Chain(g, r)
  BY <1>5, <1>7, <1>8, ChainOf
<1>10. Sequence(r) /\ r # << >> /\ r[1] = e
  BY <1>7, <1>8, HeadAndRest
<1>11. k = << f >> \o r
  BY <1>1, <1>2, <1>7
<1>12. r # << >> => WaitsFor(g, r[1], f)
  BY <1>6, <1>10
<1> QED BY <1>3, <1>8, <1>9, <1>10, <1>11, <1>12, GetGoes

\* What is left of the calls when the innermost, f, has returned v.
AfterReturn(r, v) ==
  IF r # << >> /\ r[1].at = "await" THEN << ButAtData(r[1], "store", v) >> \o Tail(r) ELSE r

LEMMA ReturnSeq ==
  ASSUME NEW g, Graph(g), FreshBut(g, {}), NEW r, Sequence(r), Chain(g, r), NEW f,
         r # << >> => WaitsFor(g, r[1], f),
         r # << >> /\ r[1].at = "deps" => Known(g, f.cell, f.ctx), NEW v,
         r # << >> /\ r[1].at = "await" => v = Result(g, f.ctx, f.cell),
         NEW k, k = AfterReturn(r, v)
  PROVE  SeqInv(g, k)
<1>1. CASE r = << >>
  <2>1. k = << >>
    BY <1>1 DEF AfterReturn
  <2> QED BY <2>1, IdleGoes
<1> SUFFICES ASSUME r # << >> PROVE SeqInv(g, k)
  BY <1>1
<1>2. PICK e : e = r[1]
  OBVIOUS
<1>3. r = << e >> \o Tail(r) /\ Sequence(Tail(r))
  BY <1>2, SplitHead
<1>4. GetFrameOK(g, e) /\ Chain(g, Tail(r)) /\ (Tail(r) # << >> => WaitsFor(g, Tail(r)[1], e))
  BY <1>3, ChainOf
<1>5. WaitsFor(g, e, f)
  BY <1>2
<1>6. CASE e.at = "deps"
  <2>1. k = r
    BY <1>2, <1>6 DEF AfterReturn
  <2>2. BeenThrough(g, e, {})
    <3>1. BeenThrough(g, e, {f.cell}) /\ e.ctx = f.ctx /\ Known(g, f.cell, f.ctx)
      BY <1>2, <1>5, <1>6 DEF WaitsFor
    <3> QED BY <3>1 DEF BeenThrough
  <2>3. TopOK(g, e)
    BY <1>6, <2>2 DEF TopOK
  <2> QED BY <1>3, <1>4, <2>1, <2>3, GetGoes
<1>7. CASE e.at = "await"
  <2>1. PICK h : h = ButAtData(e, "store", v)
    OBVIOUS
  <2>2. k = << h >> \o Tail(r)
    BY <1>2, <1>7, <2>1 DEF AfterReturn
  <2>3. FrameShape(h) /\ h.at = "store" /\ h.cell = e.cell /\ h.ctx = e.ctx /\ h.data = v
    BY <1>4, <2>1, FieldsAtData DEF Fields, GetFrameOK
  <2>4. e.cell = f.cell /\ e.ctx = f.ctx /\ v = Result(g, f.ctx, f.cell)
    BY <1>2, <1>5, <1>7 DEF WaitsFor
  <2>5. GetFrameOK(g, h) /\ TopOK(g, h)
    BY <1>4, <1>7, <2>3, <2>4 DEF GetFrameOK, TopOK, ReadingOK, Getting, Result
  <2>6. Tail(r) = << >>
    BY <1>4, <1>7 DEF WaitsFor
  <2> QED BY <1>3, <1>4, <2>2, <2>5, <2>6, GetGoes
<1> QED BY <1>5, <1>6, <1>7 DEF WaitsFor

\* A value that is read is the result, when a call awaits it.
LEMMA ReadCellSeq ==
  ASSUME NEW g, NEW s, SeqInv(g, s), s # << >>, s[1].at = "read",
         NEW v, v = IF Kind[s[1].cell] = "value" THEN ValueOf(s[1].cell, g[s[1].cell])
                    ELSE g[s[1].cell].value,
         NEW k, k = AfterReturn(Tail(s), v)
  PROVE  SeqInv(g, k)
<1>1. PICK f, r : f = s[1] /\ r = Tail(s)
  OBVIOUS
<1>2. /\ Graph(g) /\ FreshBut(g, {}) /\ GetFrameOK(g, f) /\ Sequence(r) /\ Chain(g, r)
      /\ r # << >> => WaitsFor(g, r[1], f)
  BY <1>1, GetterIs DEF Getting
<1>3. f.at = "read" /\ Kind[f.cell] # "formula" /\ f.cell \in DOMAIN g
  BY <1>1, <1>2 DEF GetFrameOK, ReadingOK
<1>4. ~ (r # << >> /\ r[1].at = "deps")
  BY <1>2, <1>3 DEF WaitsFor
<1>5. ASSUME r # << >>, r[1].at = "await" PROVE v = Result(g, f.ctx, f.cell)
  <2>1. CASE Kind[f.cell] = "value"
    <3>1. 1 \in 1..Len(r)
      BY <1>2, <1>5, SplitHead
    <3>2. ReadingOK(g, r[1])
      BY <1>2, <3>1 DEF Chain, GetFrameOK
    <3>3. f.cell \in Callable
      BY <1>2, <1>5, <2>1, <3>2 DEF WaitsFor, ReadingOK
    <3>4. g[f.cell].value.status = "ready"
      BY <1>2, <1>3, <2>1, <3>3 DEF Graph, ValuesReady
    <3> QED BY <1>1, <2>1, <3>4 DEF ValueOf, Result
  <2>2. CASE Kind[f.cell] # "value"
    BY <1>1, <1>3, <2>2 DEF Result
  <2> QED BY <2>1, <2>2
<1> QED BY <1>1, <1>2, <1>4, <1>5, ReturnSeq

LEMMA CollectSeq ==
  ASSUME NEW g, NEW s, SeqInv(g, s), s # << >>, s[1].at = "collect",
         NEW ds, ds = IF s[1].cell \in DOMAIN g THEN g[s[1].cell].deps ELSE {},
         NEW k, k = << ButAtNearTodo(s[1], "deps", ds, ds \cap Formulas) >> \o Tail(s)
  PROVE  SeqInv(g, k)
<1>1. PICK f, r : f = s[1] /\ r = Tail(s)
  OBVIOUS
<1>2. /\ Graph(g) /\ FreshBut(g, {}) /\ GetFrameOK(g, f) /\ Sequence(r) /\ Chain(g, r)
      /\ r # << >> => WaitsFor(g, r[1], f)
  BY <1>1, GetterIs DEF Getting
<1>3. PICK h : h = ButAtNearTodo(f, "deps", ds, ds \cap Formulas)
  OBVIOUS
<1>4. /\ FrameShape(h) /\ h.at = "deps" /\ h.cell = f.cell /\ h.ctx = f.ctx /\ h.near = ds
      /\ h.todo = ds \cap Formulas
  BY <1>2, <1>3, FieldsAtNearTodo DEF Fields, GetFrameOK
<1>5. f.cell \in DOMAIN g /\ Kind[f.cell] = "formula" /\ ds = g[f.cell].deps
  BY <1>1, <1>2 DEF GetFrameOK, ReadingOK
<1>6. GetFrameOK(g, h) /\ TopOK(g, h)
  BY <1>4, <1>5 DEF GetFrameOK, ReadingOK, TopOK, BeenThrough, Getting
<1>7. r # << >> => WaitsFor(g, r[1], h)
  BY <1>2, <1>4, StillWaits
<1> QED BY <1>1, <1>2, <1>3, <1>6, <1>7, GetGoes

LEMMA GetDependencySeq ==
  ASSUME NEW g, NEW s, SeqInv(g, s), s # << >>, s[1].at = "deps", NEW d \in s[1].todo
  PROVE  /\ d \in DOMAIN g
         /\ SeqInv(g, << GetFrame(d, s[1].ctx), ButJustTodo(s[1], s[1].todo \ {d}) >> \o Tail(s))
<1>1. PICK f, r : f = s[1] /\ r = Tail(s)
  OBVIOUS
<1>2. /\ Graph(g) /\ FreshBut(g, {}) /\ GetFrameOK(g, f) /\ Sequence(r) /\ Chain(g, r)
      /\ TopOK(g, f) /\ (r # << >> => WaitsFor(g, r[1], f))
  BY <1>1, GetterIs DEF Getting
<1>3. /\ f.cell \in DOMAIN g /\ Kind[f.cell] = "formula" /\ f.near = g[f.cell].deps
      /\ f.todo \subseteq f.near \cap Formulas /\ BeenThrough(g, f, {}) /\ f.at = "deps"
  BY <1>1, <1>2 DEF GetFrameOK, ReadingOK, TopOK
<1>4. d \in DOMAIN g /\ d \in Cell /\ Kind[d] = "formula"
  BY <1>1, <1>2, <1>3 DEF Graph, Edges, Formulas
<1>5. PICK h : h = ButJustTodo(f, f.todo \ {d})
  OBVIOUS
<1>6. /\ FrameShape(h) /\ h.at = "deps" /\ h.cell = f.cell /\ h.ctx = f.ctx /\ h.near = f.near
      /\ h.todo = f.todo \ {d}
  BY <1>2, <1>3, <1>5, FieldsJustTodo DEF Fields, GetFrameOK
<1>7. GetFrameOK(g, h)
  BY <1>3, <1>6 DEF GetFrameOK, ReadingOK, Getting
<1>8. r # << >> => WaitsFor(g, r[1], h)
  BY <1>2, <1>6, StillWaits
<1>9. PICK e : e = GetFrame(d, f.ctx)
  OBVIOUS
<1>10. GetFrameOK(g, e) /\ TopOK(g, e) /\ e.cell = d /\ e.ctx = f.ctx /\ e.at = "collect"
  BY <1>4, <1>9, GetFrameIs
<1>11. BeenThrough(g, h, {d})
  BY <1>3, <1>6 DEF BeenThrough
<1>12. WaitsFor(g, h, e)
  BY <1>4, <1>6, <1>10, <1>11 DEF WaitsFor
<1>13. PICK q : q = << h >> \o r
  OBVIOUS
<1>14. Chain(g, q) /\ Sequence(q) /\ q # << >> /\ q[1] = h
  BY <1>2, <1>7, <1>8, <1>13, ChainOf, HeadAndRest
<1>15. << e, h >> \o r = << e >> \o q
  BY <1>2, <1>13, ConsTwo DEF Sequence
<1>16. q # << >> => WaitsFor(g, q[1], e)
  BY <1>12, <1>14
<1>17. SeqInv(g, << e, h >> \o r)
  BY <1>2, <1>10, <1>14, <1>15, <1>16, GetGoes
<1> QED BY <1>1, <1>4, <1>5, <1>9, <1>17

\* What TakeSnapshot reads of a dependency.
Operand(g, x, d) ==
  IF Kind[d] # "formula" THEN g[d].value.data
  ELSE IF x \in DOMAIN g[d].cache THEN g[d].cache[x].data ELSE Null

LEMMA TakeSnapshotSeq ==
  ASSUME OneAtATime, NEW g, NEW s, SeqInv(g, s), s # << >>, s[1].at = "deps", s[1].todo = {},
         NEW seen, seen = [d \in s[1].near \cap DOMAIN g |-> Operand(g, s[1].ctx, d)],
         NEW k, k = << ButAtSeen(s[1], "evaluate", seen) >> \o Tail(s)
  PROVE  SeqInv(g, k)
<1>1. PICK f, r : f = s[1] /\ r = Tail(s)
  OBVIOUS
<1>2. /\ Graph(g) /\ FreshBut(g, {}) /\ GetFrameOK(g, f) /\ Sequence(r) /\ Chain(g, r)
      /\ TopOK(g, f) /\ (r # << >> => WaitsFor(g, r[1], f))
  BY <1>1, GetterIs DEF Getting
<1>3. /\ f.cell \in DOMAIN g /\ Kind[f.cell] = "formula" /\ f.near = g[f.cell].deps
      /\ BeenThrough(g, f, {}) /\ f.at = "deps" /\ f.todo = {}
  BY <1>1, <1>2 DEF GetFrameOK, ReadingOK, TopOK
<1>4. PICK h : h = ButAtSeen(f, "evaluate", seen)
  OBVIOUS
<1>5. FrameShape(h) /\ h.at = "evaluate" /\ h.cell = f.cell /\ h.ctx = f.ctx /\ h.seen = seen
  BY <1>2, <1>4, FieldsAtSeen DEF Fields, GetFrameOK
<1>6. f.near \cap DOMAIN g = f.near /\ f.near \subseteq Cell
  BY <1>2, <1>3 DEF Graph, Edges
<1>7. ASSUME NEW d \in f.near PROVE Operand(g, f.ctx, d) = Worth(g, f.ctx)[d].data
  <2>1. d \in DOMAIN g /\ d \in Cell
    BY <1>6, <1>7
  <2>2. CASE Kind[d] # "formula"
    <3>1. Worth(g, f.ctx)[d] = g[d].value
      BY <1>2, <2>1, <2>2, WorthParts DEF Graph
    <3> QED BY <2>2, <3>1 DEF Operand
  <2>3. CASE Kind[d] = "formula"
    <3>1. f.ctx \in DOMAIN g[d].cache
      BY <1>3, <1>7, <2>1, <2>3 DEF BeenThrough, Known, Formulas
    <3>2. g[d].cache[f.ctx] = Worth(g, f.ctx)[d]
      BY <1>2, <2>1, <2>3, <3>1 DEF FreshBut, FreshIn, Formulas
    <3> QED BY <2>3, <3>1, <3>2 DEF Operand
  <2> QED BY <2>2, <2>3
<1>8. seen = [d \in g[h.cell].deps |-> Worth(g, h.ctx)[d].data]
  BY <1>1, <1>3, <1>5, <1>6, <1>7
<1>9. GetFrameOK(g, h) /\ TopOK(g, h)
  BY <1>3, <1>5, <1>8 DEF GetFrameOK, ReadingOK, TopOK, Getting
<1>10. r # << >> => WaitsFor(g, r[1], h)
  BY <1>2, <1>5, StillWaits
<1> QED BY <1>1, <1>2, <1>4, <1>9, <1>10, GetGoes

LEMMA EvaluateSeq ==
  ASSUME OneAtATime, NEW g, NEW s, SeqInv(g, s), s # << >>, s[1].at = "evaluate",
         NEW v, v = FormulaOf(s[1].cell, g[s[1].cell], s[1].ctx, s[1].seen),
         NEW k, k = << ButAtData(s[1], "store", v) >> \o Tail(s)
  PROVE  s[1].cell \in DOMAIN g /\ SeqInv(g, k)
<1>1. PICK f, r : f = s[1] /\ r = Tail(s)
  OBVIOUS
<1>2. /\ Graph(g) /\ FreshBut(g, {}) /\ GetFrameOK(g, f) /\ Sequence(r) /\ Chain(g, r)
      /\ r # << >> => WaitsFor(g, r[1], f)
  BY <1>1, GetterIs DEF Getting
<1>3. /\ f.cell \in DOMAIN g /\ Kind[f.cell] = "formula"
      /\ f.seen = [d \in g[f.cell].deps |-> Worth(g, f.ctx)[d].data]
  BY <1>1, <1>2 DEF GetFrameOK, ReadingOK
<1>4. PICK h : h = ButAtData(f, "store", v)
  OBVIOUS
<1>5. FrameShape(h) /\ h.at = "store" /\ h.cell = f.cell /\ h.ctx = f.ctx /\ h.data = v
  BY <1>2, <1>4, FieldsAtData DEF Fields, GetFrameOK
<1>6. v = Worth(g, f.ctx)[f.cell]
  <2>1. CASE CacheHas(g[f.cell], f.ctx)
    <3>1. f.cell \in Formulas
      BY <1>2, <1>3 DEF Graph, Edges, Formulas
    <3>2. g[f.cell].cache[f.ctx] = Worth(g, f.ctx)[f.cell]
      BY <1>2, <1>3, <2>1, <3>1 DEF FreshBut, FreshIn, CacheHas
    <3> QED BY <1>1, <2>1, <3>2 DEF FormulaOf
  <2>2. CASE ~ CacheHas(g[f.cell], f.ctx)
    <3>1. v = Evaluated(f.cell, f.ctx, f.seen)
      BY <1>1, <2>2 DEF FormulaOf
    <3>2. Worth(g, f.ctx)[f.cell] = Evaluated(f.cell, f.ctx, [d \in g[f.cell].deps |-> Worth(g, f.ctx)[d].data])
      BY <1>2, <1>3, WorthParts DEF Graph
    <3> QED BY <1>3, <3>1, <3>2
  <2> QED BY <2>1, <2>2
<1>7. GetFrameOK(g, h) /\ TopOK(g, h)
  BY <1>3, <1>5, <1>6 DEF GetFrameOK, ReadingOK, TopOK, Getting
<1>8. r # << >> => WaitsFor(g, r[1], h)
  BY <1>2, <1>5, StillWaits
<1> QED BY <1>1, <1>2, <1>3, <1>4, <1>7, <1>8, GetGoes

\* What calls in progress go by, of the graph g, holds in the graph h.
SameReading(g, h) ==
  /\ DOMAIN h = DOMAIN g
  /\ \A c \in DOMAIN g : /\ h[c].deps = g[c].deps
                         /\ DOMAIN g[c].cache \subseteq DOMAIN h[c].cache
                         /\ Kind[c] # "formula" => h[c].value = g[c].value
  /\ \A x : \A c \in DOMAIN g : Worth(h, x)[c] = Worth(g, x)[c]

LEMMA ReadingStays ==
  ASSUME NEW g, NEW h, Edges(g), SameReading(g, h), NEW f, GetFrameOK(g, f)
  PROVE  GetFrameOK(h, f)
<1>1. PICK c : c = f.cell /\ c \in DOMAIN g
  BY DEF GetFrameOK
<1>2. h[c].deps = g[c].deps /\ (Kind[c] # "formula" => h[c].value = g[c].value)
      /\ c \in DOMAIN h /\ Worth(h, f.ctx)[c] = Worth(g, f.ctx)[c]
  BY <1>1 DEF SameReading
<1>3. g[c].deps \subseteq DOMAIN g
  BY <1>1 DEF Edges
<1>4. [d \in g[c].deps |-> Worth(g, f.ctx)[d].data] = [d \in h[c].deps |-> Worth(h, f.ctx)[d].data]
  BY <1>2, <1>3 DEF SameReading
<1>5. ReadingOK(h, f)
  BY <1>1, <1>2, <1>4 DEF GetFrameOK, ReadingOK
<1> QED BY <1>1, <1>2, <1>5 DEF GetFrameOK

LEMMA WaitingStays ==
  ASSUME NEW g, NEW h, Edges(g), SameReading(g, h), NEW f, GetFrameOK(g, f), NEW e, WaitsFor(g, f, e)
  PROVE  WaitsFor(h, f, e)
<1>1. ASSUME f.at = "deps" PROVE BeenThrough(h, f, {e.cell})
  <2>1. BeenThrough(g, f, {e.cell}) /\ f.near \subseteq DOMAIN g
    BY <1>1 DEF WaitsFor, GetFrameOK, ReadingOK, Edges
  <2> QED BY <2>1 DEF BeenThrough, Known, SameReading
<1> QED BY <1>1 DEF WaitsFor

LEMMA ChainStays ==
  ASSUME NEW g, NEW h, Edges(g), SameReading(g, h), NEW s, Sequence(s), Chain(g, s)
  PROVE  Chain(h, s)
<1>1. Len(s) \in Nat
  BY DEF Sequence
<1>2. \A i \in 1..Len(s) : GetFrameOK(h, s[i])
  BY ReadingStays DEF Chain
<1>3. ASSUME NEW i \in 1..(Len(s) - 1) PROVE WaitsFor(h, s[i + 1], s[i])
  <2>1. i + 1 \in 1..Len(s)
    BY <1>1
  <2>2. GetFrameOK(g, s[i + 1]) /\ WaitsFor(g, s[i + 1], s[i])
    BY <2>1 DEF Chain
  <2> QED BY <2>2, WaitingStays
<1> QED BY <1>2, <1>3 DEF Chain

\* A store is of what the cell is worth.
LEMMA StoreValue ==
  ASSUME NEW g, NEW s, SeqInv(g, s), s # << >>, s[1].at = "store"
  PROVE  s[1].cell \in DOMAIN g /\ s[1].data = Result(g, s[1].ctx, s[1].cell)
BY GetterIs DEF Getting, GetFrameOK, ReadingOK, Result

LEMMA StoreGraph ==
  ASSUME OneAtATime, NEW g, Graph(g), FreshBut(g, {}), NEW c \in DOMAIN g, NEW x, NEW v,
         v = Result(g, x, c), NEW h, h = Stored(g, c, x, v)
  PROVE  /\ Graph(h) /\ FreshBut(h, {}) /\ SameReading(g, h) /\ Known(h, c, x)
         /\ Result(h, x, c) = v
<1>1. /\ Changed(g, h, c) /\ h[c].value = v /\ DOMAIN h[c].cache = DOMAIN g[c].cache \cup {x}
      /\ h[c].cache[x] = v
      /\ \A y \in DOMAIN g[c].cache : y # x => h[c].cache[y] = g[c].cache[y]
  BY StoredAt DEF Graph
<1>2. FreshBut(h, {}) /\ \A y : \A a \in DOMAIN g : Worth(h, y)[a] = Worth(g, y)[a]
  BY FreshAfterStore DEF Graph, Result
<1>3. ValuesReady(h)
  <2>1. ASSUME c \in Callable, Kind[c] = "value"
        PROVE  /\ h[c].value.status = "ready"
               /\ \A y \in DOMAIN h[c].cache : h[c].cache[y] = h[c].value
    <3>1. v = g[c].value /\ g[c].value.status = "ready"
          /\ \A y \in DOMAIN g[c].cache : g[c].cache[y] = g[c].value
      BY <2>1 DEF Result, Graph, ValuesReady
    <3> QED BY <1>1, <3>1
  <2> QED BY <1>1, <2>1, ReadyAfter DEF Graph
<1>4. Graph(h)
  BY <1>1, <1>3, SameEdges DEF Graph, Changed
<1>5. ASSUME NEW a \in DOMAIN g
      PROVE  /\ h[a].deps = g[a].deps /\ DOMAIN g[a].cache \subseteq DOMAIN h[a].cache
             /\ Kind[a] # "formula" => h[a].value = g[a].value
  <2>1. CASE a = c
    BY <1>1, <2>1 DEF Changed, Result
  <2>2. CASE a # c
    BY <1>1, <2>2 DEF Changed
  <2> QED BY <2>1, <2>2
<1>6. SameReading(g, h)
  BY <1>1, <1>2, <1>5 DEF SameReading, Changed
<1>7. Known(h, c, x) /\ Result(h, x, c) = v
  BY <1>1, <1>2 DEF Known, Result
<1> QED BY <1>2, <1>4, <1>6, <1>7

LEMMA StoreSeq ==
  ASSUME OneAtATime, NEW g, NEW s, SeqInv(g, s), s # << >>, s[1].at = "store",
         NEW h, h = Stored(g, s[1].cell, s[1].ctx, s[1].data),
         NEW k, k = AfterReturn(Tail(s), s[1].data)
  PROVE  SeqInv(h, k) /\ Result(h, s[1].ctx, s[1].cell) = s[1].data
<1>1. PICK f, r : f = s[1] /\ r = Tail(s)
  OBVIOUS
<1>2. /\ Graph(g) /\ FreshBut(g, {}) /\ GetFrameOK(g, f) /\ Sequence(r) /\ Chain(g, r)
      /\ r # << >> => WaitsFor(g, r[1], f)
  BY <1>1, GetterIs DEF Getting
<1>3. f.cell \in DOMAIN g /\ f.data = Result(g, f.ctx, f.cell)
  BY <1>1, StoreValue
<1>4. /\ Graph(h) /\ FreshBut(h, {}) /\ SameReading(g, h) /\ Known(h, f.cell, f.ctx)
      /\ Result(h, f.ctx, f.cell) = f.data
  BY <1>1, <1>2, <1>3, StoreGraph
<1>5. Chain(h, r)
  BY <1>2, <1>4, ChainStays DEF Graph
<1>6. ASSUME r # << >> PROVE WaitsFor(h, r[1], f)
  <2>1. 1 \in 1..Len(r)
    BY <1>2, <1>6, SplitHead
  <2>2. GetFrameOK(g, r[1]) /\ WaitsFor(g, r[1], f)
    BY <1>2, <1>6, <2>1 DEF Chain
  <2> QED BY <1>2, <1>4, <2>2, WaitingStays DEF Graph
<1> QED BY <1>1, <1>2, <1>4, <1>5, <1>6, ReturnSeq

-----------------------------------------------------------------------------
\* Steps of a set and of a push.

LEMMA WriteStays ==
  ASSUME NEW g, NEW h, NEW c, Changed(g, h, c), NEW s, WriteStack(g, s)
  PROVE  WriteStack(h, s)
BY DEF WriteStack, WriteFrameOK, Changed

LEMMA SetWriteSeq ==
  ASSUME OneAtATime, NEW g, NEW s, SeqInv(g, s), s = << >>, NEW c \in DOMAIN g, NEW d,
         NEW h, h = Reset(g, c, ReadyValue(d)),
         NEW k, k = << Frame("notify", c, NoCtx, {}, NoData) >> \o s
  PROVE  SeqInv(h, k)
<1>1. PICK f : f = Frame("notify", c, NoCtx, {}, NoData)
  OBVIOUS
<1>2. FrameShape(f) /\ f.at = "notify" /\ f.cell = c
  BY <1>1, NewFields DEF Fields
<1>3. Graph(g) /\ FreshBut(g, {})
  BY IdleIs
<1>4. Changed(g, h, c) /\ h[c].value = ReadyValue(d) /\ h[c].cache = << >>
  BY <1>3, ResetAt DEF Graph
<1>5. After(h, {c}) = After(g, {c})
  BY <1>3, <1>4, SameAfter DEF Graph
<1>6. Pending(h, f) = After(g, {c})
  BY <1>2, <1>5 DEF Pending
<1>7. FreshBut(h, After(g, {c}))
  <2>1. {} \ {c} \subseteq After(g, {c})
    OBVIOUS
  <2> QED BY <1>3, <1>4, <2>1, FreshAfterWrite DEF Graph
<1>8. Graph(h)
  <2>1. DOMAIN h[c].cache = {} /\ h[c].value.status = "ready"
    BY <1>4 DEF ReadyValue
  <2>2. ValuesReady(h)
    BY <1>3, <1>4, <2>1, ReadyAfter DEF Graph
  <2> QED BY <1>3, <1>4, <2>2, SameEdges DEF Graph, Changed
<1>9. WriteFrameOK(h, f)
  BY <1>2 DEF WriteFrameOK, Writing
<1>10. Sequence(s) /\ WriteStack(h, s)
  BY EmptyStack
<1> QED BY <1>1, <1>6, <1>7, <1>8, <1>9, <1>10, WriteGoes

LEMMA PushBeginSeq ==
  ASSUME NEW g, NEW s, SeqInv(g, s), s = << >>, NEW c \in DOMAIN g, Kind[c] \in {"sensor", "io"},
         NEW v, NEW k, k = << Frame("push", c, NoCtx, {}, v) >> \o s
  PROVE  SeqInv(g, k)
<1>1. PICK f : f = Frame("push", c, NoCtx, {}, v)
  OBVIOUS
<1>2. FrameShape(f) /\ f.at = "push" /\ f.cell = c
  BY <1>1, NewFields DEF Fields
<1>3. Graph(g) /\ FreshBut(g, {}) /\ Sequence(s) /\ WriteStack(g, s)
  BY IdleIs, EmptyStack
<1>4. WriteFrameOK(g, f)
  BY <1>2 DEF WriteFrameOK, Writing
<1>5. {} \subseteq Pending(g, f) \cup Unmarked(g, s)
  OBVIOUS
<1> QED BY <1>1, <1>3, <1>4, <1>5, WriteGoes

LEMMA PushWriteSeq ==
  ASSUME OneAtATime, NEW g, NEW s, SeqInv(g, s), s # << >>, s[1].at = "push",
         NEW h, h = Pushed(g, s[1].cell, s[1].data),
         NEW k, k = << ButAtData(s[1], "notify", NoData) >> \o Tail(s)
  PROVE  s[1].cell \in DOMAIN g /\ SeqInv(h, k)
<1>1. PICK f, r, c : f = s[1] /\ r = Tail(s) /\ c = f.cell
  OBVIOUS
<1>2. /\ Graph(g) /\ FreshBut(g, Pending(g, f) \cup Unmarked(g, r)) /\ WriteFrameOK(g, f)
      /\ Sequence(r) /\ WriteStack(g, r)
  BY <1>1, WriterIs DEF Writing
<1>3. c \in DOMAIN g /\ Kind[c] \in {"sensor", "io"} /\ FrameShape(f)
  BY <1>1, <1>2 DEF WriteFrameOK
<1>4. Changed(g, h, c)
  BY <1>1, <1>2, <1>3, PushedAt DEF Graph
<1>5. PICK e : e = ButAtData(f, "notify", NoData)
  OBVIOUS
<1>6. FrameShape(e) /\ e.at = "notify" /\ e.cell = c
  BY <1>1, <1>3, <1>5, FieldsAtData DEF Fields
<1>7. WriteFrameOK(h, e) /\ WriteStack(h, r)
  BY <1>2, <1>4, <1>6, WriteStays DEF WriteFrameOK, Writing
<1>8. Pending(g, f) = {}
  BY <1>1 DEF Pending
<1>9. Pending(h, e) = After(g, {c}) /\ Unmarked(h, r) = Unmarked(g, r)
  <2>1. After(h, {c}) = After(g, {c}) /\ Unmarked(h, r) = Unmarked(g, r)
    BY <1>2, <1>4, SameAfter, SameUnmarked DEF Graph
  <2> QED BY <1>6, <2>1 DEF Pending
<1>10. PICK U, V : U = Unmarked(g, r) /\ V = After(g, {c}) \cup Unmarked(g, r)
  OBVIOUS
<1>11. FreshBut(h, V)
  <2>1. FreshBut(g, U) /\ U \ {c} \subseteq V /\ After(g, {c}) \subseteq V
    BY <1>2, <1>8, <1>10
  <2>2. Kind[c] # "formula"
    BY <1>3
  <2> QED BY <1>2, <1>3, <1>4, <2>1, <2>2, FreshAfterWrite DEF Graph
<1>12. Graph(h)
  <2>1. Kind[c] # "value"
    BY <1>3
  <2>2. ValuesReady(h)
    BY <1>2, <1>4, <2>1, ReadyAfter DEF Graph
  <2> QED BY <1>2, <1>4, <2>2, SameEdges DEF Graph, Changed
<1>13. V \subseteq Pending(h, e) \cup Unmarked(h, r)
  BY <1>9, <1>10
<1> QED BY <1>1, <1>2, <1>3, <1>5, <1>7, <1>11, <1>12, <1>13, WriteGoes

\* A step of the innermost call of a write that leaves the graph alone and
\* forgets nothing of what is pending.
LEMMA WriterGoesOn ==
  ASSUME NEW g, NEW s, SeqInv(g, s), s # << >>, s[1].at \in Writing,
         NEW f, WriteFrameOK(g, f), Pending(g, s[1]) \subseteq Pending(g, f),
         NEW k, k = << f >> \o Tail(s)
  PROVE  SeqInv(g, k)
<1>1. PICK e, r, V : e = s[1] /\ r = Tail(s) /\ V = Pending(g, s[1]) \cup Unmarked(g, r)
  OBVIOUS
<1>2. /\ Graph(g) /\ FreshBut(g, V) /\ Sequence(r) /\ WriteStack(g, r)
  BY <1>1, WriterIs
<1>3. V \subseteq Pending(g, f) \cup Unmarked(g, r)
  BY <1>1
<1> QED BY <1>1, <1>2, <1>3, WriteGoes

LEMMA NotifySeq ==
  ASSUME NEW g, NEW s, SeqInv(g, s), s # << >>, s[1].at \in {"notify", "send"},
         NEW f, Fields(f, f.at, s[1].cell, s[1].ctx, s[1].near, s[1].todo, s[1].seen, f.data),
         f.at \in {"send", "propagate"}, NEW k, k = << f >> \o Tail(s)
  PROVE  SeqInv(g, k)
<1>1. f.cell = s[1].cell /\ FrameShape(f)
  BY DEF Fields
<1>2. Pending(g, s[1]) = After(g, {s[1].cell}) /\ Pending(g, f) = After(g, {f.cell})
  BY DEF Pending
<1>3. WriteFrameOK(g, f)
  BY <1>1 DEF WriteFrameOK, Writing
<1>4. s[1].at \in Writing
  BY DEF Writing
<1> QED BY <1>1, <1>2, <1>3, <1>4, WriterGoesOn

LEMMA PropagateSeq ==
  ASSUME NEW g, NEW s, SeqInv(g, s), s # << >>, s[1].at = "propagate",
         NEW ds, ds = IF s[1].cell \in DOMAIN g THEN g[s[1].cell].dependents ELSE {},
         NEW k, k = << ButAtNearTodo(s[1], "mark", ds, ds) >> \o Tail(s)
  PROVE  SeqInv(g, k)
<1>1. PICK e, c : e = s[1] /\ c = s[1].cell
  OBVIOUS
<1>2. Graph(g) /\ WriteFrameOK(g, e)
  BY <1>1, WriterIs DEF Writing
<1>3. PICK f : f = ButAtNearTodo(e, "mark", ds, ds)
  OBVIOUS
<1>4. FrameShape(f) /\ f.at = "mark" /\ f.near = ds /\ f.todo = ds
  BY <1>2, <1>3, FieldsAtNearTodo DEF Fields, WriteFrameOK
<1>5. \A d \in ds : MayNeed(d) # {}
  BY <1>1, <1>2 DEF Graph, Edges
<1>6. WriteFrameOK(g, f)
  BY <1>4, <1>5 DEF WriteFrameOK, Writing
<1>7. Pending(g, e) = After(g, {c}) /\ Pending(g, f) = ds \cup After(g, ds)
  BY <1>1, <1>4 DEF Pending
<1>8. Pending(g, e) \subseteq Pending(g, f)
  <2>1. CASE c \in DOMAIN g
    BY <1>1, <1>2, <1>7, <2>1, AfterOne DEF Graph
  <2>2. CASE c \notin DOMAIN g
    <3>1. {c} \cap DOMAIN g = {}
      BY <2>2
    <3>2. After(g, {c}) = {}
      BY <3>1, NothingAfter
    <3> QED BY <1>7, <3>2
  <2> QED BY <2>1, <2>2
<1>9. s[1].at \in Writing
  BY DEF Writing
<1> QED BY <1>1, <1>3, <1>6, <1>8, <1>9, WriterGoesOn

\* A dependent that is not marked stale, being neither formula nor value, or gone,
\* was never unfresh.
LEMMA PassOver ==
  ASSUME NEW g, NEW U, FreshBut(g, U), NEW d, ~ (d \in DOMAIN g /\ Kind[d] \in {"formula", "value"})
  PROVE  FreshBut(g, U \ {d})
BY DEF FreshBut, Formulas

LEMMA MarkStaleSeq ==
  ASSUME OneAtATime, NEW g, NEW s, SeqInv(g, s), s # << >>, s[1].at = "mark", NEW d \in s[1].todo,
         NEW h, h = IF d \in DOMAIN g /\ Kind[d] \in {"formula", "value"}
                    THEN Reset(g, d, StaleValue) ELSE g,
         NEW k, k = << ButJustTodo(s[1], s[1].todo \ {d}) >> \o Tail(s)
  PROVE  SeqInv(h, k)
<1>1. PICK e, r : e = s[1] /\ r = Tail(s)
  OBVIOUS
<1>2. /\ Graph(g) /\ FreshBut(g, Pending(g, e) \cup Unmarked(g, r)) /\ WriteFrameOK(g, e)
      /\ Sequence(r) /\ WriteStack(g, r)
  BY <1>1, WriterIs DEF Writing
<1>3. PICK f : f = ButJustTodo(e, e.todo \ {d})
  OBVIOUS
<1>4. FrameShape(f) /\ f.at = "mark" /\ f.near = e.near /\ f.todo = e.todo \ {d}
  BY <1>1, <1>2, <1>3, FieldsJustTodo DEF Fields, WriteFrameOK
<1>5. e.at = "mark" /\ e.todo \subseteq e.near /\ d \in e.near /\ \A a \in e.near : MayNeed(a) # {}
  BY <1>1, <1>2 DEF WriteFrameOK
<1>6. PICK U, V : /\ U = (e.todo \cup After(g, e.near)) \cup Unmarked(g, r)
                  /\ V = ((e.todo \ {d}) \cup After(g, e.near)) \cup Unmarked(g, r)
  OBVIOUS
<1>7. FreshBut(g, U)
  BY <1>2, <1>5, <1>6 DEF Pending
<1>8. U \ {d} \subseteq V
  BY <1>6
<1>9. \A a : WriteFrameOK(a, f)
  BY <1>4, <1>5 DEF WriteFrameOK, Writing
<1>10. CASE ~ (d \in DOMAIN g /\ Kind[d] \in {"formula", "value"})
  <2>1. h = g
    BY <1>10
  <2>2. FreshBut(g, V)
    BY <1>7, <1>8, <1>10, PassOver, FreshMore
  <2>3. V \subseteq Pending(g, f) \cup Unmarked(g, r)
    BY <1>4, <1>6 DEF Pending
  <2> QED BY <1>1, <1>2, <1>3, <1>9, <2>1, <2>2, <2>3, WriteGoes
<1>11. CASE d \in DOMAIN g /\ Kind[d] \in {"formula", "value"}
  <2>1. h = Reset(g, d, StaleValue)
    BY <1>11
  <2>2. Changed(g, h, d) /\ h[d].cache = << >>
    BY <1>2, <1>11, <2>1, ResetAt DEF Graph
  <2>3. {d} \subseteq e.near
    BY <1>5
  <2>4. After(g, {d}) \subseteq V
    BY <1>6, <2>3, AfterMore
  <2>5. FreshBut(h, V)
    BY <1>2, <1>7, <1>8, <1>11, <2>2, <2>4, FreshAfterWrite DEF Graph
  <2>6. ~ (d \in Callable /\ Kind[d] = "value")
    BY <1>5 DEF OneAtATime
  <2>7. ValuesReady(h)
    BY <1>2, <2>2, <2>6, ReadyAfter DEF Graph
  <2>8. Graph(h)
    <3>1. Edges(g) /\ Changed(g, h, d)
      BY <1>2, <2>2 DEF Graph
    <3>2. Edges(h)
      BY <3>1, SameEdges
    <3>3. Shapes(h)
      BY <3>1 DEF Changed
    <3> QED BY <2>7, <3>2, <3>3 DEF Graph
  <2>9. After(h, f.near) = After(g, e.near) /\ Unmarked(h, r) = Unmarked(g, r)
    BY <1>2, <1>4, <2>2, SameAfter, SameUnmarked DEF Graph
  <2>10. V \subseteq Pending(h, f) \cup Unmarked(h, r)
    BY <1>4, <1>6, <2>9 DEF Pending
  <2>11. WriteStack(h, r)
    BY <1>2, <2>2, WriteStays
  <2> QED BY <1>1, <1>2, <1>3, <1>9, <2>5, <2>8, <2>10, <2>11, WriteGoes
<1> QED BY <1>10, <1>11

LEMMA ToRecurseSeq ==
  ASSUME NEW g, NEW s, SeqInv(g, s), s # << >>, s[1].at = "mark", s[1].todo = {},
         NEW k, k = << ButAtTodo(s[1], "recurse", s[1].near) >> \o Tail(s)
  PROVE  SeqInv(g, k)
<1>1. PICK e, f : e = s[1] /\ f = ButAtTodo(e, "recurse", e.near)
  OBVIOUS
<1>2. WriteFrameOK(g, e)
  BY <1>1, WriterIs DEF Writing
<1>3. FrameShape(f) /\ f.at = "recurse" /\ f.todo = e.near
  BY <1>1, <1>2, FieldsAtTodo DEF Fields, WriteFrameOK
<1>4. WriteFrameOK(g, f)
  BY <1>3 DEF WriteFrameOK, Writing
<1>5. Pending(g, e) \subseteq Pending(g, f)
  BY <1>1, <1>3 DEF Pending
<1>6. s[1].at \in Writing
  BY DEF Writing
<1> QED BY <1>1, <1>4, <1>5, <1>6, WriterGoesOn

LEMMA RecurseIntoSeq ==
  ASSUME NEW g, NEW s, SeqInv(g, s), s # << >>, s[1].at = "recurse", NEW d \in s[1].todo
  PROVE  SeqInv(g, << Frame("propagate", d, NoCtx, {}, NoData),
                      ButJustTodo(s[1], s[1].todo \ {d}) >> \o Tail(s))
<1>1. PICK e, r, f, h : /\ e = s[1] /\ r = Tail(s) /\ f = ButJustTodo(e, e.todo \ {d})
                        /\ h = Frame("propagate", d, NoCtx, {}, NoData)
  OBVIOUS
<1>2. /\ Graph(g) /\ FreshBut(g, Pending(g, e) \cup Unmarked(g, r)) /\ WriteFrameOK(g, e)
      /\ Sequence(r) /\ WriteStack(g, r)
  BY <1>1, WriterIs DEF Writing
<1>3. FrameShape(f) /\ f.at = "recurse" /\ f.todo = e.todo \ {d}
  BY <1>1, <1>2, FieldsJustTodo DEF Fields, WriteFrameOK
<1>4. FrameShape(h) /\ h.at = "propagate" /\ h.cell = d
  BY <1>1, NewFields DEF Fields
<1>5. WriteFrameOK(g, f) /\ WriteFrameOK(g, h)
  BY <1>3, <1>4 DEF WriteFrameOK, Writing
<1>6. PICK q : q = << f >> \o r
  OBVIOUS
<1>7. Sequence(q) /\ WriteStack(g, q) /\ Unmarked(g, q) = Pending(g, f) \cup Unmarked(g, r)
  BY <1>2, <1>5, <1>6, HeadAndRest, WriteOf, UnmarkedOf
<1>8. PICK V : V = Pending(g, e) \cup Unmarked(g, r)
  OBVIOUS
<1>9. V \subseteq Pending(g, h) \cup Unmarked(g, q)
  <2>1. Pending(g, e) = After(g, e.todo)
    BY <1>1 DEF Pending
  <2>2. Pending(g, f) = After(g, e.todo \ {d}) /\ Pending(g, h) = After(g, {d})
    BY <1>3, <1>4 DEF Pending
  <2>3. After(g, e.todo) \subseteq After(g, {d}) \cup After(g, e.todo \ {d})
    BY AfterSplit
  <2> QED BY <1>7, <1>8, <2>1, <2>2, <2>3
<1>10. << h, f >> \o r = << h >> \o q
  BY <1>2, <1>6, ConsTwo DEF Sequence
<1>11. FreshBut(g, V)
  BY <1>2, <1>8
<1>12. SeqInv(g, << h, f >> \o r)
  BY <1>2, <1>5, <1>7, <1>9, <1>10, <1>11, WriteGoes
<1> QED BY <1>1, <1>12

LEMMA LeaveSeq ==
  ASSUME NEW g, NEW s, SeqInv(g, s), s # << >>, s[1].at = "recurse", s[1].todo = {}
  PROVE  SeqInv(g, Tail(s))
<1>1. PICK e, r : e = s[1] /\ r = Tail(s)
  OBVIOUS
<1>2. /\ Graph(g) /\ FreshBut(g, Pending(g, e) \cup Unmarked(g, r)) /\ Sequence(r) /\ WriteStack(g, r)
  BY <1>1, WriterIs DEF Writing
<1>3. Pending(g, e) = {}
  <2>1. {} \cap DOMAIN g = {}
    OBVIOUS
  <2>2. After(g, {}) = {}
    BY <2>1, NothingAfter
  <2> QED BY <1>1, <2>2 DEF Pending
<1>4. FreshBut(g, Unmarked(g, r))
  BY <1>2, <1>3
<1> QED BY <1>1, <1>2, <1>4 DEF SeqInv

-----------------------------------------------------------------------------
\* One thread, and the graph and the calls it works on.

SeqNow ==
  /\ stack = [u \in Thread |-> stack[u]] /\ answer = [u \in Thread |-> answer[u]]
  /\ \A u \in Thread : SeqInv(cells, stack[u])

\* The callers call formulas and values only: what a call of a sensor caches is
\* not cleared by the next push.
CallsValues == \A c \in Callable : Kind[c] \in {"value", "formula"}

\* Nothing is answered between a and b, or what has been is right of the graph h.
RightAnswer(a, b, h) ==
  b # a /\ b # None =>
    b[1].value = IF Kind[b[1].cell] = "value" THEN ValueOf(b[1].cell, h[b[1].cell])
                 ELSE Worth(h, b[1].ctx)[b[1].cell]

LEMMA SomeIs ==
  ASSUME NEW c, NEW x, NEW v, NEW n, NEW b, b = Some(c, x, v, n)
  PROVE  b # None /\ b[1].cell = c /\ b[1].ctx = x /\ b[1].value = v
BY DEF Some, None

\* The threads have been answered right.
Answered ==
  /\ answer' = [u \in Thread |-> answer'[u]]
  /\ CallsValues => \A u \in Thread : RightAnswer(answer[u], answer'[u], cells')

\* The thread's step, seen from its stack.
LEMMA ThreadGoes ==
  ASSUME OneAtATime, SeqNow, NEW t \in Thread, NEW k, stack' = [stack EXCEPT ![t] = k],
         SeqInv(cells', k), Answered
  PROVE  SeqNow'
<1>1. \A u \in Thread : u = t
  BY DEF OneAtATime
<1>2. stack' = [u \in Thread |-> stack'[u]] /\ stack'[t] = k
  BY DEF SeqNow
<1> QED BY <1>1, <1>2 DEF SeqNow, Answered

\* Nothing answered.
LEMMA QuietAnswer ==
  ASSUME SeqNow, answer' = answer
  PROVE  Answered
BY DEF SeqNow, RightAnswer, Answered

LEMMA BegunAnswer ==
  ASSUME OneAtATime, SeqNow, NEW t \in Thread, Begin(t)
  PROVE  Answered
<1>1. answer' = [answer EXCEPT ![t] = None] /\ \A u \in Thread : u = t
  BY DEF Begin, OneAtATime
<1>2. answer' = [u \in Thread |-> answer'[u]] /\ answer'[t] = None
  BY <1>1 DEF SeqNow
<1> QED BY <1>1, <1>2 DEF RightAnswer, Answered

\* A return answers the caller or nobody.
LEMMA ReturnAnswer ==
  ASSUME OneAtATime, SeqNow, NEW t \in Thread, NEW v, Return(t, v),
         v = IF Kind[Top(t).cell] = "value" THEN ValueOf(Top(t).cell, cells'[Top(t).cell])
             ELSE Worth(cells', Top(t).ctx)[Top(t).cell]
  PROVE  /\ Answered
         /\ stack' = [stack EXCEPT ![t] = AfterReturn(Tail(stack[t]), v)]
<1>1. \A u \in Thread : u = t
  BY DEF OneAtATime
<1>2. stack' = [stack EXCEPT ![t] = AfterReturn(Tail(stack[t]), v)]
  BY DEF Return, AfterReturn, ButAtData
<1>3. CASE answer' = answer
  BY <1>2, <1>3, QuietAnswer
<1>4. CASE answer' = [answer EXCEPT ![t] = Some(Top(t).cell, Top(t).ctx, v, ops)]
  <2>1. PICK c, x, b : c = Top(t).cell /\ x = Top(t).ctx /\ b = Some(c, x, v, ops)
    OBVIOUS
  <2>2. answer' = [u \in Thread |-> answer'[u]] /\ answer'[t] = b
    BY <1>4, <2>1 DEF SeqNow
  <2>3. b[1].cell = c /\ b[1].ctx = x /\ b[1].value = v
    BY <2>1, SomeIs
  <2>4. RightAnswer(answer[t], b, cells')
    BY <2>1, <2>3 DEF RightAnswer
  <2> QED BY <1>1, <1>2, <2>2, <2>4 DEF Answered
<1> QED BY <1>3, <1>4 DEF Return

-----------------------------------------------------------------------------
\* One lemma per action.

LEMMA TopIs ==
  ASSUME SeqNow, NEW t \in Thread, NEW at, At(t, at)
  PROVE  /\ SeqInv(cells, stack[t]) /\ stack[t] # << >>
         /\ Top(t) = stack[t][1] /\ stack[t][1].at = at
BY DEF SeqNow, At, Idle, Top

LEMMA IdleNow ==
  ASSUME SeqNow, NEW t \in Thread, Begin(t)
  PROVE  SeqInv(cells, stack[t]) /\ stack[t] = << >>
BY DEF SeqNow, Begin, Idle

LEMMA GetBeginFresh ==
  ASSUME OneAtATime, SeqNow, NEW t \in Thread, NEW c \in Cell, NEW x, GetBegin(t, c, x)
  PROVE  SeqNow' /\ Answered
<1>1. Begin(t) /\ c \in DOMAIN cells /\ cells' = cells
  BY DEF GetBegin, IsLoaded
<1>2. PICK k : k = << GetFrame(c, x) >> \o stack[t]
  OBVIOUS
<1>3. stack' = [stack EXCEPT ![t] = k]
  BY <1>2 DEF GetBegin, Enter
<1>4. SeqInv(cells', k)
  BY <1>1, <1>2, IdleNow, GetBeginSeq
<1>5. Answered
  BY <1>1, BegunAnswer
<1> QED BY <1>3, <1>4, <1>5, ThreadGoes

LEMMA CallBeginFresh ==
  ASSUME OneAtATime, SeqNow, NEW t \in Thread, NEW c \in Cell, c \in Callable, NEW x,
         CallBegin(t, c, x)
  PROVE  SeqNow' /\ Answered
<1>1. Begin(t) /\ c \in DOMAIN cells /\ cells' = cells
  BY DEF CallBegin, IsLoaded
<1>2. PICK k : k = << GetFrame(c, x), Frame("await", c, x, {}, NoData) >>
  OBVIOUS
<1>3. stack' = [stack EXCEPT ![t] = k]
  BY <1>2 DEF CallBegin
<1>4. SeqInv(cells', k)
  BY <1>1, <1>2, IdleNow, CallBeginSeq
<1>5. Answered
  BY <1>1, BegunAnswer
<1> QED BY <1>3, <1>4, <1>5, ThreadGoes

\* A call that hits the cache is answered what the cell is worth.
LEMMA CallHitFresh ==
  ASSUME OneAtATime, SeqNow, NEW t \in Thread, NEW c \in Cell, c \in Callable, NEW x,
         CallHit(t, c, x)
  PROVE  SeqNow' /\ Answered
<1>1. /\ cells' = cells /\ stack' = stack /\ c \in DOMAIN cells /\ x \in DOMAIN cells[c].cache
      /\ stack[t] = << >> /\ \A u \in Thread : u = t
  BY DEF CallHit, CacheHas, IsLoaded, Idle, OneAtATime
<1>2. PICK v, b : v = cells[c].cache[x] /\ b = Some(c, x, v, ops')
  OBVIOUS
<1>3. answer' = [answer EXCEPT ![t] = b]
  BY <1>2 DEF CallHit
<1>4. answer' = [u \in Thread |-> answer'[u]] /\ answer'[t] = b
  BY <1>3 DEF SeqNow
<1>5. Graph(cells) /\ FreshBut(cells, {})
  <2>1. SeqInv(cells, stack[t])
    BY DEF SeqNow
  <2> QED BY <1>1, <2>1, IdleIs
<1>6. ASSUME CallsValues
      PROVE  v = IF Kind[c] = "value" THEN ValueOf(c, cells[c]) ELSE Worth(cells, x)[c]
  <2>1. CASE Kind[c] = "value"
    <3>1. cells[c].value.status = "ready" /\ v = cells[c].value
      BY <1>1, <1>2, <1>5, <2>1 DEF Graph, ValuesReady
    <3> QED BY <2>1, <3>1 DEF ValueOf
  <2>2. CASE Kind[c] = "formula"
    BY <1>1, <1>2, <1>5, <2>2 DEF FreshBut, FreshIn, Formulas
  <2> QED BY <1>6, <2>1, <2>2 DEF CallsValues
<1>7. b[1].cell = c /\ b[1].ctx = x /\ b[1].value = v
  BY <1>2, SomeIs
<1>8. ASSUME CallsValues PROVE RightAnswer(answer[t], b, cells)
  BY <1>6, <1>7, <1>8 DEF RightAnswer
<1>9. Answered
  BY <1>1, <1>4, <1>8 DEF Answered
<1> QED BY <1>1, <1>4, <1>9 DEF SeqNow

LEMMA ReadCellFresh ==
  ASSUME OneAtATime, SeqNow, NEW t \in Thread, ReadCell(t)
  PROVE  SeqNow' /\ Answered
<1>1. /\ SeqInv(cells, stack[t]) /\ stack[t] # << >> /\ Top(t) = stack[t][1]
      /\ stack[t][1].at = "read"
  BY TopIs DEF ReadCell
<1>2. PICK g, s, f, c : g = cells /\ s = stack[t] /\ f = s[1] /\ c = f.cell
  OBVIOUS
<1>3. Graph(g) /\ GetFrameOK(g, f) /\ f.at = "read"
  BY <1>1, <1>2, GetterIs DEF Getting
<1>4. c \in DOMAIN g /\ Kind[c] # "formula"
  BY <1>2, <1>3 DEF GetFrameOK, ReadingOK
<1>5. PICK v : v = IF Kind[c] = "value" THEN ValueOf(c, g[c]) ELSE g[c].value
  OBVIOUS
<1>6. Return(t, v) /\ cells' = g
  BY <1>1, <1>2, <1>4, <1>5 DEF ReadCell, IsLoaded
<1>7. PICK k : k = AfterReturn(Tail(s), v)
  OBVIOUS
<1>8. SeqInv(g, k)
  BY <1>1, <1>2, <1>5, <1>7, ReadCellSeq
<1>9. Worth(g, f.ctx)[c] = g[c].value
  BY <1>3, <1>4, WorthParts DEF Graph
<1>10. Answered /\ stack' = [stack EXCEPT ![t] = k]
  <2>1. v = IF Kind[Top(t).cell] = "value" THEN ValueOf(Top(t).cell, cells'[Top(t).cell])
            ELSE Worth(cells', Top(t).ctx)[Top(t).cell]
    BY <1>1, <1>2, <1>5, <1>6, <1>9
  <2> QED BY <1>2, <1>6, <1>7, <2>1, ReturnAnswer
<1> QED BY <1>6, <1>8, <1>10, ThreadGoes

\* The innermost call goes on as f, and nobody is answered.
LEMMA OnlyGoes ==
  ASSUME OneAtATime, SeqNow, NEW t \in Thread, NEW f, Goto(t, f), answer' = answer,
         NEW k, k = << f >> \o Tail(stack[t]), SeqInv(cells', k)
  PROVE  SeqNow' /\ Answered
<1>1. stack' = [stack EXCEPT ![t] = k]
  BY DEF Goto
<1>2. Answered
  BY QuietAnswer
<1> QED BY <1>1, <1>2, ThreadGoes

LEMMA CollectFresh ==
  ASSUME OneAtATime, SeqNow, NEW t \in Thread, Collect(t)
  PROVE  SeqNow' /\ Answered
<1>1. /\ SeqInv(cells, stack[t]) /\ stack[t] # << >> /\ Top(t) = stack[t][1]
      /\ stack[t][1].at = "collect" /\ cells' = cells /\ answer' = answer
  BY TopIs DEF Collect
<1>2. PICK g, s, ds : g = cells /\ s = stack[t]
                      /\ ds = IF s[1].cell \in DOMAIN g THEN g[s[1].cell].deps ELSE {}
  OBVIOUS
<1>3. PICK f, k : f = ButAtNearTodo(s[1], "deps", ds, ds \cap Formulas) /\ k = << f >> \o Tail(s)
  OBVIOUS
<1>4. Goto(t, f)
  BY <1>1, <1>2, <1>3 DEF Collect, IsLoaded, ButAtNearTodo
<1>5. SeqInv(g, k)
  BY <1>1, <1>2, <1>3, CollectSeq
<1> QED BY <1>1, <1>2, <1>3, <1>4, <1>5, OnlyGoes

LEMMA GetDependencyFresh ==
  ASSUME OneAtATime, SeqNow, NEW t \in Thread, GetDependency(t)
  PROVE  SeqNow' /\ Answered
<1>1. /\ SeqInv(cells, stack[t]) /\ stack[t] # << >> /\ Top(t) = stack[t][1]
      /\ stack[t][1].at = "deps" /\ cells' = cells /\ answer' = answer
  BY TopIs DEF GetDependency
<1>2. PICK d \in Top(t).todo :
        IF IsLoaded(d)
        THEN stack' = [stack EXCEPT ![t] =
                         << GetFrame(d, Top(t).ctx), ButJustTodo(Top(t), Top(t).todo \ {d}) >> \o Tail(@)]
        ELSE Goto(t, ButJustTodo(Top(t), Top(t).todo \ {d}))
  BY DEF GetDependency, ButJustTodo
<1>3. PICK g, s, k :
        /\ g = cells /\ s = stack[t]
        /\ k = << GetFrame(d, s[1].ctx), ButJustTodo(s[1], s[1].todo \ {d}) >> \o Tail(s)
  OBVIOUS
<1>4. d \in DOMAIN g /\ SeqInv(g, k)
  BY <1>1, <1>2, <1>3, GetDependencySeq
<1>5. stack' = [stack EXCEPT ![t] = k]
  BY <1>1, <1>2, <1>3, <1>4 DEF IsLoaded
<1>6. Answered
  BY <1>1, QuietAnswer
<1> QED BY <1>1, <1>3, <1>4, <1>5, <1>6, ThreadGoes

LEMMA TakeSnapshotFresh ==
  ASSUME OneAtATime, SeqNow, NEW t \in Thread, TakeSnapshot(t)
  PROVE  SeqNow' /\ Answered
<1>1. /\ SeqInv(cells, stack[t]) /\ stack[t] # << >> /\ Top(t) = stack[t][1]
      /\ stack[t][1].at = "deps" /\ stack[t][1].todo = {} /\ cells' = cells /\ answer' = answer
  BY TopIs DEF TakeSnapshot
<1>2. PICK g, s, seen :
        g = cells /\ s = stack[t]
        /\ seen = [d \in s[1].near \cap DOMAIN g |-> Operand(g, s[1].ctx, d)]
  OBVIOUS
<1>3. PICK f, k : f = ButAtSeen(s[1], "evaluate", seen) /\ k = << f >> \o Tail(s)
  OBVIOUS
<1>4. Goto(t, f)
  BY <1>1, <1>2, <1>3 DEF TakeSnapshot, Operand, ButAtSeen
<1>5. SeqInv(g, k)
  BY <1>1, <1>2, <1>3, TakeSnapshotSeq
<1> QED BY <1>1, <1>2, <1>3, <1>4, <1>5, OnlyGoes

LEMMA EvaluateFresh ==
  ASSUME OneAtATime, SeqNow, NEW t \in Thread, Evaluate(t)
  PROVE  SeqNow' /\ Answered
<1>1. /\ SeqInv(cells, stack[t]) /\ stack[t] # << >> /\ Top(t) = stack[t][1]
      /\ stack[t][1].at = "evaluate"
  BY TopIs DEF Evaluate
<1>2. PICK g, s, v : g = cells /\ s = stack[t]
                     /\ v = FormulaOf(s[1].cell, g[s[1].cell], s[1].ctx, s[1].seen)
  OBVIOUS
<1>3. PICK f, k : f = ButAtData(s[1], "store", v) /\ k = << f >> \o Tail(s)
  OBVIOUS
<1>4. s[1].cell \in DOMAIN g /\ SeqInv(g, k)
  BY <1>1, <1>2, <1>3, EvaluateSeq
<1>5. Goto(t, f) /\ cells' = cells /\ answer' = answer
  BY <1>1, <1>2, <1>3, <1>4 DEF Evaluate, IsLoaded, ButAtData
<1> QED BY <1>2, <1>3, <1>4, <1>5, OnlyGoes

LEMMA StoreFresh ==
  ASSUME OneAtATime, SeqNow, NEW t \in Thread, Store(t)
  PROVE  SeqNow' /\ Answered
<1>1. /\ SeqInv(cells, stack[t]) /\ stack[t] # << >> /\ Top(t) = stack[t][1]
      /\ stack[t][1].at = "store"
  BY TopIs DEF Store
<1>2. PICK g, s, f, c, x, v : /\ g = cells /\ s = stack[t] /\ f = s[1] /\ c = f.cell /\ x = f.ctx
                              /\ v = f.data
  OBVIOUS
<1>3. c \in DOMAIN g /\ Graph(g) /\ GetFrameOK(g, f) /\ f.at = "store" /\ v = Result(g, x, c)
  BY <1>1, <1>2, StoreValue, GetterIs DEF Getting
<1>4. PICK h, k : h = Stored(g, c, x, v) /\ k = AfterReturn(Tail(s), v)
  OBVIOUS
<1>5. SeqInv(h, k) /\ Result(h, x, c) = v
  BY <1>1, <1>2, <1>4, StoreSeq
<1>6. cells' = h /\ Return(t, v)
  BY <1>1, <1>2, <1>3, <1>4 DEF Store, Stored, IsLoaded
<1>7. Graph(h) /\ c \in DOMAIN h
  BY <1>3, <1>4, <1>5 DEF SeqInv, Stored
<1>8. v = IF Kind[c] = "value" THEN ValueOf(c, h[c]) ELSE Worth(h, x)[c]
  <2>1. CASE Kind[c] = "formula"
    BY <1>5, <2>1 DEF Result
  <2>2. CASE Kind[c] = "value"
    <3>1. c \in Callable
      BY <1>2, <1>3, <2>2 DEF GetFrameOK, ReadingOK
    <3>2. h[c].value.status = "ready"
      BY <1>7, <2>2, <3>1 DEF Graph, ValuesReady
    <3>3. v = h[c].value
      BY <1>5, <2>2 DEF Result
    <3> QED BY <2>2, <3>2, <3>3 DEF ValueOf
  <2>3. CASE Kind[c] # "formula" /\ Kind[c] # "value"
    <3>1. Worth(h, x)[c] = h[c].value
      BY <1>7, <2>3, WorthParts DEF Graph
    <3> QED BY <1>5, <2>3, <3>1 DEF Result
  <2> QED BY <2>1, <2>2, <2>3
<1>9. Answered /\ stack' = [stack EXCEPT ![t] = k]
  <2>1. v = IF Kind[Top(t).cell] = "value" THEN ValueOf(Top(t).cell, cells'[Top(t).cell])
            ELSE Worth(cells', Top(t).ctx)[Top(t).cell]
    BY <1>1, <1>2, <1>6, <1>8
  <2> QED BY <1>2, <1>4, <1>6, <2>1, ReturnAnswer
<1> QED BY <1>5, <1>6, <1>9, ThreadGoes

LEMMA SetWriteFresh ==
  ASSUME OneAtATime, SeqNow, NEW t \in Thread, NEW c, NEW d, SetWrite(t, c, d)
  PROVE  SeqNow' /\ Answered
<1>1. Begin(t) /\ c \in DOMAIN cells /\ cells' = Reset(cells, c, ReadyValue(d))
  BY DEF SetWrite, IsLoaded, Reset
<1>2. PICK k : k = << Frame("notify", c, NoCtx, {}, NoData) >> \o stack[t]
  OBVIOUS
<1>3. stack' = [stack EXCEPT ![t] = k]
  BY <1>2 DEF SetWrite, Enter
<1>4. PICK g, h, s : g = cells /\ h = Reset(g, c, ReadyValue(d)) /\ s = stack[t]
  OBVIOUS
<1>5. SeqInv(g, s) /\ s = << >>
  BY <1>1, <1>4, IdleNow
<1>6. SeqInv(h, k)
  BY <1>1, <1>2, <1>4, <1>5, SetWriteSeq
<1>7. SeqInv(cells', k)
  BY <1>1, <1>4, <1>6
<1>8. Answered
  BY <1>1, BegunAnswer
<1> QED BY <1>3, <1>7, <1>8, ThreadGoes

LEMMA PushBeginFresh ==
  ASSUME OneAtATime, SeqNow, NEW t \in Thread, NEW c, NEW d, PushBegin(t, c, d)
  PROVE  SeqNow' /\ Answered
<1>1. Begin(t) /\ c \in DOMAIN cells /\ Kind[c] \in {"sensor", "io"} /\ cells' = cells
  BY DEF PushBegin, IsLoaded
<1>2. PICK k : k = << Frame("push", c, NoCtx, {}, ReadyValue(d)) >> \o stack[t]
  OBVIOUS
<1>3. stack' = [stack EXCEPT ![t] = k]
  BY <1>2 DEF PushBegin, Enter
<1>4. SeqInv(cells', k)
  BY <1>1, <1>2, IdleNow, PushBeginSeq
<1>5. Answered
  BY <1>1, BegunAnswer
<1> QED BY <1>3, <1>4, <1>5, ThreadGoes

LEMMA PushWriteFresh ==
  ASSUME OneAtATime, SeqNow, NEW t \in Thread, PushWrite(t)
  PROVE  SeqNow' /\ Answered
<1>1. /\ SeqInv(cells, stack[t]) /\ stack[t] # << >> /\ Top(t) = stack[t][1]
      /\ stack[t][1].at = "push"
  BY TopIs DEF PushWrite
<1>2. PICK g, s, h, f, k :
        /\ g = cells /\ s = stack[t] /\ h = Pushed(g, s[1].cell, s[1].data)
        /\ f = ButAtData(s[1], "notify", NoData) /\ k = << f >> \o Tail(s)
  OBVIOUS
<1>3. s[1].cell \in DOMAIN g /\ SeqInv(h, k)
  BY <1>1, <1>2, PushWriteSeq
<1>4. Goto(t, f) /\ cells' = h /\ answer' = answer
  BY <1>1, <1>2, <1>3 DEF PushWrite, IsLoaded, ButAtData, Pushed
<1> QED BY <1>2, <1>3, <1>4, OnlyGoes

LEMMA NotifyReadFresh ==
  ASSUME OneAtATime, SeqNow, NEW t \in Thread, NotifyRead(t)
  PROVE  SeqNow' /\ Answered
<1>1. /\ SeqInv(cells, stack[t]) /\ stack[t] # << >> /\ Top(t) = stack[t][1]
      /\ stack[t][1].at = "notify" /\ cells' = cells /\ answer' = answer
  BY TopIs DEF NotifyRead
<1>2. PICK g, s, e, c : g = cells /\ s = stack[t] /\ e = s[1] /\ c = e.cell
  OBVIOUS
<1>3. FrameShape(e)
  BY <1>1, <1>2, WriterIs DEF Writing, WriteFrameOK
<1>4. PICK f : f = IF c \in DOMAIN g THEN ButAtData(e, "send", g[c].value)
                   ELSE [e EXCEPT !.at = "propagate"]
  OBVIOUS
<1>5. /\ Fields(f, f.at, e.cell, e.ctx, e.near, e.todo, e.seen, f.data)
      /\ f.at \in {"send", "propagate"}
  <2>1. CASE c \in DOMAIN g
    BY <1>3, <1>4, <2>1, FieldsAtData DEF Fields
  <2>2. CASE c \notin DOMAIN g
    <3>1. f = [e EXCEPT !.at = "propagate"]
      BY <1>4, <2>2
    <3>2. Fields(f, "propagate", e.cell, e.ctx, e.near, e.todo, e.seen, e.data)
      BY <1>3, <3>1, FieldsAt
    <3> QED BY <3>2 DEF Fields
  <2> QED BY <2>1, <2>2
<1>6. PICK k : k = << f >> \o Tail(s)
  OBVIOUS
<1>7. SeqInv(g, k)
  BY <1>1, <1>2, <1>5, <1>6, NotifySeq
<1>8. Goto(t, f)
  BY <1>1, <1>2, <1>4 DEF NotifyRead, IsLoaded, ButAtData
<1> QED BY <1>1, <1>2, <1>6, <1>7, <1>8, OnlyGoes

LEMMA NotifySendFresh ==
  ASSUME OneAtATime, SeqNow, NEW t \in Thread, NotifySend(t)
  PROVE  SeqNow' /\ Answered
<1>1. /\ SeqInv(cells, stack[t]) /\ stack[t] # << >> /\ Top(t) = stack[t][1]
      /\ stack[t][1].at = "send" /\ cells' = cells /\ answer' = answer
  BY TopIs DEF NotifySend
<1>2. PICK g, s, e, f, k :
        /\ g = cells /\ s = stack[t] /\ e = s[1] /\ f = ButAtData(e, "propagate", NoData)
        /\ k = << f >> \o Tail(s)
  OBVIOUS
<1>3. FrameShape(e)
  BY <1>1, <1>2, WriterIs DEF Writing, WriteFrameOK
<1>4. /\ Fields(f, f.at, e.cell, e.ctx, e.near, e.todo, e.seen, f.data)
      /\ f.at \in {"send", "propagate"}
  BY <1>2, <1>3, FieldsAtData DEF Fields
<1>5. SeqInv(g, k)
  BY <1>1, <1>2, <1>4, NotifySeq
<1>6. Goto(t, f)
  BY <1>1, <1>2 DEF NotifySend, ButAtData
<1> QED BY <1>1, <1>2, <1>5, <1>6, OnlyGoes

LEMMA PropagateFresh ==
  ASSUME OneAtATime, SeqNow, NEW t \in Thread, Propagate(t)
  PROVE  SeqNow' /\ Answered
<1>1. /\ SeqInv(cells, stack[t]) /\ stack[t] # << >> /\ Top(t) = stack[t][1]
      /\ stack[t][1].at = "propagate" /\ cells' = cells /\ answer' = answer
  BY TopIs DEF Propagate
<1>2. PICK g, s, ds : g = cells /\ s = stack[t]
                      /\ ds = IF s[1].cell \in DOMAIN g THEN g[s[1].cell].dependents ELSE {}
  OBVIOUS
<1>3. PICK f, k : f = ButAtNearTodo(s[1], "mark", ds, ds) /\ k = << f >> \o Tail(s)
  OBVIOUS
<1>4. Goto(t, f)
  BY <1>1, <1>2, <1>3 DEF Propagate, IsLoaded, ButAtNearTodo
<1>5. SeqInv(g, k)
  BY <1>1, <1>2, <1>3, PropagateSeq
<1> QED BY <1>1, <1>2, <1>3, <1>4, <1>5, OnlyGoes

LEMMA MarkStaleFresh ==
  ASSUME OneAtATime, SeqNow, NEW t \in Thread, MarkStale(t)
  PROVE  SeqNow' /\ Answered
<1>1. /\ SeqInv(cells, stack[t]) /\ stack[t] # << >> /\ Top(t) = stack[t][1]
      /\ stack[t][1].at = "mark" /\ answer' = answer
  BY TopIs DEF MarkStale
<1>2. PICK d \in Top(t).todo :
        /\ cells' = IF d \in DOMAIN cells /\ Kind[d] \in {"formula", "value"}
                    THEN Reset(cells, d, StaleValue) ELSE cells
        /\ Goto(t, ButJustTodo(Top(t), Top(t).todo \ {d}))
  BY DEF MarkStale, Reset, ButJustTodo, IsLoaded
<1>3. PICK g, s, h : /\ g = cells /\ s = stack[t]
                     /\ h = IF d \in DOMAIN g /\ Kind[d] \in {"formula", "value"}
                            THEN Reset(g, d, StaleValue) ELSE g
  OBVIOUS
<1>4. PICK f, k : f = ButJustTodo(s[1], s[1].todo \ {d}) /\ k = << f >> \o Tail(s)
  OBVIOUS
<1>5. SeqInv(h, k)
  BY <1>1, <1>2, <1>3, <1>4, MarkStaleSeq
<1>6. cells' = h /\ Goto(t, f)
  BY <1>1, <1>2, <1>3, <1>4
<1> QED BY <1>1, <1>3, <1>4, <1>5, <1>6, OnlyGoes

LEMMA RecurseFresh ==
  ASSUME OneAtATime, SeqNow, NEW t \in Thread, Recurse(t)
  PROVE  SeqNow' /\ Answered
<1>1. cells' = cells /\ answer' = answer
  BY DEF Recurse
<1>2. PICK g, s : g = cells /\ s = stack[t]
  OBVIOUS
<1>3. CASE At(t, "mark") /\ Top(t).todo = {} /\ Goto(t, ButAtTodo(Top(t), "recurse", Top(t).near))
  <2>1. SeqInv(g, s) /\ s # << >> /\ Top(t) = s[1] /\ s[1].at = "mark"
    BY <1>2, <1>3, TopIs
  <2>2. PICK f, k : f = ButAtTodo(s[1], "recurse", s[1].near) /\ k = << f >> \o Tail(s)
    OBVIOUS
  <2>3. SeqInv(g, k)
    BY <1>3, <2>1, <2>2, ToRecurseSeq
  <2>4. Goto(t, f)
    BY <1>3, <2>1, <2>2
  <2> QED BY <1>1, <1>2, <2>2, <2>3, <2>4, OnlyGoes
<1>4. CASE At(t, "recurse") /\ \E d \in Top(t).todo :
             stack' = [stack EXCEPT ![t] =
               << Frame("propagate", d, NoCtx, {}, NoData),
                  ButJustTodo(Top(t), Top(t).todo \ {d}) >> \o Tail(@)]
  <2>1. SeqInv(g, s) /\ s # << >> /\ Top(t) = s[1] /\ s[1].at = "recurse"
    BY <1>2, <1>4, TopIs
  <2>2. PICK d \in s[1].todo :
          stack' = [stack EXCEPT ![t] =
            << Frame("propagate", d, NoCtx, {}, NoData),
               ButJustTodo(s[1], s[1].todo \ {d}) >> \o Tail(s)]
    BY <1>2, <1>4, <2>1
  <2>3. PICK k : k = << Frame("propagate", d, NoCtx, {}, NoData),
                        ButJustTodo(s[1], s[1].todo \ {d}) >> \o Tail(s)
    OBVIOUS
  <2>4. SeqInv(g, k)
    BY <2>1, <2>2, <2>3, RecurseIntoSeq
  <2>5. stack' = [stack EXCEPT ![t] = k]
    BY <2>2, <2>3
  <2> QED BY <1>1, <1>2, <2>4, <2>5, QuietAnswer, ThreadGoes
<1>5. CASE At(t, "recurse") /\ Top(t).todo = {} /\ Leave(t)
  <2>1. SeqInv(g, s) /\ s # << >> /\ Top(t) = s[1] /\ s[1].at = "recurse"
    BY <1>2, <1>5, TopIs
  <2>2. SeqInv(g, Tail(s))
    BY <1>5, <2>1, LeaveSeq
  <2>3. stack' = [stack EXCEPT ![t] = Tail(s)]
    BY <1>2, <1>5 DEF Leave
  <2> QED BY <1>1, <1>2, <2>2, <2>3, QuietAnswer, ThreadGoes
<1> QED BY <1>3, <1>4, <1>5 DEF Recurse, ButAtTodo, ButJustTodo

\* A new graph for an idle thread.
LEMMA NewGraph ==
  ASSUME OneAtATime, SeqNow, NEW t \in Thread, Begin(t), stack' = stack,
         Graph(cells'), FreshBut(cells', {})
  PROVE  SeqNow' /\ Answered
<1>1. Answered
  BY BegunAnswer
<1>2. stack[t] = << >> /\ \A u \in Thread : u = t
  BY IdleNow DEF OneAtATime
<1>3. SeqInv(cells', stack[t])
  BY <1>2, IdleGoes
<1> QED BY <1>1, <1>2, <1>3 DEF SeqNow, Answered

LEMMA LoadSheetFresh ==
  ASSUME EngineAssumption, OneAtATime, SeqNow, NEW t \in Thread, NEW sheet \in Sheets,
         LoadSheet(t, sheet)
  PROVE  SeqNow' /\ Answered
<1>1. Begin(t) /\ stack' = stack /\ cells' = Loaded(sheet)
  BY DEF LoadSheet
<1>2. Graph(cells') /\ FreshBut(cells', {})
  BY <1>1, LoadedGraph
<1> QED BY <1>1, <1>2, NewGraph

LEMMA RegisterFresh ==
  ASSUME EngineAssumption, OneAtATime, SeqNow, NEW t \in Thread, NEW c \in Cell, Register(t, c)
  PROVE  SeqNow' /\ Answered
<1>1. Begin(t) /\ stack' = stack /\ cells' = Registered(cells, c) /\ c \notin DOMAIN cells
  BY DEF Register, IsLoaded
<1>2. Graph(cells) /\ FreshBut(cells, {})
  BY <1>1, IdleNow, IdleIs
<1>3. Graph(cells') /\ FreshBut(cells', {})
  BY <1>1, <1>2, RegisteredGraph
<1> QED BY <1>1, <1>3, NewGraph

-----------------------------------------------------------------------------
\* The theorems of one thread.

LEMMA SeqNowInit ==
  ASSUME EngineAssumption, OneAtATime, Init
  PROVE  SeqNow
<1>1. PICK e : e = << >>
  OBVIOUS
<1>2. stack = [u \in Thread |-> e] /\ answer = [u \in Thread |-> e]
  BY <1>1 DEF Init, None
<1>3. Graph(cells) /\ FreshBut(cells, {})
  BY LoadedGraph DEF Init
<1>4. SeqInv(cells, e)
  BY <1>1, <1>3, IdleGoes
<1> QED BY <1>2, <1>4 DEF SeqNow

LEMMA StepFresh ==
  ASSUME OneAtATime, SeqNow, NEW t \in Thread, Step(t)
  PROVE  SeqNow' /\ Answered
<1>1. CASE ReadCell(t) \/ Collect(t) \/ GetDependency(t) \/ TakeSnapshot(t)
  BY <1>1, ReadCellFresh, CollectFresh, GetDependencyFresh, TakeSnapshotFresh
<1>2. CASE Evaluate(t) \/ Store(t) \/ PushWrite(t)
  BY <1>2, EvaluateFresh, StoreFresh, PushWriteFresh
<1>3. CASE NotifyRead(t) \/ NotifySend(t)
  BY <1>3, NotifyReadFresh, NotifySendFresh
<1>4. CASE Propagate(t) \/ MarkStale(t) \/ Recurse(t)
  BY <1>4, PropagateFresh, MarkStaleFresh, RecurseFresh
<1> QED BY <1>1, <1>2, <1>3, <1>4 DEF Step

LEMMA SeqNowStep ==
  ASSUME EngineAssumption, OneAtATime, SeqNow, [Next]_vars
  PROVE  SeqNow' /\ Answered
<1>1. ASSUME NEW t \in Reader, NEW c \in Cell, NEW x \in Ctx, GetBegin(t, c, x)
      PROVE  SeqNow' /\ Answered
  <2>1. t \in Thread
    BY DEF EngineAssumption
  <2> QED BY <1>1, <2>1, GetBeginFresh
<1>2. ASSUME NEW t \in Reader, NEW c \in Callable, NEW x \in Ctx,
             CallBegin(t, c, x) \/ CallHit(t, c, x)
      PROVE  SeqNow' /\ Answered
  <2>1. t \in Thread /\ c \in Cell
    BY DEF EngineAssumption
  <2> QED BY <1>2, <2>1, CallBeginFresh, CallHitFresh
<1>3. ASSUME NEW t \in Writer, NEW d \in Datum, NEW c, SetWrite(t, c, d) \/ PushBegin(t, c, d)
      PROVE  SeqNow' /\ Answered
  <2>1. t \in Thread
    BY DEF EngineAssumption
  <2> QED BY <1>3, <2>1, SetWriteFresh, PushBeginFresh
<1>4. ASSUME NEW t \in Loader,
             (\E s \in Sheets : LoadSheet(t, s)) \/ (\E c \in Cell : Register(t, c))
      PROVE  SeqNow' /\ Answered
  <2>1. t \in Thread
    BY DEF EngineAssumption
  <2> QED BY <1>4, <2>1, LoadSheetFresh, RegisterFresh
<1>5. ASSUME NEW t \in Thread, Step(t) PROVE SeqNow' /\ Answered
  BY <1>5, StepFresh
<1>6. CASE UNCHANGED vars
  <2>1. SeqNow'
    BY <1>6 DEF vars, SeqNow
  <2> QED BY <1>6, <2>1, QuietAnswer DEF vars
<1> QED BY <1>1, <1>2, <1>3, <1>4, <1>5, <1>6 DEF Next

LEMMA SeqNowAlways ==
  ASSUME EngineAssumption, OneAtATime
  PROVE  Spec => []SeqNow
<1>1. Init => SeqNow
  BY SeqNowInit
<1>2. SeqNow /\ [Next]_vars => SeqNow'
  BY SeqNowStep
<1> QED BY <1>1, <1>2, PTL DEF Spec

\* When one thread at a time gets, calls, sets and pushes, loads sheets and
\* registers cells, of sheets without cycles, every result that propagate has
\* left in a context cache of engine.rs is what evaluating the formula now, down
\* to the values it rests on, would give.
THEOREM FreshWhenQuietAlways ==
  ASSUME EngineAssumption, OneAtATime
  PROVE  Spec => []FreshWhenQuiet
<1>1. SeqNow => FreshWhenQuiet
  <2> SUFFICES ASSUME SeqNow, Quiet, NEW c \in Formulas \cap DOMAIN cells, NEW x \in Ctx,
                      CacheHas(cells[c], x)
               PROVE  cells[c].cache[x] = Worth(cells, x)[c]
    BY DEF FreshWhenQuiet
  <2>1. PICK t : t \in Thread
    BY DEF OneAtATime
  <2>2. SeqInv(cells, stack[t]) /\ stack[t] = << >>
    BY <2>1 DEF SeqNow, Quiet, Idle
  <2>3. FreshBut(cells, {})
    BY <2>2, IdleIs
  <2> QED BY <2>3 DEF FreshBut, FreshIn, CacheHas
<1> QED BY <1>1, SeqNowAlways, PTL

\* And every get, and every call of a value or a formula, answers what its cell
\* is worth at that moment, whether the answer was cached, stored or evaluated
\* with the results of other formulas that were.
THEOREM FreshAnswersAlways ==
  ASSUME EngineAssumption, OneAtATime, CallsValues
  PROVE  Spec => FreshAnswers
<1> DEFINE Right(t) ==
             answer'[t] # answer[t] /\ answer'[t] # None =>
               LET a == answer'[t][1] IN
               a.value = IF Kind[a.cell] = "value" THEN ValueOf(a.cell, cells'[a.cell])
                         ELSE Worth(cells', a.ctx)[a.cell]
<1>1. ASSUME SeqNow, [Next]_vars PROVE [\A t \in Reader : Right(t)]_vars
  <2>1. Answered /\ Reader \subseteq Thread
    BY <1>1, SeqNowStep DEF EngineAssumption
  <2>2. \A t \in Reader : RightAnswer(answer[t], answer'[t], cells')
    BY <2>1 DEF Answered
  <2>3. \A t \in Reader : Right(t)
    BY <2>2 DEF RightAnswer
  <2> QED BY <2>3
<1>2. SeqNow /\ [Next]_vars => [\A t \in Reader : Right(t)]_vars
  BY <1>1
<1> QED BY <1>2, SeqNowAlways, PTL DEF Spec, FreshAnswers
=============================================================================
