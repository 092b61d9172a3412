---------------------------- MODULE OpcodeEngine ----------------------------
(***************************************************************************)
(* The cell graph and the proof ring of crates/quilt-polyformalism, as a   *)
(* caller uses them together: it binds, forgets and ticks, and appends to  *)
(* the ring what a cell holds, with the tick and the cell's version.       *)
(* Signatures are left out: the crate leaves them zero.                    *)
(***************************************************************************)
EXTENDS Integers, SequencesExt

CONSTANTS Id,         \* cell ids
          Datum,      \* cell values
          RingCap,    \* the ring's capacity; append divides by it
          MaxTick,    \* bound on the tick counter
          MaxAppends, \* bound on appended entries
          MaxBinds    \* bound on binds and forgets

ASSUME RingAssumption == RingCap \in Nat \ {0}

VARIABLES cells,     \* Engine::cells, in insertion order
          tick,      \* Engine::tick
          ring,      \* ProofRing: slots, head, count and nonce
          appended,  \* history: the entries appended, each with its cell and life
          changes    \* history: the binds and forgets so far, with their cell

proofVars == << cells, tick, ring, appended, changes >>

HasCell(id) == \E i \in 1..Len(cells) : cells[i].id = id

\* index_of
IndexOf(id) == CHOOSE i \in 1..Len(cells) : cells[i].id = id

NewCell(id, v) == [id |-> id, value |-> v, version |-> 1]

\* Mutant: an existing cell keeps its version.
ReboundKeeps(cell, v) == [cell EXCEPT !.value = v]

Rebound(cell, v) ==
  IF cell.value = v THEN cell ELSE [cell EXCEPT !.value = v, !.version = @ + 1]

\* fnv1a64, spread over 32 bytes: a free constructor.
StateHash(v) == << "fnv", v >>

EmptySlot == [hash |-> << "zero" >>, tick |-> 0, version |-> 0]

NewRing(cap) ==
  [slots |-> [i \in 0..(cap - 1) |-> EmptySlot], head |-> 0, count |-> 0,
   nonce |-> 0]

StepHead(head, cap) == (head + 1) % cap

ProofEntry(cell, t) ==
  [hash |-> StateHash(cell.value), tick |-> t, version |-> cell.version]

\* The oldest slot is overwritten once the ring is full.
Appended(r, e) ==
  LET cap == Cardinality(DOMAIN r.slots)
  IN  [slots |-> [r.slots EXCEPT ![r.head] = e],
       head  |-> StepHead(r.head, cap),
       count |-> IF r.count < cap THEN r.count + 1 ELSE r.count,
       nonce |-> r.nonce + 1]

\* Where verify starts to walk, and the entries in the order it walks them.
Start(r) == LET cap == Cardinality(DOMAIN r.slots)
            IN  (r.head + cap - r.count) % cap

Walk(r) ==
  [k \in 1..r.count |->
     r.slots[(Start(r) + k - 1) % Cardinality(DOMAIN r.slots)]]

-----------------------------------------------------------------------------
ProofInit ==
  /\ cells = << >>
  /\ tick = 0
  /\ ring = NewRing(RingCap)
  /\ appended = << >>
  /\ changes = << >>

Bind(id, v) ==
  /\ Len(changes) < MaxBinds
  /\ cells' = IF HasCell(id) THEN [cells EXCEPT ![IndexOf(id)] = Rebound(@, v)]
              ELSE Append(cells, NewCell(id, v))
  /\ changes' = Append(changes, [op |-> "bind", id |-> id])
  /\ UNCHANGED << tick, ring, appended >>

\* forget of an unknown cell returns false and changes nothing.
Forget(id) ==
  /\ Len(changes) < MaxBinds
  /\ HasCell(id)
  /\ cells' = RemoveAt(cells, IndexOf(id))
  /\ changes' = Append(changes, [op |-> "forget", id |-> id])
  /\ UNCHANGED << tick, ring, appended >>

Tick ==
  /\ tick < MaxTick
  /\ tick' = tick + 1
  /\ UNCHANGED << cells, ring, appended, changes >>

\* How often a cell has been forgotten.
Life(id) ==
  Cardinality({i \in 1..Len(changes) : changes[i] = [op |-> "forget", id |-> id]})

Prove(id) ==
  /\ Len(appended) < MaxAppends
  /\ HasCell(id)
  /\ LET e == ProofEntry(cells[IndexOf(id)], tick)
     IN  /\ ring' = Appended(ring, e)
         /\ appended' = Append(appended, [id |-> id, life |-> Life(id), entry |-> e])
  /\ UNCHANGED << cells, tick, changes >>

ProofNext ==
  \/ \E id \in Id, v \in Datum : Bind(id, v)
  \/ \E id \in Id : Forget(id)
  \/ Tick
  \/ \E id \in Id : Prove(id)

-----------------------------------------------------------------------------
(***************************************************************************)
(* Properties                                                              *)
(***************************************************************************)

\* The ring, walked oldest first, is the recent history of the cells: it holds
\* the last entries appended, as many as fit, in which ticks and the versions
\* of a cell only rise, and between a cell's making and its forgetting a
\* version names one value (ProofRing::append, verify; Engine::bind, forget).
RingTellsHistory ==
  LET n == Len(appended)
      kept == SubSeq(appended, n - ring.count + 1, n)
  IN  /\ ring.count = Min({n, RingCap})
      /\ ring.nonce = n
      /\ \A k \in 1..ring.count : Walk(ring)[k] = kept[k].entry
      /\ \A i, j \in 1..n :
           LET a == appended[i]
               b == appended[j]
           IN  i < j =>
                 /\ a.entry.tick <= b.entry.tick
                 /\ a.id = b.id /\ a.life = b.life =>
                      /\ a.entry.version <= b.entry.version
                      /\ a.entry.version = b.entry.version => a.entry.hash = b.entry.hash
=============================================================================
