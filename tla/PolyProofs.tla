----------------------------- MODULE PolyProofs ------------------------------
(***************************************************************************)
(* Theorems about the components of crates/quilt-polyformalism: the world  *)
(* cell, the PN-counter, the proof ring and the state file, for every      *)
(* value of their constants.                                               *)
(***************************************************************************)
EXTENDS PnCounter, OpcodeEngine, WorldCell, QufFile, Lemmas, FiniteSetTheorems

-----------------------------------------------------------------------------
(***************************************************************************)
(* The world cell: it is called verified only of the program it holds.     *)
(* The step that matters is an execution after a change: the flag it       *)
(* copies into the quantity must already be the new program's.             *)
(***************************************************************************)

Matches(code) ==
  \E o \in Observed, t \in Tolerance : Within(Sim(code, << >>), o, t)

\* The cell is a record of its own fields, so that a field set is set.
WorldRecord ==
  world = [code |-> world.code, stateHash |-> world.stateHash,
           prevHash |-> world.prevHash, verified |-> world.verified, n |-> world.n]

WorldInv ==
  /\ WorldRecord
  /\ world.verified => Matches(world.code)
  /\ quantity.verified => Matches(quantity.code)

\* A change of the program leaves the flag down.
LEMMA ChangeUnverifies ==
  ASSUME NEW code, NEW op, WorldInv, Changed(code, op)
  PROVE  WorldInv'
<1>1. /\ world' = WithCode(world, code, op)
      /\ quantity' = quantity
  BY DEF Changed
<1>2. /\ world'.verified = FALSE
      /\ WorldRecord'
  BY <1>1 DEF WithCode, WorldInv, WorldRecord
<1> QED BY <1>1, <1>2 DEF WorldInv

\* Executing hands out the flag with the program it is of.
LEMMA ExecuteKeeps ==
  ASSUME NEW reads, WorldInv, ExecuteCounted(reads)
  PROVE  WorldInv'
<1>1. /\ quantity' = Execute(world, reads)
      /\ world' = [world EXCEPT !.n["execute"] = @ + 1]
  BY DEF ExecuteCounted
<1>2. world'.code = world.code /\ world'.verified = world.verified /\ WorldRecord'
  BY <1>1 DEF WorldInv, WorldRecord
<1>3. quantity'.code = world.code /\ quantity'.verified = world.verified
  BY <1>1 DEF Execute
<1> QED BY <1>2, <1>3 DEF WorldInv

LEMMA RenderKeeps ==
  ASSUME WorldInv, Render
  PROVE  WorldInv'
<1>1. /\ quantity' = quantity
      /\ world' = [world EXCEPT !.n["render"] = @ + 1]
  BY DEF Render
<1>2. world'.code = world.code /\ world'.verified = world.verified /\ WorldRecord'
  BY <1>1 DEF WorldInv, WorldRecord
<1> QED BY <1>1, <1>2 DEF WorldInv

\* verify sets the flag to what the program it holds comes to.
LEMMA VerifyKeeps ==
  ASSUME NEW o \in Observed, NEW t \in Tolerance, WorldInv, Verify(o, t)
  PROVE  WorldInv'
<1> DEFINE close == Within(Execute(world, << >>).value, o, t)
<1>1. /\ quantity' = quantity
      /\ world' = [world EXCEPT !.verified = close, !.n["verify"] = @ + 1]
  BY DEF Verify
<1>2. close => Matches(world.code)
  BY DEF Matches, Execute
<1> HIDE DEF close
<1>3. world'.code = world.code /\ world'.verified = close /\ WorldRecord'
  BY <1>1 DEF WorldInv, WorldRecord
<1> QED BY <1>1, <1>2, <1>3 DEF WorldInv

\* Whatever is proposed, refined, executed and verified in whatever order, a
\* cell or a quantity called verified is so of its own program
\* (WorldCell::propose, execute, verify, refine).
THEOREM VerifiedOfItsOwnCode == WorldSpec => []VerifiedIsOfThisCode
<1>1. WorldInit => WorldInv
  <2> SUFFICES ASSUME WorldInit PROVE WorldInv
    OBVIOUS
  <2>1. world.verified = FALSE /\ quantity.verified = FALSE
    BY DEF WorldInit, NewWorld, NoQuantity
  <2>2. WorldRecord
    BY DEF WorldInit, NewWorld, WorldRecord
  <2> QED BY <2>1, <2>2 DEF WorldInv
<1>2. WorldInv /\ [WorldNext]_worldVars => WorldInv'
  <2> SUFFICES ASSUME WorldInv, [WorldNext]_worldVars PROVE WorldInv'
    OBVIOUS
  <2>1. ASSUME NEW text \in Text, Propose(text) PROVE WorldInv'
    BY <2>1, ChangeUnverifies DEF Propose
  <2>2. ASSUME NEW hint \in Hint, Refine(hint) PROVE WorldInv'
    BY <2>2, ChangeUnverifies DEF Refine
  <2>3. ASSUME NEW reads \in Reads, ExecuteCounted(reads) PROVE WorldInv'
    BY <2>3, ExecuteKeeps
  <2>4. CASE Render
    BY <2>4, RenderKeeps
  <2>5. ASSUME NEW o \in Observed, NEW t \in Tolerance, Verify(o, t) PROVE WorldInv'
    BY <2>5, VerifyKeeps
  <2>6. CASE UNCHANGED worldVars
    BY <2>6 DEF worldVars, WorldInv, WorldRecord
  <2> QED BY <2>1, <2>2, <2>3, <2>4, <2>5, <2>6 DEF WorldNext
<1>3. WorldInv => VerifiedIsOfThisCode
  BY DEF WorldInv, VerifiedIsOfThisCode, Matches
<1> QED BY <1>1, <1>2, <1>3, PTL DEF WorldSpec

-----------------------------------------------------------------------------
(***************************************************************************)
(* The PN-counter, for every set of peers, number of slots and bound.      *)
(***************************************************************************)

\* Every variable has its type.
CounterTypeOK ==
  /\ counter \in [Replica -> Counters]
  /\ made \in [Replica -> [Sign -> 0..MaxOps]]
  /\ \A m \in mail : m.counter \in Counters
  /\ seen \in [Replica -> SUBSET (Sign \X Slot \X (1..MaxOps))]

\* A peer's own count is how often it counted, and no state anywhere, held or
\* in the mail, is ahead of it.
NoneAhead ==
  \A s \in Sign, i \in Slot :
    /\ i \in Replica =>
         /\ counter[i][s][i] = made[i][s]
         /\ \A r \in Replica : counter[r][s][i] <= made[i][s]
         /\ \A m \in mail : m.counter[s][i] <= made[i][s]
    /\ i \notin Replica =>
         /\ \A r \in Replica : counter[r][s][i] = 0
         /\ \A m \in mail : m.counter[s][i] = 0

\* What is in the mail stands for what its sender had seen.
MailSeen == \A m \in mail : m.seen = Updates(m.counter)

\* The inductive invariant: a count that was ahead of its peer's own would
\* make the peer's next update one that others believe to have seen already.
CounterInv == CounterTypeOK /\ NoneAhead /\ MailSeen /\ SeenDeterminesState

-----------------------------------------------------------------------------
\* merge returns a counter, and joins two states as a semilattice does.
LEMMA MergeLaws ==
  ASSUME NEW c \in Counters, NEW d \in Counters, NEW e \in Counters
  PROVE  /\ Merged(c, d) \in Counters
         /\ Merged(c, c) = c
         /\ Merged(c, d) = Merged(d, c)
         /\ Merged(Merged(c, d), e) = Merged(c, Merged(d, e))
<1>1. \A x, y, z \in 0..MaxOps :
        /\ Larger(x, y) \in 0..MaxOps
        /\ Larger(x, x) = x
        /\ Larger(x, y) = Larger(y, x)
        /\ Larger(Larger(x, y), z) = Larger(x, Larger(y, z))
  BY PnCounterAssumption DEF Larger
<1>2. \A f, g \in Counters :
        /\ Merged(f, g) \in Counters
        /\ \A s \in Sign, i \in Slot : Merged(f, g)[s][i] = Larger(f[s][i], g[s][i])
  BY <1>1 DEF Merged, Counters
<1>3. \A f, g \in Counters :
        (\A s \in Sign, i \in Slot : f[s][i] = g[s][i]) => f = g
  <2>1. SUFFICES ASSUME NEW f \in Counters, NEW g \in Counters,
                        \A s \in Sign, i \in Slot : f[s][i] = g[s][i]
                 PROVE  f = g
    OBVIOUS
  <2>2. \A s \in Sign : f[s] \in [Slot -> 0..MaxOps] /\ g[s] \in [Slot -> 0..MaxOps]
    BY DEF Counters
  <2>3. \A s \in Sign : f[s] = g[s]
    BY <2>1, <2>2
  <2> QED BY <2>3 DEF Counters
<1>4. \A f \in Counters : \A s \in Sign, i \in Slot : f[s][i] \in 0..MaxOps
  BY DEF Counters
<1>5. Merged(c, c) = c
  BY <1>1, <1>2, <1>3, <1>4
<1>6. Merged(c, d) = Merged(d, c)
  BY <1>1, <1>2, <1>3, <1>4
<1>7. Merged(Merged(c, d), e) = Merged(c, Merged(d, e))
  <2>1. \A s \in Sign, i \in Slot :
          Merged(Merged(c, d), e)[s][i] = Merged(c, Merged(d, e))[s][i]
    BY <1>1, <1>2, <1>4
  <2> QED BY <1>2, <1>3, <2>1
<1> QED BY <1>2, <1>5, <1>6, <1>7

\* What was merged stands for the updates of both states.
LEMMA MergeUnites ==
  ASSUME NEW c \in Counters, NEW d \in Counters
  PROVE  Updates(Merged(c, d)) = Updates(c) \cup Updates(d)
<1>1. SUFFICES ASSUME NEW s \in Sign, NEW i \in Slot, NEW k \in 1..MaxOps
               PROVE  k <= Merged(c, d)[s][i] <=> k <= c[s][i] \/ k <= d[s][i]
  BY DEF Updates
<1>2. c[s][i] \in 0..MaxOps /\ d[s][i] \in 0..MaxOps
  BY DEF Counters
<1>3. Merged(c, d)[s][i] = IF d[s][i] > c[s][i] THEN d[s][i] ELSE c[s][i]
  BY DEF Merged, Larger
<1> QED BY <1>2, <1>3, PnCounterAssumption

\* Counting adds to a state the one update it makes, and nothing else.
LEMMA CountAddsOne ==
  ASSUME NEW c \in Counters, NEW s \in Sign, NEW i \in Slot, c[s][i] < MaxOps
  PROVE  /\ Counted(c, s, i) \in Counters
         /\ Counted(c, s, i)[s][i] = c[s][i] + 1
         /\ \A t \in Sign, j \in Slot :
              t # s \/ j # i => Counted(c, s, i)[t][j] = c[t][j]
         /\ Updates(Counted(c, s, i)) = Updates(c) \cup {<< s, i, c[s][i] + 1 >>}
<1> DEFINE d == [c EXCEPT ![s][i] = @ + 1]
<1>1. Counted(c, s, i) = d
  BY DEF Counted
<1>2. \A t \in Sign, j \in Slot : c[t][j] \in 0..MaxOps
  BY DEF Counters
<1>3. /\ d[s][i] = c[s][i] + 1
      /\ \A t \in Sign, j \in Slot : t # s \/ j # i => d[t][j] = c[t][j]
  BY DEF Counters
<1>4. d \in Counters
  <2>1. c[s][i] + 1 \in 0..MaxOps
    BY <1>2, PnCounterAssumption
  <2> QED BY <2>1 DEF Counters
<1>5. Updates(d) = Updates(c) \cup {<< s, i, c[s][i] + 1 >>}
  <2> HIDE DEF d
  <2>1. c[s][i] + 1 \in 1..MaxOps
    BY <1>2, PnCounterAssumption
  <2>2. \A t \in Sign, j \in Slot, k \in 1..MaxOps :
          k <= d[t][j] <=> k <= c[t][j] \/ << t, j, k >> = << s, i, c[s][i] + 1 >>
    BY <1>2, <1>3, PnCounterAssumption
  <2> QED BY <2>1, <2>2 DEF Updates
<1> QED BY <1>1, <1>3, <1>4, <1>5

-----------------------------------------------------------------------------
LEMMA InitKeeps == CounterInit => CounterInv
<1> SUFFICES ASSUME CounterInit PROVE CounterInv
  OBVIOUS
<1>1. NewCounter \in Counters
  BY PnCounterAssumption DEF NewCounter, Counters
<1>2. Updates(NewCounter) = {}
  BY DEF Updates, NewCounter
<1>3. CounterTypeOK
  BY <1>1, PnCounterAssumption DEF CounterInit, CounterTypeOK
<1>4. NoneAhead
  BY DEF CounterInit, NoneAhead, NewCounter
<1> QED BY <1>2, <1>3, <1>4 DEF CounterInit, CounterInv, MailSeen, SeenDeterminesState

\* An update a peer with a slot makes is new everywhere.
LEMMA CountKeeps ==
  ASSUME CounterInv, NEW r \in Replica, NEW s \in Sign, Count(r, s)
  PROVE  CounterInv'
<1>1. CASE r \notin Slot
  <2>1. counter' = counter /\ mail' = mail /\ made' = made /\ seen' = seen
    BY <1>1 DEF Count, Counted, CounterInv, CounterTypeOK
  <2> QED BY <2>1 DEF CounterInv, CounterTypeOK, NoneAhead, MailSeen,
                      SeenDeterminesState
<1>2. CASE r \in Slot
  <2> DEFINE c == counter[r]
             k == made[r][s] + 1
  <2>1. /\ c \in Counters /\ c[s][r] = made[r][s] /\ c[s][r] < MaxOps
        /\ made[r][s] \in 0..MaxOps /\ k \in 0..MaxOps
    BY <1>2, PnCounterAssumption DEF Count, CounterInv, CounterTypeOK, NoneAhead
  <2>2. /\ counter' = [counter EXCEPT ![r] = Counted(c, s, r)]
        /\ made' = [made EXCEPT ![r][s] = k]
        /\ seen' = [seen EXCEPT ![r] = @ \cup {<< s, r, k >>}]
        /\ mail' = mail
    BY <1>2 DEF Count
  <2>3. /\ Counted(c, s, r) \in Counters
        /\ Counted(c, s, r)[s][r] = k
        /\ \A t \in Sign, j \in Slot : t # s \/ j # r => Counted(c, s, r)[t][j] = c[t][j]
        /\ Updates(Counted(c, s, r)) = Updates(c) \cup {<< s, r, k >>}
    BY <1>2, <2>1, CountAddsOne
  <2> HIDE DEF c
  <2>4. CounterTypeOK'
    <3>1. << s, r, k >> \in Sign \X Slot \X (1..MaxOps)
      BY <1>2, <2>1, PnCounterAssumption
    <3>2. seen' \in [Replica -> SUBSET (Sign \X Slot \X (1..MaxOps))]
      BY <2>2, <3>1 DEF CounterInv, CounterTypeOK
    <3>3. made' \in [Replica -> [Sign -> 0..MaxOps]]
      BY <2>1, <2>2 DEF CounterInv, CounterTypeOK
    <3>4. counter' \in [Replica -> Counters]
      BY <2>2, <2>3 DEF CounterInv, CounterTypeOK
    <3> QED BY <2>2, <3>2, <3>3, <3>4 DEF CounterInv, CounterTypeOK
  <2>5. SeenDeterminesState' /\ MailSeen'
    <3>1. \A x \in Replica : seen'[x] = Updates(counter'[x])
      BY <2>2, <2>3 DEF CounterInv, CounterTypeOK, SeenDeterminesState, c
    <3> QED BY <2>2, <3>1 DEF CounterInv, MailSeen, SeenDeterminesState
  <2>6. NoneAhead'
    <3>1. SUFFICES ASSUME NEW t \in Sign, NEW i \in Slot
                   PROVE  /\ i \in Replica =>
                               /\ counter'[i][t][i] = made'[i][t]
                               /\ \A x \in Replica : counter'[x][t][i] <= made'[i][t]
                               /\ \A m \in mail' : m.counter[t][i] <= made'[i][t]
                          /\ i \notin Replica =>
                               /\ \A x \in Replica : counter'[x][t][i] = 0
                               /\ \A m \in mail' : m.counter[t][i] = 0
      BY DEF NoneAhead
    <3>2. /\ \A x \in Replica \ {r} : counter'[x] = counter[x]
          /\ counter'[r] = Counted(c, s, r)
      BY <2>2 DEF CounterInv, CounterTypeOK
    <3>3. /\ made'[r][s] = k
          /\ \A x \in Replica, u \in Sign : x # r \/ u # s => made'[x][u] = made[x][u]
      BY <2>2 DEF CounterInv, CounterTypeOK
    <3>4. CASE i = r /\ t = s
      <4>1. \A x \in Replica : counter[x][s][r] <= made[r][s]
        BY <1>2 DEF CounterInv, NoneAhead
      <4>2. \A m \in mail : m.counter[s][r] <= made[r][s]
        BY <1>2 DEF CounterInv, NoneAhead
      <4>3. /\ \A x \in Replica : counter[x][s][r] \in Nat
            /\ \A m \in mail : m.counter[s][r] \in Nat
        BY <1>2 DEF CounterInv, CounterTypeOK, Counters
      <4>4. /\ \A x \in Replica \ {r} : counter[x][s][r] <= k
            /\ \A m \in mail : m.counter[s][r] <= k
        BY <2>1, <4>1, <4>2, <4>3
      <4>5. k <= k
        BY <2>1
      <4> QED BY <2>2, <2>3, <3>2, <3>3, <3>4, <4>4, <4>5
    <3>5. CASE i # r \/ t # s
      <4>1. \A x \in Replica : counter'[x][t][i] = counter[x][t][i]
        BY <2>3, <3>2, <3>5 DEF c
      <4>2. i \in Replica => made'[i][t] = made[i][t]
        BY <3>3, <3>5
      <4> QED BY <2>2, <4>1, <4>2 DEF CounterInv, NoneAhead
    <3> QED BY <3>4, <3>5
  <2> QED BY <2>4, <2>5, <2>6 DEF CounterInv
<1> QED BY <1>1, <1>2

LEMMA ShipKeeps ==
  ASSUME CounterInv, NEW r \in Replica, Ship(r)
  PROVE  CounterInv'
<1>1. /\ counter' = counter /\ made' = made /\ seen' = seen
      /\ mail' = mail \cup {[counter |-> counter[r], seen |-> seen[r]]}
  BY DEF Ship
<1>2. CounterTypeOK'
  BY <1>1 DEF CounterInv, CounterTypeOK
<1>3. NoneAhead'
  BY <1>1 DEF CounterInv, NoneAhead
<1>4. MailSeen' /\ SeenDeterminesState'
  BY <1>1 DEF CounterInv, MailSeen, SeenDeterminesState
<1> QED BY <1>2, <1>3, <1>4 DEF CounterInv

\* A delivery raises no count above that of its peer.
LEMMA MergeKeeps ==
  ASSUME CounterInv, NEW r \in Replica, NEW m \in mail, Merge(r, m)
  PROVE  CounterInv'
<1> DEFINE c == counter[r]
           d == Merged(c, m.counter)
<1>1. c \in Counters /\ m.counter \in Counters
  BY DEF CounterInv, CounterTypeOK
<1>2. /\ counter' = [counter EXCEPT ![r] = d]
      /\ seen' = [seen EXCEPT ![r] = @ \cup m.seen]
      /\ mail' = mail /\ made' = made
  BY DEF Merge
<1>3. d \in Counters /\ Updates(d) = Updates(c) \cup Updates(m.counter)
  BY <1>1, MergeLaws, MergeUnites
<1>4. \A s \in Sign, i \in Slot : d[s][i] = c[s][i] \/ d[s][i] = m.counter[s][i]
  BY DEF Merged, Larger
<1>5. r \in Slot => \A s \in Sign : d[s][r] = c[s][r]
  <2>1. SUFFICES ASSUME r \in Slot, NEW s \in Sign
                 PROVE  d[s][r] = c[s][r]
    OBVIOUS
  <2>2. c[s][r] = made[r][s] /\ m.counter[s][r] <= made[r][s]
    BY <2>1 DEF CounterInv, NoneAhead
  <2>3. c[s][r] \in 0..MaxOps /\ m.counter[s][r] \in 0..MaxOps
    BY <1>1, <2>1 DEF Counters
  <2> QED BY <2>1, <2>2, <2>3, PnCounterAssumption DEF Merged, Larger
<1> HIDE DEF c, d
<1>6. CounterTypeOK'
  <2>1. m.seen \in SUBSET (Sign \X Slot \X (1..MaxOps))
    BY DEF CounterInv, MailSeen, Updates
  <2>2. seen' \in [Replica -> SUBSET (Sign \X Slot \X (1..MaxOps))]
    BY <1>2, <2>1 DEF CounterInv, CounterTypeOK
  <2> QED BY <1>2, <1>3, <2>2 DEF CounterInv, CounterTypeOK
<1>7. MailSeen' /\ SeenDeterminesState'
  <2>1. \A x \in Replica : seen'[x] = Updates(counter'[x])
    BY <1>2, <1>3 DEF CounterInv, CounterTypeOK, SeenDeterminesState, MailSeen, c
  <2> QED BY <1>2, <2>1 DEF CounterInv, MailSeen, SeenDeterminesState
<1>8. NoneAhead'
  <2>1. SUFFICES ASSUME NEW s \in Sign, NEW i \in Slot
                 PROVE  /\ i \in Replica =>
                             /\ counter'[i][s][i] = made'[i][s]
                             /\ \A x \in Replica : counter'[x][s][i] <= made'[i][s]
                             /\ \A n \in mail' : n.counter[s][i] <= made'[i][s]
                        /\ i \notin Replica =>
                             /\ \A x \in Replica : counter'[x][s][i] = 0
                             /\ \A n \in mail' : n.counter[s][i] = 0
    BY DEF NoneAhead
  <2>2. counter'[r] = d /\ \A x \in Replica \ {r} : counter'[x] = counter[x]
    BY <1>2 DEF CounterInv, CounterTypeOK
  <2>3. i \in Replica => counter'[i][s][i] = counter[i][s][i]
    BY <1>5, <2>2 DEF c
  <2> QED BY <1>2, <1>4, <2>2, <2>3 DEF CounterInv, NoneAhead, c
<1> QED BY <1>6, <1>7, <1>8 DEF CounterInv

LEMMA LoseKeeps ==
  ASSUME CounterInv, NEW m \in mail, Lose(m)
  PROVE  CounterInv'
BY DEF Lose, CounterInv, CounterTypeOK, NoneAhead, MailSeen, SeenDeterminesState

LEMMA CounterInvariant == CounterSpec => []CounterInv
<1>1. CounterInit => CounterInv
  BY InitKeeps
<1>2. CounterInv /\ [CounterNext]_counterVars => CounterInv'
  <2> SUFFICES ASSUME CounterInv, [CounterNext]_counterVars PROVE CounterInv'
    OBVIOUS
  <2>1. CASE \E r \in Replica, s \in Sign : Count(r, s)
    BY <2>1, CountKeeps
  <2>2. CASE \E r \in Replica : Ship(r)
    BY <2>2, ShipKeeps
  <2>3. CASE \E r \in Replica, m \in mail : Merge(r, m)
    BY <2>3, MergeKeeps
  <2>4. CASE \E m \in mail : Lose(m)
    BY <2>4, LoseKeeps
  <2>5. CASE UNCHANGED counterVars
    BY <2>5 DEF counterVars, CounterInv, CounterTypeOK, NoneAhead, MailSeen,
                SeenDeterminesState
  <2> QED BY <2>1, <2>2, <2>3, <2>4, <2>5 DEF CounterNext
<1> QED BY <1>1, <1>2, PTL DEF CounterSpec

\* A replica's state is exactly the updates that reached it, for any number of
\* peers, slots and updates, however states are lost, repeated and delayed
\* (PnCounter::inc, dec, merge).
THEOREM StateIsWhatWasSeen == CounterSpec => []SeenDeterminesState
BY CounterInvariant, PTL DEF CounterInv

\* Two replicas the same updates reached are in the same state: the offline
\* convergence the CRDT opcode is there for.
Convergent ==
  \A x, y \in Replica : seen[x] = seen[y] => counter[x] = counter[y]

THEOREM SameUpdatesSameState == CounterSpec => []Convergent
<1>1. CounterInv => Convergent
  <2> SUFFICES ASSUME CounterInv, NEW x \in Replica, NEW y \in Replica,
                      seen[x] = seen[y]
               PROVE  counter[x] = counter[y]
    BY DEF Convergent
  <2>1. counter[x] \in Counters /\ counter[y] \in Counters
    BY DEF CounterInv, CounterTypeOK
  <2>2. Updates(counter[x]) = Updates(counter[y])
    BY DEF CounterInv, SeenDeterminesState
  <2>3. \A s \in Sign, i \in Slot, k \in 1..MaxOps :
          k <= counter[x][s][i] <=> k <= counter[y][s][i]
    <3>1. \A s \in Sign, i \in Slot, k \in 1..MaxOps :
            << s, i, k >> \in Updates(counter[x]) <=> << s, i, k >> \in Updates(counter[y])
      BY <2>2
    <3> QED BY <3>1 DEF Updates
  <2>4. \A s \in Sign, i \in Slot : counter[x][s][i] = counter[y][s][i]
    <3>1. SUFFICES ASSUME NEW s \in Sign, NEW i \in Slot
                   PROVE  counter[x][s][i] = counter[y][s][i]
      OBVIOUS
    <3>2. counter[x][s][i] \in 0..MaxOps /\ counter[y][s][i] \in 0..MaxOps
      BY <2>1 DEF Counters
    <3>3. \A k \in 1..MaxOps : k <= counter[x][s][i] <=> k <= counter[y][s][i]
      BY <2>3
    <3> QED BY <3>2, <3>3, PnCounterAssumption
  <2>5. \A s \in Sign : counter[x][s] = counter[y][s]
    BY <2>1, <2>4 DEF Counters
  <2> QED BY <2>1, <2>5 DEF Counters
<1> QED BY <1>1, CounterInvariant, PTL

-----------------------------------------------------------------------------
(***************************************************************************)
(* The value of a counter.                                                 *)
(***************************************************************************)

\* g holds the sums of the first k counts of f, for every k up to N.
SumsTo(f, N, g) == g = [n \in 0..N |-> IF n = 0 THEN 0 ELSE g[n - 1] + f[n - 1]]

LEMMA SumsExist ==
  ASSUME NEW f, NEW N \in Nat
  PROVE  \E g : SumsTo(f, N, g)
<1> DEFINE S == {n \in Nat : \E g : SumsTo(f, n, g)}
<1>1. 0 \in S
  <2> DEFINE g == [n \in 0..0 |-> 0]
  <2>1. g = [n \in 0..0 |-> IF n = 0 THEN 0 ELSE g[n - 1] + f[n - 1]]
    OBVIOUS
  <2> QED BY <2>1 DEF SumsTo
<1>2. ASSUME NEW n \in S PROVE n + 1 \in S
  <2>1. PICK g : SumsTo(f, n, g)
    OBVIOUS
  <2> DEFINE last == g[n] + f[n]
             h == [k \in 0..(n + 1) |-> IF k = n + 1 THEN last ELSE g[k]]
  <2>2. ASSUME NEW k \in 0..(n + 1)
        PROVE  h[k] = IF k = 0 THEN 0 ELSE h[k - 1] + f[k - 1]
    <3>1. CASE k = n + 1
      <4>1. k \in 0..(n + 1) /\ k # 0 /\ k - 1 = n /\ n \in 0..(n + 1) /\ n # n + 1
        BY <3>1
      <4>2. h[k] = last /\ h[k - 1] = g[n]
        BY <3>1, <4>1
      <4> QED BY <3>1, <4>1, <4>2
    <3>2. CASE k # n + 1
      <4>1. k \in 0..n /\ h[k] = g[k] /\ (k # 0 => h[k - 1] = g[k - 1])
        BY <3>2
      <4> HIDE DEF h
      <4> QED BY <2>1, <4>1 DEF SumsTo
    <3> QED BY <3>1, <3>2
  <2>3. h = [k \in 0..(n + 1) |-> IF k = 0 THEN 0 ELSE h[k - 1] + f[k - 1]]
    <3>1. h = [k \in 0..(n + 1) |-> h[k]]
      OBVIOUS
    <3> HIDE DEF h
    <3> QED BY <2>2, <3>1
  <2>4. SumsTo(f, n + 1, h)
    <3> HIDE DEF h
    <3> QED BY <2>3 DEF SumsTo
  <2> QED BY <2>4
<1> HIDE DEF S
<1>3. S = Nat
  <2>1. S \in SUBSET Nat
    BY DEF S
  <2> QED BY <1>1, <1>2, <2>1, Induct
<1> QED BY <1>3 DEF S

\* The updates of one sign that peer i made, k of them.
Row(s, i, k) == {s} \X {i} \X (1..k)

LEMMA RowCount ==
  ASSUME NEW s, NEW i, NEW k \in Nat
  PROVE  IsFiniteSet(Row(s, i, k)) /\ Cardinality(Row(s, i, k)) = k
<1> DEFINE f == [j \in 1..k |-> << s, i, j >>]
<1>1. f \in Bijection(1..k, Row(s, i, k))
  <2>1. f \in [1..k -> Row(s, i, k)]
    BY DEF Row
  <2>2. \A a, b \in 1..k : f[a] = f[b] => a = b
    OBVIOUS
  <2>3. \A u \in Row(s, i, k) : \E a \in 1..k : f[a] = u
    <3> SUFFICES ASSUME NEW u \in Row(s, i, k) PROVE \E a \in 1..k : f[a] = u
      OBVIOUS
    <3>1. PICK a \in 1..k : u = << s, i, a >>
      BY DEF Row
    <3> QED BY <3>1
  <2> HIDE DEF f
  <2> QED BY <2>1, <2>2, <2>3 DEF Bijection, Injection, Surjection, IsInjective
<1>2. ExistsBijection(1..k, Row(s, i, k))
  BY <1>1 DEF ExistsBijection
<1>3. IsFiniteSet(1..k) /\ Cardinality(1..k) = k
  BY FS_Interval
<1> QED BY <1>2, <1>3, FS_Bijection

\* As many updates of a sign stand behind a counter as its counts come to.
LEMMA TotalCounts ==
  ASSUME PnCounterAssumption, NEW c \in Counters, NEW s \in Sign
  PROVE  /\ Total(c[s]) = Cardinality({u \in Updates(c) : u[1] = s})
         /\ Total(c[s]) \in Nat
<1> DEFINE f == c[s]
           N == Slots
           g == CHOOSE g : SumsTo(f, N, g)
           Part(n) == {u \in Updates(c) : u[1] = s /\ u[2] < n}
           S == {n \in Nat : n <= N =>
                   IsFiniteSet(Part(n)) /\ Cardinality(Part(n)) = g[n] /\ g[n] \in Nat}
<1>1. N \in Nat /\ f \in [0..(N - 1) -> 0..MaxOps] /\ MaxOps \in Nat
  BY DEF Counters, Slot, PnCounterAssumption
<1>2. SumsTo(f, N, g)
  BY <1>1, SumsExist
<1>3. Total(f) = g[N]
  BY DEF Total, SumsTo
<1> HIDE DEF g
<1>4. g[0] = 0 /\ \A k \in 1..N : g[k] = g[k - 1] + f[k - 1]
  <2>1. g = [k \in 0..N |-> IF k = 0 THEN 0 ELSE g[k - 1] + f[k - 1]]
    BY <1>2 DEF SumsTo
  <2> HIDE DEF f
  <2>2. 0 \in 0..N /\ \A k \in 1..N : k \in 0..N /\ k # 0
    BY <1>1
  <2>3. \A k \in 0..N : g[k] = IF k = 0 THEN 0 ELSE g[k - 1] + f[k - 1]
    BY <2>1, Zenon
  <2> QED BY <2>2, <2>3, Zenon
<1>5. \A u : u \in Updates(c) <=>
               \E t \in Sign, i \in Slot, k \in 1..MaxOps : u = << t, i, k >> /\ k <= c[t][i]
  BY DEF Updates
<1>6. \A n \in Nat : \A u : u \in Part(n) <=>
        \E i \in Slot, k \in 1..MaxOps : u = << s, i, k >> /\ k <= f[i] /\ i < n
  BY <1>5
<1> HIDE DEF Part
<1>7. 0 \in S
  <2>1. Part(0) = {}
    BY <1>6 DEF Slot
  <2>2. IsFiniteSet(Part(0)) /\ Cardinality(Part(0)) = 0
    BY <2>1, FS_EmptySet
  <2> HIDE DEF N
  <2> QED BY <1>4, <2>2
<1>8. ASSUME NEW n \in S PROVE n + 1 \in S
  <2> SUFFICES ASSUME n + 1 <= N
               PROVE  /\ IsFiniteSet(Part(n + 1)) /\ Cardinality(Part(n + 1)) = g[n + 1]
                      /\ g[n + 1] \in Nat
    OBVIOUS
  <2>1. /\ n \in Nat /\ n <= N /\ n \in Slot /\ f[n] \in 0..MaxOps
        /\ IsFiniteSet(Part(n)) /\ Cardinality(Part(n)) = g[n] /\ g[n] \in Nat
    BY <1>1 DEF Slot
  <2>2. g[n + 1] = g[n] + f[n]
    <3>1. n + 1 \in 1..N /\ (n + 1) - 1 = n
      BY <1>1, <2>1
    <3> QED BY <1>4, <3>1
  <2>3. Part(n + 1) = Part(n) \cup Row(s, n, f[n])
    <3>1. ASSUME NEW u \in Part(n + 1) PROVE u \in Part(n) \cup Row(s, n, f[n])
      <4>1. PICK i \in Slot, k \in 1..MaxOps : u = << s, i, k >> /\ k <= f[i] /\ i < n + 1
        <5>1. n + 1 \in Nat
          BY <2>1
        <5> HIDE DEF f, S
        <5> QED BY <1>6, <3>1, <5>1
      <4>2. CASE i < n
        BY <1>6, <2>1, <4>1, <4>2
      <4>3. CASE i = n
        <5>1. k \in 1..f[n]
          BY <2>1, <4>1, <4>3
        <5> QED BY <4>1, <4>3, <5>1 DEF Row
      <4> QED BY <2>1, <4>1, <4>2, <4>3 DEF Slot
    <3>2. ASSUME NEW u \in Part(n) PROVE u \in Part(n + 1)
      <4>1. PICK i \in Slot, k \in 1..MaxOps : u = << s, i, k >> /\ k <= f[i] /\ i < n
        BY <1>6, <2>1, <3>2
      <4>2. i < n + 1
        BY <2>1, <4>1 DEF Slot
      <4> QED BY <1>6, <2>1, <4>1, <4>2
    <3>3. ASSUME NEW u \in Row(s, n, f[n]) PROVE u \in Part(n + 1)
      <4>1. PICK k \in 1..f[n] : u = << s, n, k >>
        BY <3>3 DEF Row
      <4>2. k \in 1..MaxOps /\ k <= f[n] /\ n < n + 1
        BY <1>1, <2>1, <4>1
      <4> QED BY <1>6, <2>1, <4>1, <4>2
    <3> QED BY <3>1, <3>2, <3>3
  <2>4. Part(n) \cap Row(s, n, f[n]) = {}
    <3> SUFFICES ASSUME NEW u \in Part(n), u \in Row(s, n, f[n]) PROVE FALSE
      OBVIOUS
    <3>1. PICK i \in Slot, k \in 1..MaxOps : u = << s, i, k >> /\ i < n
      BY <1>6, <2>1
    <3>2. u[2] = n /\ u[2] = i
      BY <3>1 DEF Row
    <3> QED BY <2>1, <3>1, <3>2
  <2>5. IsFiniteSet(Row(s, n, f[n])) /\ Cardinality(Row(s, n, f[n])) = f[n]
    BY <2>1, RowCount
  <2>6. /\ IsFiniteSet(Part(n + 1))
        /\ Cardinality(Part(n + 1)) = Cardinality(Part(n)) + Cardinality(Row(s, n, f[n]))
    <3> DEFINE A == Part(n)
               B == Row(s, n, f[n])
    <3>1. IsFiniteSet(A) /\ IsFiniteSet(B) /\ A \cap B = {}
      BY <2>1, <2>4, <2>5
    <3>2. Cardinality(A) \in Nat /\ Cardinality(B) \in Nat
      BY <3>1, FS_CardinalityType
    <3>3. Part(n + 1) = A \cup B
      BY <2>3
    <3> HIDE DEF A, B
    <3>4. /\ IsFiniteSet(A \cup B)
          /\ Cardinality(A \cup B) = Cardinality(A) + Cardinality(B) - Cardinality(A \cap B)
      BY <3>1, FS_Union
    <3>5. Cardinality(A \cap B) = 0
      BY <3>1, FS_EmptySet
    <3>6. IsFiniteSet(A \cup B) /\ Cardinality(A \cup B) = Cardinality(A) + Cardinality(B)
      BY <3>2, <3>4, <3>5
    <3> QED BY <3>3, <3>6 DEF A, B
  <2> QED BY <2>1, <2>2, <2>5, <2>6
<1>9. S = Nat
  <2>1. S \in SUBSET Nat
    OBVIOUS
  <2> HIDE DEF S
  <2> QED BY <1>7, <1>8, <2>1, Induct
<1>10. Cardinality(Part(N)) = g[N] /\ g[N] \in Nat
  <2>1. N \in S /\ N <= N
    BY <1>1, <1>9
  <2> HIDE DEF N
  <2> QED BY <2>1
<1>11. Part(N) = {u \in Updates(c) : u[1] = s}
  <2>1. \A u \in Updates(c) : u[2] < N
    <3> SUFFICES ASSUME NEW u \in Updates(c) PROVE u[2] < N
      OBVIOUS
    <3>1. u[2] \in Slot
      BY DEF Updates
    <3> QED BY <1>1, <3>1 DEF Slot
  <2> QED BY <2>1 DEF Part
<1> QED BY <1>3, <1>10, <1>11

\* What a peer reports is the increments less the decrements that reached it,
\* none counted twice, however its state was merged (PnCounter::value).
THEOREM ValueIsWhatWasSeen ==
  ASSUME PnCounterAssumption
  PROVE  CounterSpec => []ValueCountsUpdates
<1>1. CounterInv => ValueCountsUpdates
  <2> SUFFICES ASSUME CounterInv, NEW r \in Replica
               PROVE  CounterValue(counter[r]) =
                        Cardinality({u \in seen[r] : u[1] = "p"})
                        - Cardinality({u \in seen[r] : u[1] = "n"})
    BY DEF ValueCountsUpdates
  <2>1. counter[r] \in Counters /\ seen[r] = Updates(counter[r])
    BY DEF CounterInv, CounterTypeOK, SeenDeterminesState
  <2>2. "p" \in Sign /\ "n" \in Sign
    BY DEF Sign
  <2>3. /\ Total(counter[r]["p"]) = Cardinality({u \in seen[r] : u[1] = "p"})
        /\ Total(counter[r]["n"]) = Cardinality({u \in seen[r] : u[1] = "n"})
    BY <2>1, <2>2, TotalCounts
  <2> QED BY <2>3 DEF CounterValue
<1> QED BY <1>1, CounterInvariant, PTL

-----------------------------------------------------------------------------
(***************************************************************************)
(* The proof ring: slots.                                                  *)
(***************************************************************************)

\* A number below twice the divisor is divided without multiplying.
LEMMA ModSmall ==
  ASSUME NEW c \in Nat \ {0}, NEW x \in 0..(2 * c - 1)
  PROVE  x % c = IF x < c THEN x ELSE x - c
<1> DEFINE q == x \div c
           r == x % c
<1>1. x = c * q + r /\ q \in Int /\ r \in 0..(c - 1)
  OBVIOUS
<1> HIDE DEF q, r
<1>2. q >= 2 => c * q >= 2 * c
  BY <1>1
<1>3. q <= -1 => c * q <= - c
  BY <1>1
<1>4. q = 0 \/ q = 1
  BY <1>1, <1>2, <1>3
<1>5. q = 0 => c * q = 0
  BY <1>1
<1>6. q = 1 => c * q = c
  BY <1>1
<1> QED BY <1>1, <1>4, <1>5, <1>6 DEF r

\* Where verify finds the k-th of the entries the ring holds.
Place(r, k) ==
  LET x == r.head - r.count + k - 1 IN IF x < 0 THEN x + RingCap ELSE x

RingShape(r) ==
  /\ r = [slots |-> r.slots, head |-> r.head, count |-> r.count, nonce |-> r.nonce]
  /\ r.slots = [i \in 0..(RingCap - 1) |-> r.slots[i]]
  /\ r.head \in 0..(RingCap - 1) /\ r.count \in 0..RingCap /\ r.nonce \in Nat

\* The ring holds the last of the entries h, oldest first from where it starts.
Holds(r, h) ==
  /\ r.nonce = Len(h)
  /\ r.count = IF Len(h) <= RingCap THEN Len(h) ELSE RingCap
  /\ \A k \in 1..r.count : r.slots[Place(r, k)] = h[Len(h) - r.count + k].entry

LEMMA CapIs ==
  ASSUME RingAssumption, NEW r, RingShape(r)
  PROVE  Cardinality(DOMAIN r.slots) = RingCap
<1>1. DOMAIN r.slots = 0..(RingCap - 1)
  BY DEF RingShape
<1>2. Cardinality(0..(RingCap - 1)) = (RingCap - 1) - 0 + 1
  BY FS_Interval DEF RingAssumption
<1> QED BY <1>1, <1>2 DEF RingAssumption

\* What verify walks is what the places hold.
LEMMA WalkIs ==
  ASSUME RingAssumption, NEW r, RingShape(r), NEW k \in 1..r.count
  PROVE  Walk(r)[k] = r.slots[Place(r, k)]
<1> DEFINE c == RingCap
           h == r.head
           n == r.count
           s == Start(r)
<1>1. c \in Nat \ {0} /\ h \in 0..(c - 1) /\ n \in 0..c /\ k \in 1..n
  BY DEF RingAssumption, RingShape
<1>2. s = (h + c - n) % c
  BY CapIs DEF Start
<1>3. Walk(r)[k] = r.slots[(s + k - 1) % c]
  BY CapIs DEF Walk
<1> HIDE DEF c, h, n, s
<1>4. s = IF h + c - n < c THEN h + c - n ELSE h - n
  <2>1. h + c - n \in 0..(2 * c - 1)
    BY <1>1
  <2>2. (h + c - n) % c = IF h + c - n < c THEN h + c - n ELSE (h + c - n) - c
    BY <1>1, <2>1, ModSmall
  <2> QED BY <1>1, <1>2, <2>2
<1>5. s + k - 1 \in 0..(2 * c - 1)
  BY <1>1, <1>4
<1>6. (s + k - 1) % c = IF s + k - 1 < c THEN s + k - 1 ELSE (s + k - 1) - c
  BY <1>1, <1>5, ModSmall
<1>7. (s + k - 1) % c = IF h - n + k - 1 < 0 THEN h - n + k - 1 + c ELSE h - n + k - 1
  BY <1>1, <1>4, <1>6
<1>8. (s + k - 1) % c = Place(r, k)
  BY <1>7 DEF Place, c, h, n
<1> QED BY <1>3, <1>8

\* The place of an entry before and after one more is appended.
LEMMA PlaceMoves ==
  ASSUME NEW c \in Nat \ {0}, NEW h \in 0..(c - 1), NEW n \in 0..c,
         NEW g, g = IF h + 1 = c THEN 0 ELSE h + 1,
         NEW m, m = IF n < c THEN n + 1 ELSE n,
         NEW k \in 1..m, NEW y, y = IF g - m + k - 1 < 0 THEN g - m + k - 1 + c
                                  ELSE g - m + k - 1
  PROVE  /\ k = m => y = h
         /\ \A j \in Nat, x \in Int :
              /\ k # m
              /\ j = IF n < c THEN k ELSE k + 1
              /\ x = IF h - n + j - 1 < 0 THEN h - n + j - 1 + c ELSE h - n + j - 1
              => j \in 1..n /\ y = x /\ x \in 0..(c - 1) /\ x # h
OBVIOUS

\* Appending overwrites the oldest entry once the ring is full.
LEMMA AppendedHolds ==
  ASSUME RingAssumption, NEW r, RingShape(r), NEW h, h \in Seq(ToSet(h)), Holds(r, h),
         NEW a
  PROVE  RingShape(Appended(r, a.entry)) /\ Holds(Appended(r, a.entry), Append(h, a))
<1> DEFINE e == a.entry
           t == Appended(r, e)
           w == Append(h, a)
           c == RingCap
           slots == [r.slots EXCEPT ![r.head] = e]
           head == StepHead(r.head, c)
           count == IF r.count < c THEN r.count + 1 ELSE r.count
           nonce == r.nonce + 1
<1>1. t = [slots |-> slots, head |-> head, count |-> count, nonce |-> nonce]
  BY CapIs DEF Appended
<1>2. /\ c \in Nat \ {0} /\ r.head \in 0..(c - 1) /\ r.count \in 0..c /\ r.nonce \in Nat
      /\ r.slots = [i \in 0..(c - 1) |-> r.slots[i]]
  BY DEF RingAssumption, RingShape
<1>3. head = IF r.head + 1 = c THEN 0 ELSE r.head + 1
  <2>1. r.head + 1 \in 0..(2 * c - 1)
    BY <1>2
  <2>2. (r.head + 1) % c = IF r.head + 1 < c THEN r.head + 1 ELSE (r.head + 1) - c
    BY <1>2, <2>1, ModSmall
  <2> HIDE DEF c
  <2> QED BY <1>2, <2>2 DEF StepHead
<1>4. /\ slots = [i \in 0..(c - 1) |-> slots[i]]
      /\ slots[r.head] = e
      /\ \A i \in 0..(c - 1) : i # r.head => slots[i] = r.slots[i]
  BY <1>2
<1> HIDE DEF slots, head, nonce
<1>5. t.slots = slots /\ t.head = head /\ t.count = count /\ t.nonce = nonce
  BY <1>1
<1>6. RingShape(t)
  <2>1. t = [slots |-> t.slots, head |-> t.head, count |-> t.count, nonce |-> t.nonce]
    BY <1>1, <1>5
  <2>2. head \in 0..(c - 1) /\ count \in 0..c /\ nonce \in Nat
    BY <1>2, <1>3 DEF nonce
  <2> HIDE DEF t, count
  <2> QED BY <1>4, <1>5, <2>1, <2>2 DEF RingShape
<1>7. /\ Len(w) = Len(h) + 1 /\ Len(h) \in Nat /\ w[Len(h) + 1] = a
      /\ \A i \in 1..Len(h) : w[i] = h[i]
  BY AppendFacts
<1>8. /\ r.nonce = Len(h)
      /\ r.count = IF Len(h) <= c THEN Len(h) ELSE c
      /\ \A k \in 1..r.count : r.slots[Place(r, k)] = h[Len(h) - r.count + k].entry
  BY DEF Holds
<1> HIDE DEF w, e, t
<1>9. ASSUME NEW k \in 1..t.count
      PROVE  t.slots[Place(t, k)] = w[Len(w) - t.count + k].entry
  <2>1. k \in 1..count /\ count \in Nat
    BY <1>2, <1>5
  <2>2. Place(t, k) = IF head - count + k - 1 < 0 THEN head - count + k - 1 + c
                      ELSE head - count + k - 1
    BY <1>5 DEF Place
  <2> DEFINE j == IF r.count < c THEN k ELSE k + 1
             x == Place(r, j)
             y == Place(t, k)
             H == r.head
             N == r.count
             L == Len(h)
  <2>3. j \in Nat /\ x = IF H - N + j - 1 < 0 THEN H - N + j - 1 + c ELSE H - N + j - 1
    BY <2>1 DEF Place
  <2>4. /\ H \in 0..(c - 1) /\ N \in 0..c /\ c \in Nat \ {0} /\ L \in Nat
        /\ head = IF H + 1 = c THEN 0 ELSE H + 1
        /\ count = IF N < c THEN N + 1 ELSE N
        /\ j = IF N < c THEN k ELSE k + 1
        /\ N = IF L <= c THEN L ELSE c
    BY <1>2, <1>3, <1>7, <1>8
  <2>5. y = IF head - count + k - 1 < 0 THEN head - count + k - 1 + c
            ELSE head - count + k - 1
    BY <2>2
  <2> HIDE DEF j, x, y, H, N, L, c, count
  <2>6. x \in Int
    BY <2>3, <2>4
  <2>7. /\ k = count => y = H
        /\ k # count => j \in 1..N /\ y = x /\ x \in 0..(c - 1) /\ x # H
    BY <2>1, <2>3, <2>4, <2>5, <2>6, PlaceMoves
  <2>8. CASE k = count
    <3>1. t.slots[y] = e
      BY <1>4, <1>5, <2>7, <2>8 DEF H
    <3>2. (L + 1) - count + k = L + 1
      BY <2>1, <2>4, <2>8
    <3> QED BY <1>5, <1>7, <3>1, <3>2 DEF e, y, L
  <2>9. CASE k # count
    <3>1. (L + 1) - count + k = L - N + j /\ L - N + j \in 1..L
      BY <2>1, <2>4, <2>7, <2>9
    <3>2. t.slots[y] = r.slots[x]
      BY <1>4, <1>5, <2>7, <2>9 DEF H
    <3>3. r.slots[x] = h[L - N + j].entry
      BY <1>8, <2>7, <2>9 DEF x, L, N
    <3>4. w[L - N + j] = h[L - N + j]
      BY <1>7, <3>1 DEF L
    <3>5. Len(w) - t.count + k = L - N + j
      BY <1>5, <1>7, <3>1 DEF L
    <3> QED BY <3>2, <3>3, <3>4, <3>5 DEF y
  <2> QED BY <2>8, <2>9
<1>10. t.nonce = Len(w) /\ t.count = IF Len(w) <= c THEN Len(w) ELSE c
  BY <1>2, <1>5, <1>7, <1>8 DEF nonce
<1> QED BY <1>6, <1>9, <1>10 DEF Holds, t, w, e

-----------------------------------------------------------------------------
(***************************************************************************)
(* The proof ring: the history of the cells.                               *)
(***************************************************************************)

CellOK(c) == c = [id |-> c.id, value |-> c.value, version |-> c.version] /\ c.version \in Nat

\* The cells are records, one to an id.
CellsOK(cs) ==
  /\ cs \in Seq(ToSet(cs))
  /\ \A k \in 1..Len(cs) : CellOK(cs[k])
  /\ \A j, k \in 1..Len(cs) : cs[j].id = cs[k].id => j = k

LifeOf(ch, id) ==
  Cardinality({i \in 1..Len(ch) : ch[i] = [op |-> "forget", id |-> id]})

\* What is proved of a cell is not ahead of it, and is of its value if it is of
\* its version.
NotAfter(e, c) ==
  e.version <= c.version /\ (e.version = c.version => e.hash = StateHash(c.value))

EntryOK(a, now) ==
  a.life \in Nat /\ a.entry.tick \in Nat /\ a.entry.tick <= now /\ a.entry.version \in Nat

\* Of a cell that has not been forgotten since, the cell knows.
Known(a, cs, ch) ==
  /\ a.life <= LifeOf(ch, a.id)
  /\ a.life = LifeOf(ch, a.id) =>
       \E k \in 1..Len(cs) : cs[k].id = a.id /\ NotAfter(a.entry, cs[k])

Ordered(a, b) ==
  /\ a.entry.tick <= b.entry.tick
  /\ a.id = b.id /\ a.life = b.life =>
       /\ a.entry.version <= b.entry.version
       /\ a.entry.version = b.entry.version => a.entry.hash = b.entry.hash

HistoryInv ==
  /\ CellsOK(cells)
  /\ tick \in Nat
  /\ changes \in Seq(ToSet(changes))
  /\ appended \in Seq(ToSet(appended))
  /\ \A i \in 1..Len(appended) : EntryOK(appended[i], tick) /\ Known(appended[i], cells, changes)
  /\ \A i, j \in 1..Len(appended) : i < j => Ordered(appended[i], appended[j])

RingInv == HistoryInv /\ RingShape(ring) /\ Holds(ring, appended)

LEMMA LifeIsNat ==
  ASSUME NEW ch, ch \in Seq(ToSet(ch)), NEW id
  PROVE  LifeOf(ch, id) \in Nat
<1>1. IsFiniteSet(1..Len(ch))
  BY FS_Interval
<1>2. {i \in 1..Len(ch) : ch[i] = [op |-> "forget", id |-> id]} \subseteq 1..Len(ch)
  OBVIOUS
<1> QED BY <1>1, <1>2, FS_Subset, FS_CardinalityType DEF LifeOf

LEMMA LifeGrows ==
  ASSUME NEW ch, ch \in Seq(ToSet(ch)), NEW e, NEW id
  PROVE  /\ LifeOf(ch, id) \in Nat
         /\ LifeOf(Append(ch, e), id) =
              IF e = [op |-> "forget", id |-> id] THEN LifeOf(ch, id) + 1 ELSE LifeOf(ch, id)
<1> DEFINE f == [op |-> "forget", id |-> id]
           n == Len(ch)
           w == Append(ch, e)
           A == {i \in 1..n : ch[i] = f}
           B == {i \in 1..Len(w) : w[i] = f}
<1>1. /\ Len(w) = n + 1 /\ n \in Nat /\ w[n + 1] = e
      /\ \A i \in 1..n : w[i] = ch[i]
  BY AppendFacts
<1> HIDE DEF f, w
<1>2. IsFiniteSet(1..n)
  BY <1>1, FS_Interval
<1>3. A \subseteq 1..n
  OBVIOUS
<1>4. IsFiniteSet(A) /\ Cardinality(A) \in Nat
  BY <1>2, <1>3, FS_Subset, FS_CardinalityType
<1>5. CASE e = f
  <2>1. B = A \cup {n + 1} /\ n + 1 \notin A
    BY <1>1, <1>5
  <2> HIDE DEF A, B
  <2>2. Cardinality(B) = Cardinality(A) + 1
    BY <1>4, <2>1, FS_AddElement
  <2> QED BY <1>4, <1>5, <2>2 DEF LifeOf, A, B, f, w
<1>6. CASE e # f
  <2>1. B = A
    BY <1>1, <1>6
  <2> HIDE DEF A, B
  <2> QED BY <1>4, <1>6, <2>1 DEF LifeOf, A, B, f, w
<1> QED BY <1>5, <1>6

LEMMA IndexOfIs ==
  ASSUME NEW id, HasCell(id)
  PROVE  IndexOf(id) \in 1..Len(cells) /\ cells[IndexOf(id)].id = id
<1>1. \E i \in 1..Len(cells) : cells[i].id = id
  BY DEF HasCell
<1> QED BY <1>1, Zenon DEF IndexOf

\* A bind of a cell that is there makes nothing proved before too new.
LEMMA ReboundIs ==
  ASSUME NEW c, CellOK(c), NEW v
  PROVE  /\ CellOK(Rebound(c, v)) /\ Rebound(c, v).id = c.id
         /\ \A e : e.version \in Nat /\ NotAfter(e, c) => NotAfter(e, Rebound(c, v))
<1>1. CASE c.value = v
  BY <1>1 DEF Rebound
<1>2. CASE c.value # v
  <2> DEFINE a == [c EXCEPT !.value = v]
             b == [a EXCEPT !.version = c.version + 1]
  <2>1. Rebound(c, v) = b
    BY <1>2 DEF Rebound, CellOK
  <2>2. CellOK(a) /\ a.id = c.id /\ a.version = c.version
    BY DEF CellOK
  <2> HIDE DEF a
  <2>3. CellOK(b) /\ b.id = c.id /\ b.version = c.version + 1
    BY <2>2 DEF CellOK
  <2> HIDE DEF b
  <2>4. \A e : e.version \in Nat /\ NotAfter(e, c) => NotAfter(e, b)
    BY <2>2, <2>3 DEF NotAfter, CellOK
  <2> QED BY <2>1, <2>3, <2>4
<1> QED BY <1>1, <1>2

\* A change of the cells that keeps what is known of each cell.
LEMMA CellsChange ==
  ASSUME RingInv, CellsOK(cells'), changes' \in Seq(ToSet(changes')),
         UNCHANGED << tick, ring, appended >>,
         \A a : EntryOK(a, tick) /\ Known(a, cells, changes) => Known(a, cells', changes')
  PROVE  RingInv'
BY DEF RingInv, HistoryInv

LEMMA BindKeeps ==
  ASSUME RingInv, NEW id \in Id, NEW v \in Datum, Bind(id, v)
  PROVE  RingInv'
<1> DEFINE e == [op |-> "bind", id |-> id]
<1>1. CellsOK(cells) /\ changes \in Seq(ToSet(changes))
  BY DEF RingInv, HistoryInv
<1>2. changes' = Append(changes, e) /\ UNCHANGED << tick, ring, appended >>
  BY DEF Bind
<1>3. \A x : LifeOf(changes', x) = LifeOf(changes, x)
  <2> SUFFICES ASSUME NEW x PROVE LifeOf(changes', x) = LifeOf(changes, x)
    OBVIOUS
  <2>1. e # [op |-> "forget", id |-> x]
    <3>1. e.op = "bind" /\ [op |-> "forget", id |-> x].op = "forget"
      OBVIOUS
    <3> QED BY <3>1
  <2> HIDE DEF e
  <2> QED BY <1>1, <1>2, <2>1, LifeGrows
<1>4. changes' \in Seq(ToSet(changes'))
  BY <1>1, <1>2, AppendFacts
<1> HIDE DEF e
<1>5. CASE HasCell(id)
  <2> DEFINE at == IndexOf(id)
             new == Rebound(cells[at], v)
  <2>1. cells' = [cells EXCEPT ![at] = new]
    BY <1>5 DEF Bind
  <2>2. at \in 1..Len(cells) /\ CellOK(cells[at])
    BY <1>1, <1>5, IndexOfIs DEF CellsOK
  <2>3. /\ CellOK(new) /\ new.id = cells[at].id
        /\ \A x : x.version \in Nat /\ NotAfter(x, cells[at]) => NotAfter(x, new)
    BY <2>2, ReboundIs
  <2> HIDE DEF at, new
  <2>4. cells' \in Seq(ToSet(cells) \cup {new}) /\ Len(cells') = Len(cells)
    <3> DEFINE T == ToSet(cells) \cup {new}
    <3>1. cells \in Seq(ToSet(cells)) /\ ToSet(cells) \subseteq T /\ new \in T
      BY <1>1 DEF CellsOK
    <3> HIDE DEF T
    <3>2. cells \in Seq(T)
      BY <3>1
    <3>3. cells' \in Seq(T) /\ Len(cells') = Len(cells)
      BY <2>1, <2>2, <3>1, <3>2
    <3> QED BY <3>3 DEF T
  <2>5. \A k \in 1..Len(cells) : cells'[k] = IF k = at THEN new ELSE cells[k]
    BY <1>1, <2>1 DEF CellsOK
  <2>6. cells' \in Seq(ToSet(cells'))
    BY <2>4, SeqOfOwn
  <2>7. CellsOK(cells')
    <3>1. \A k \in 1..Len(cells) : CellOK(cells'[k]) /\ cells'[k].id = cells[k].id
      BY <1>1, <2>2, <2>3, <2>5 DEF CellsOK
    <3> QED BY <1>1, <2>4, <2>6, <3>1 DEF CellsOK
  <2>8. ASSUME NEW a, EntryOK(a, tick), Known(a, cells, changes)
        PROVE  Known(a, cells', changes')
    <3> SUFFICES ASSUME a.life = LifeOf(changes', a.id)
                 PROVE  \E k \in 1..Len(cells') : cells'[k].id = a.id /\ NotAfter(a.entry, cells'[k])
      BY <1>3, <2>8 DEF Known
    <3>1. PICK k \in 1..Len(cells) : cells[k].id = a.id /\ NotAfter(a.entry, cells[k])
      BY <1>3, <2>8 DEF Known
    <3>2. a.entry.version \in Nat
      BY <2>8 DEF EntryOK
    <3> QED BY <2>3, <2>4, <2>5, <3>1, <3>2
  <2> QED BY <1>2, <1>4, <2>7, <2>8, CellsChange
<1>6. CASE ~ HasCell(id)
  <2> DEFINE new == NewCell(id, v)
  <2>1. cells' = Append(cells, new)
    BY <1>6 DEF Bind
  <2>2. CellOK(new) /\ new.id = id
    BY DEF NewCell, CellOK
  <2> HIDE DEF new
  <2>3. /\ cells' \in Seq(ToSet(cells')) /\ Len(cells') = Len(cells) + 1 /\ Len(cells) \in Nat
        /\ cells'[Len(cells) + 1] = new
        /\ \A k \in 1..Len(cells) : cells'[k] = cells[k]
    BY <1>1, <2>1, AppendFacts DEF CellsOK
  <2>4. \A k \in 1..Len(cells) : cells[k].id # id
    BY <1>6 DEF HasCell
  <2>5. CellsOK(cells')
    <3>1. \A k \in 1..Len(cells') : k = Len(cells) + 1 \/ k \in 1..Len(cells)
      BY <2>3
    <3>2. \A k \in 1..Len(cells') : CellOK(cells'[k])
      BY <1>1, <2>2, <2>3, <3>1 DEF CellsOK
    <3>3. \A j, k \in 1..Len(cells') : cells'[j].id = cells'[k].id => j = k
      BY <1>1, <2>2, <2>3, <2>4, <3>1 DEF CellsOK
    <3> QED BY <2>3, <3>2, <3>3 DEF CellsOK
  <2>6. ASSUME NEW a, EntryOK(a, tick), Known(a, cells, changes)
        PROVE  Known(a, cells', changes')
    <3>1. \A k \in 1..Len(cells) : k \in 1..Len(cells')
      BY <2>3
    <3> QED BY <1>3, <2>3, <2>6, <3>1 DEF Known
  <2> QED BY <1>2, <1>4, <2>5, <2>6, CellsChange
<1> QED BY <1>5, <1>6

\* A forgotten cell ends the life that what was proved of it is of.
LEMMA ForgetKeeps ==
  ASSUME RingInv, NEW id \in Id, Forget(id)
  PROVE  RingInv'
<1> DEFINE e == [op |-> "forget", id |-> id]
           at == IndexOf(id)
<1>1. CellsOK(cells) /\ changes \in Seq(ToSet(changes))
  BY DEF RingInv, HistoryInv
<1>2. /\ changes' = Append(changes, e) /\ UNCHANGED << tick, ring, appended >>
      /\ cells' = RemoveAt(cells, at)
  BY DEF Forget
<1>3. at \in 1..Len(cells) /\ cells[at].id = id
  BY IndexOfIs DEF Forget
<1> HIDE DEF at
<1>4. /\ changes' \in Seq(ToSet(changes'))
      /\ LifeOf(changes', id) = LifeOf(changes, id) + 1 /\ LifeOf(changes, id) \in Nat
  BY <1>1, <1>2, AppendFacts, LifeGrows
<1>5. \A x : x # id => LifeOf(changes', x) = LifeOf(changes, x)
  <2> SUFFICES ASSUME NEW x, x # id PROVE LifeOf(changes', x) = LifeOf(changes, x)
    OBVIOUS
  <2>1. e # [op |-> "forget", id |-> x]
    <3>1. e.id = id /\ [op |-> "forget", id |-> x].id = x
      OBVIOUS
    <3> QED BY <3>1
  <2> HIDE DEF e
  <2> QED BY <1>1, <1>2, <2>1, LifeGrows
<1> HIDE DEF e
<1>6. /\ cells' \in Seq(ToSet(cells)) /\ Len(cells') = Len(cells) - 1
      /\ \A i \in 1..(at - 1) : cells'[i] = cells[i]
      /\ \A i \in at..(Len(cells) - 1) : cells'[i] = cells[i + 1]
  BY <1>1, <1>2, <1>3, RemoveAtFacts DEF CellsOK
<1>7. cells' \in Seq(ToSet(cells')) /\ Len(cells) \in Nat
  BY <1>1, <1>6, SeqOfOwn DEF CellsOK
<1> DEFINE was(k) == IF k < at THEN k ELSE k + 1
<1>8. \A k \in 1..Len(cells') : was(k) \in 1..Len(cells) /\ cells'[k] = cells[was(k)]
  BY <1>3, <1>6, <1>7
<1>9. CellsOK(cells')
  <2>1. \A k \in 1..Len(cells') : CellOK(cells'[k])
    <3> HIDE DEF was
    <3> QED BY <1>1, <1>8 DEF CellsOK
  <2>2. \A j, k \in 1..Len(cells') : was(j) = was(k) => j = k
    BY <1>3, <1>6, <1>7
  <2> HIDE DEF was
  <2>3. \A j, k \in 1..Len(cells') : cells'[j].id = cells'[k].id => j = k
    BY <1>1, <1>8, <2>2 DEF CellsOK
  <2> QED BY <1>7, <2>1, <2>3 DEF CellsOK
<1>10. ASSUME NEW a, EntryOK(a, tick), Known(a, cells, changes)
       PROVE  Known(a, cells', changes')
  <2>1. CASE a.id = id
    <3>1. a.life <= LifeOf(changes, a.id) /\ a.life \in Nat
      BY <1>10 DEF Known, EntryOK
    <3>2. a.life <= LifeOf(changes', a.id) /\ a.life # LifeOf(changes', a.id)
      BY <1>4, <2>1, <3>1
    <3> QED BY <3>2 DEF Known
  <2>2. CASE a.id # id
    <3>1. LifeOf(changes', a.id) = LifeOf(changes, a.id)
      BY <1>5, <2>2
    <3> SUFFICES ASSUME a.life = LifeOf(changes', a.id)
                 PROVE  \E k \in 1..Len(cells') : cells'[k].id = a.id /\ NotAfter(a.entry, cells'[k])
      BY <1>10, <3>1 DEF Known
    <3>2. PICK k \in 1..Len(cells) : cells[k].id = a.id /\ NotAfter(a.entry, cells[k])
      BY <1>10, <3>1 DEF Known
    <3>3. k # at
      BY <1>3, <2>2, <3>2
    <3>4. CASE k < at
      <4>1. k \in 1..Len(cells') /\ cells'[k] = cells[k]
        BY <1>3, <1>6, <1>7, <3>4
      <4> QED BY <3>2, <4>1
    <3>5. CASE ~ (k < at)
      <4>1. /\ k - 1 \in 1..Len(cells') /\ k - 1 \in at..(Len(cells) - 1) /\ (k - 1) + 1 = k
        BY <1>3, <1>6, <1>7, <3>3, <3>5
      <4>2. cells'[k - 1] = cells[k]
        BY <1>6, <4>1
      <4> QED BY <3>2, <4>1, <4>2
    <3> QED BY <3>4, <3>5
  <2> QED BY <2>1, <2>2
<1> QED BY <1>2, <1>4, <1>9, <1>10, CellsChange

LEMMA TickKeeps ==
  ASSUME RingInv, Tick
  PROVE  RingInv'
<1>1. \A a : EntryOK(a, tick) => EntryOK(a, tick')
  BY DEF Tick, RingInv, HistoryInv, EntryOK
<1> QED BY <1>1 DEF Tick, RingInv, HistoryInv

\* What is proved now is the newest there is of its cell.
LEMMA ProveKeeps ==
  ASSUME RingAssumption, RingInv, NEW id \in Id, Prove(id)
  PROVE  RingInv'
<1> DEFINE c == cells[IndexOf(id)]
           e == ProofEntry(c, tick)
           a == [id |-> id, life |-> Life(id), entry |-> e]
           n == Len(appended)
           w == Append(appended, a)
<1>1. IndexOf(id) \in 1..Len(cells) /\ c.id = id
  BY IndexOfIs DEF Prove
<1>2. CellsOK(cells) /\ CellOK(c) /\ tick \in Nat /\ changes \in Seq(ToSet(changes))
  BY <1>1 DEF RingInv, HistoryInv, CellsOK
<1>3. /\ appended' = w /\ ring' = Appended(ring, e)
      /\ UNCHANGED << cells, tick, changes >>
  BY DEF Prove
<1>4. Life(id) = LifeOf(changes, id) /\ LifeOf(changes, id) \in Nat
  <2>1. Life(id) = LifeOf(changes, id)
    BY DEF Life, LifeOf
  <2>2. LifeOf(changes, id) \in Nat
    BY <1>2, LifeIsNat
  <2> QED BY <2>1, <2>2
<1>5. e.hash = StateHash(c.value) /\ e.tick = tick /\ e.version = c.version
  BY DEF ProofEntry
<1> HIDE DEF e
<1>6. a.id = id /\ a.life = LifeOf(changes, id) /\ a.entry = e
  BY <1>4
<1>7. appended \in Seq(ToSet(appended))
  BY DEF RingInv, HistoryInv
<1> HIDE DEF a
<1>8. /\ w \in Seq(ToSet(w)) /\ Len(w) = n + 1 /\ n \in Nat /\ w[n + 1] = a
      /\ \A i \in 1..n : w[i] = appended[i]
  BY <1>7, AppendFacts
<1>9. RingShape(ring') /\ Holds(ring', w)
  BY <1>3, <1>6, <1>7, AppendedHolds DEF RingInv
<1> HIDE DEF w, c
<1>10. EntryOK(a, tick) /\ Known(a, cells, changes)
  <2>1. EntryOK(a, tick)
    BY <1>2, <1>4, <1>5, <1>6 DEF EntryOK, CellOK
  <2>2. NotAfter(a.entry, c)
    BY <1>2, <1>5, <1>6 DEF NotAfter, CellOK
  <2> QED BY <1>1, <1>4, <1>6, <2>1, <2>2 DEF Known, c
<1>11. ASSUME NEW i \in 1..n PROVE Ordered(appended[i], a)
  <2> DEFINE b == appended[i]
  <2>1. EntryOK(b, tick) /\ Known(b, cells, changes)
    BY DEF RingInv, HistoryInv
  <2> HIDE DEF b
  <2>2. b.entry.tick <= a.entry.tick
    BY <1>5, <1>6, <2>1 DEF EntryOK
  <2>3. ASSUME b.id = a.id, b.life = a.life PROVE NotAfter(b.entry, c)
    <3>1. PICK k \in 1..Len(cells) : cells[k].id = id /\ NotAfter(b.entry, cells[k])
      BY <1>6, <2>1, <2>3 DEF Known
    <3>2. k = IndexOf(id)
      BY <1>1, <1>2, <3>1 DEF CellsOK, c
    <3> QED BY <3>1, <3>2 DEF c
  <2> QED BY <1>5, <1>6, <2>2, <2>3 DEF Ordered, NotAfter, b
<1>12. \A i \in 1..Len(w) : EntryOK(w[i], tick) /\ Known(w[i], cells, changes)
  <2> SUFFICES ASSUME NEW i \in 1..Len(w)
               PROVE  EntryOK(w[i], tick) /\ Known(w[i], cells, changes)
    OBVIOUS
  <2>1. i = n + 1 \/ i \in 1..n
    BY <1>8
  <2> QED BY <1>8, <1>10, <2>1 DEF RingInv, HistoryInv
<1>13. \A i, j \in 1..Len(w) : i < j => Ordered(w[i], w[j])
  <2> SUFFICES ASSUME NEW i \in 1..Len(w), NEW j \in 1..Len(w), i < j
               PROVE  Ordered(w[i], w[j])
    OBVIOUS
  <2>1. i \in 1..n /\ (j = n + 1 \/ j \in 1..n)
    BY <1>8
  <2> QED BY <1>8, <1>11, <2>1 DEF RingInv, HistoryInv
<1> QED BY <1>2, <1>3, <1>8, <1>9, <1>12, <1>13 DEF RingInv, HistoryInv

LEMMA RingInvInit ==
  ASSUME RingAssumption, ProofInit
  PROVE  RingInv
<1> DEFINE e == << >>
<1>1. e \in Seq({}) /\ Len(e) = 0 /\ ToSet(e) = {} /\ 1..Len(e) = {}
  BY DEF ToSet
<1>2. cells = e /\ tick = 0 /\ appended = e /\ changes = e /\ ring = NewRing(RingCap)
  BY DEF ProofInit
<1> HIDE DEF e
<1>3. HistoryInv
  BY <1>1, <1>2 DEF HistoryInv, CellsOK
<1>4. ring = [slots |-> [i \in 0..(RingCap - 1) |-> EmptySlot], head |-> 0, count |-> 0,
              nonce |-> 0]
  BY <1>2 DEF NewRing
<1>5. RingShape(ring)
  BY <1>4 DEF RingShape, RingAssumption
<1>6. Holds(ring, appended)
  <2>1. Len(appended) = 0 /\ ring.count = 0 /\ ring.nonce = 0
    BY <1>1, <1>2, <1>4
  <2> QED BY <2>1 DEF Holds, RingAssumption
<1> QED BY <1>3, <1>5, <1>6 DEF RingInv

LEMMA RingInvAlways ==
  ASSUME RingAssumption
  PROVE  ProofInit /\ [][ProofNext]_proofVars => []RingInv
<1>1. ProofInit => RingInv
  BY RingInvInit
<1>2. RingInv /\ [ProofNext]_proofVars => RingInv'
  <2> SUFFICES ASSUME RingInv, [ProofNext]_proofVars PROVE RingInv'
    OBVIOUS
  <2>1. ASSUME NEW id \in Id, NEW v \in Datum, Bind(id, v) PROVE RingInv'
    BY <2>1, BindKeeps
  <2>2. ASSUME NEW id \in Id, Forget(id) PROVE RingInv'
    BY <2>2, ForgetKeeps
  <2>3. CASE Tick
    BY <2>3, TickKeeps
  <2>4. ASSUME NEW id \in Id, Prove(id) PROVE RingInv'
    BY <2>4, ProveKeeps
  <2>5. CASE UNCHANGED proofVars
    BY <2>5 DEF proofVars, RingInv, HistoryInv
  <2> QED BY <2>1, <2>2, <2>3, <2>4, <2>5 DEF ProofNext
<1> QED BY <1>1, <1>2, PTL

\* Whatever is bound, forgotten, ticked and proved, for a ring of any capacity:
\* what verify walks, oldest first, is the last of what append was given, ticks
\* never fall along it, and within the life of a cell its versions never fall
\* and each names one value.
THEOREM RingTellsAlways ==
  ASSUME RingAssumption
  PROVE  ProofInit /\ [][ProofNext]_proofVars => []RingTellsHistory
<1>1. RingInv => RingTellsHistory
  <2> SUFFICES ASSUME RingInv PROVE RingTellsHistory
    OBVIOUS
  <2> DEFINE n == Len(appended)
             m == ring.count
             kept == SubSeq(appended, n - m + 1, n)
  <2>1. /\ appended \in Seq(ToSet(appended)) /\ n \in Nat
        /\ RingCap \in Nat \ {0} /\ m \in Nat
    BY DEF RingInv, HistoryInv, RingShape, RingAssumption
  <2>2. /\ ring.nonce = n /\ m = IF n <= RingCap THEN n ELSE RingCap
        /\ \A k \in 1..m : ring.slots[Place(ring, k)] = appended[n - m + k].entry
    BY DEF RingInv, Holds
  <2>3. m = Min({n, RingCap})
    <3> DEFINE S == {n, RingCap}
    <3>1. m \in S /\ \A y \in S : m <= y
      BY <2>1, <2>2
    <3> HIDE DEF S, m, n
    <3>2. Min(S) \in S /\ \A y \in S : Min(S) <= y
      BY <3>1, Zenon DEF Min
    <3>3. Min(S) \in Nat /\ Min(S) <= m /\ m <= Min(S)
      BY <2>1, <3>1, <3>2 DEF S
    <3> QED BY <2>1, <3>3 DEF S
  <2>4. ASSUME NEW k \in 1..m PROVE Walk(ring)[k] = kept[k].entry
    <3>1. Walk(ring)[k] = ring.slots[Place(ring, k)]
      BY WalkIs DEF RingInv
    <3>2. kept[k] = appended[n - m + k]
      <4>1. m <= n
        BY <2>1, <2>2
      <4> HIDE DEF n, m
      <4>2. n - m + 1 \in 1..(n + 1) /\ k \in 1..(n - (n - m + 1) + 1)
        BY <2>1, <4>1
      <4>3. (n - m + 1) + k - 1 = n - m + k
        BY <2>1
      <4>4. n = Len(appended)
        BY DEF n
      <4> HIDE DEF kept
      <4> QED BY <2>1, <4>2, <4>3, <4>4, SubSeqProperties DEF kept
    <3> QED BY <2>2, <3>1, <3>2
  <2>5. ASSUME NEW i \in 1..n, NEW j \in 1..n, i < j
        PROVE  Ordered(appended[i], appended[j])
    BY <2>5 DEF RingInv, HistoryInv
  <2> QED BY <2>2, <2>3, <2>4, <2>5 DEF RingTellsHistory, Ordered
<1> QED BY <1>1, RingInvAlways, PTL

-----------------------------------------------------------------------------
(***************************************************************************)
(* The state file.                                                         *)
(***************************************************************************)

\* A file as its public fields and new make it.
FileShape(f) ==
  f = [cells |-> f.cells, edges |-> f.edges, k |-> f.k, dial |-> f.dial,
       edge |-> f.edge, tick |-> f.tick, proof |-> f.proof]

FileCounts(f) ==
  /\ f.cells \in Nat /\ f.cells < 65536 /\ f.edges \in Nat /\ f.edges < 65536
  /\ f.k \in Nat /\ 0 < f.k /\ f.k < 256
  /\ f.proof = << >> \/ \E n \in Nat : f.proof = << n >>

RowsOK(f, dials, edges, ticks) ==
  /\ dials = [i \in 1..f.cells |-> [field |-> dials[i].field, pad |-> dials[i].pad]]
  /\ edges = [i \in 1..f.edges |-> [field |-> edges[i].field, ladder |-> edges[i].ladder]]
  /\ \A i \in 1..f.edges : edges[i].ladder = [j \in 1..8 |-> edges[i].ladder[j]]
  /\ ticks = [i \in 1..f.cells |-> ticks[i]]

FileRows(f) == RowsOK(f, f.dial, f.edge, f.tick)

FileOK(f) == FileShape(f) /\ FileCounts(f) /\ FileRows(f)

\* The image of f, of which l bytes are left.
HeadOfImage(img, f, l) ==
  img = [len |-> l, kv |-> Image(f).kv, sections |-> Image(f).sections]

LEMMA AlignFacts ==
  ASSUME NEW v \in Nat
  PROVE  /\ AlignUp(v) \in Nat /\ v <= AlignUp(v) /\ AlignUp(v) % 32 = 0
         /\ v % 32 = 0 => AlignUp(v) = v
BY DEF AlignUp

LEMMA AlignAdds ==
  ASSUME NEW a \in Nat, NEW b \in Nat, a % 32 = 0, NEW c \in Nat, AlignUp(b) = c
  PROVE  \E s \in Nat : s = a + c /\ AlignUp(a + b) = s /\ s % 32 = 0
<1>1. AlignUp(a + b) = a + AlignUp(b) /\ AlignUp(a + b) % 32 = 0
  BY DEF AlignUp
<1>2. PICK s \in Nat : s = a + c
  OBVIOUS
<1>3. AlignUp(a + b) = s
  BY <1>1, <1>2
<1>4. s % 32 = 0
  BY <1>1, <1>3, Zenon
<1> QED BY <1>2, <1>3, <1>4

LEMMA NamesOf ==
  ASSUME NEW f
  PROVE  /\ f.proof # << >> => /\ SectionNames(f) = << "dials", "edges", "ticks", "proof" >>
                               /\ Len(SectionNames(f)) = 4
                               /\ ToSet(SectionNames(f)) = {"dials", "edges", "ticks", "proof"}
         /\ f.proof = << >> => /\ SectionNames(f) = << "dials", "edges", "ticks" >>
                               /\ Len(SectionNames(f)) = 3
                               /\ ToSet(SectionNames(f)) = {"dials", "edges", "ticks"}
<1>1. CASE f.proof # << >>
  <2>1. SectionNames(f) = << "dials", "edges", "ticks", "proof" >>
    BY <1>1 DEF SectionNames, HasProof
  <2> QED BY <1>1, <2>1 DEF ToSet
<1>2. CASE f.proof = << >>
  <2>1. SectionNames(f) = << "dials", "edges", "ticks" >>
    BY <1>2 DEF SectionNames, HasProof
  <2> QED BY <1>2, <2>1 DEF ToSet
<1> QED BY <1>1, <1>2

LEMMA NamesAre ==
  ASSUME NEW f, NEW n, n = Len(SectionNames(f))
  PROVE  n \in 3..4 /\ \A i \in 1..n : SectionNames(f)[i] \in ToSet(SectionNames(f))
<1>1. CASE f.proof # << >>
  <2>1. SectionNames(f) = << "dials", "edges", "ticks", "proof" >>
    BY <1>1, NamesOf
  <2> QED BY <2>1 DEF ToSet
<1>2. CASE f.proof = << >>
  <2>1. SectionNames(f) = << "dials", "edges", "ticks" >>
    BY <1>2, NamesOf
  <2> QED BY <2>1 DEF ToSet
<1> QED BY <1>1, <1>2

\* Every section begins behind the front matter, where the reader accepts it,
\* and ends within the size computed beforehand.
LEMMA SectionsFit ==
  ASSUME NEW f, FileOK(f)
  PROVE  /\ SerializedSize(f) \in Nat /\ SerializedSize(f) % 32 = 0
         /\ 128 + 56 * Len(SectionNames(f)) <= SerializedSize(f)
         /\ \A name \in ToSet(SectionNames(f)) :
              /\ SectionSize(f, name) \in Nat /\ SectionOffset(f, name) \in Nat
              /\ SectionOffset(f, name) % 32 = 0
              /\ SectionOffset(f, name) >= 128 + 56 * Len(SectionNames(f))
              /\ SectionOffset(f, name) + SectionSize(f, name) <= SerializedSize(f)
<1>1. PICK n \in 3..4 : n = Len(SectionNames(f))
  BY NamesOf
<1>2. PICK d \in Nat, e \in Nat, t \in Nat, p \in Nat :
        /\ SectionSize(f, "dials") = d /\ SectionSize(f, "edges") = e
        /\ SectionSize(f, "ticks") = t
        /\ SectionSize(f, "proof") = p /\ ProofLen(f) = p
  <2>1. f.cells * DialWire \in Nat /\ f.edges * EdgeWire(f.k) \in Nat /\ f.cells * TickWire \in Nat
    <3>0. f.cells \in Nat /\ f.edges \in Nat /\ f.k \in Nat
      BY DEF FileOK, FileCounts
    <3>1. PICK c \in Nat, e \in Nat, k \in Nat : f.cells = c /\ f.edges = e /\ f.k = k
      BY <3>0
    <3>2. c * 32 \in Nat /\ e * (12 + 2 * k) \in Nat /\ c * 4 \in Nat
      <4>1. PICK w \in Nat : w = 12 + 2 * k
        OBVIOUS
      <4>2. e * w \in Nat
        OBVIOUS
      <4> QED BY <4>1, <4>2
    <3> QED BY <3>1, <3>2, Zenon DEF DialWire, EdgeWire, TickWire
  <2>2. ProofLen(f) \in Nat
    <3>1. f.proof = << >> \/ \E m \in Nat : f.proof = << m >>
      BY DEF FileOK, FileCounts
    <3> QED BY <3>1 DEF ProofLen, HasProof
  <2> QED BY <2>1, <2>2 DEF SectionSize
<1>3. f.proof = << >> => p = 0
  BY <1>2 DEF ProofLen, HasProof
<1>4. PICK s \in Nat : s = AlignUp(128 + 56 * n) /\ s % 32 = 0 /\ s >= 128 + 56 * n
  BY AlignFacts
<1>5. PICK ad \in Nat, ae \in Nat, at \in Nat, ap \in Nat :
        /\ AlignUp(d) = ad /\ AlignUp(e) = ae /\ AlignUp(t) = at /\ AlignUp(p) = ap
        /\ d <= ad /\ e <= ae /\ t <= at /\ p <= ap
        /\ p = 0 => ap = 0
  BY AlignFacts
<1>6. /\ SectionOffset(f, "dials") = s
      /\ SectionOffset(f, "edges") = AlignUp(s + d)
      /\ SectionOffset(f, "ticks") = AlignUp(AlignUp(s + d) + e)
      /\ SectionOffset(f, "proof") = AlignUp(AlignUp(AlignUp(s + d) + e) + t)
  <2>1. HeaderSize + 4 + 56 * Len(SectionNames(f)) = 128 + 56 * n
    BY <1>1 DEF HeaderSize, KvSize
  <2>2. AlignUp(HeaderSize + 4 + 56 * Len(SectionNames(f))) = s
    BY <1>4, <2>1, Zenon
  <2> QED BY <1>2, <2>2 DEF SectionOffset
<1>7. PICK s1 \in Nat : s1 = s + ad /\ AlignUp(s + d) = s1 /\ s1 % 32 = 0
  BY <1>4, <1>5, AlignAdds
<1>8. PICK s2 \in Nat : s2 = s1 + ae /\ AlignUp(s1 + e) = s2 /\ s2 % 32 = 0
  BY <1>5, <1>7, AlignAdds
<1>9. PICK s3 \in Nat : s3 = s2 + at /\ AlignUp(s2 + t) = s3 /\ s3 % 32 = 0
  BY <1>5, <1>8, AlignAdds
<1>10. /\ SectionOffset(f, "edges") = s1 /\ SectionOffset(f, "ticks") = s2
       /\ SectionOffset(f, "proof") = s3
  BY <1>6, <1>7, <1>8, <1>9
<1>11. PICK padded \in Nat : padded = ad + ae + at + ap
  BY <1>5
<1>12. SerializedSize(f) = AlignUp(s + IF padded = 0 THEN 32 ELSE padded)
  <2>1. PaddedRows(f) + AlignUp(ProofLen(f)) = padded
    BY <1>2, <1>5, <1>11 DEF PaddedRows
  <2>2. 16 + 108 + 4 + 56 * Len(SectionNames(f)) = 128 + 56 * n
    BY <1>1
  <2>3. AlignUp(16 + 108 + 4 + 56 * Len(SectionNames(f))) = s
    BY <1>4, <2>2, Zenon
  <2> QED BY <2>1, <2>3 DEF SerializedSize
<1>13. PICK all \in Nat : all = SerializedSize(f) /\ all % 32 = 0 /\ s + padded <= all
  <2>1. PICK q \in Nat : q = (IF padded = 0 THEN 32 ELSE padded) /\ q >= padded
    OBVIOUS
  <2>2. AlignUp(s + q) \in Nat /\ AlignUp(s + q) % 32 = 0 /\ s + q <= AlignUp(s + q)
    BY <1>4, <2>1, AlignFacts
  <2> QED BY <1>12, <2>1, <2>2
<1>14. ASSUME NEW name \in ToSet(SectionNames(f))
       PROVE  /\ SectionSize(f, name) \in Nat /\ SectionOffset(f, name) \in Nat
              /\ SectionOffset(f, name) % 32 = 0
              /\ SectionOffset(f, name) >= s
              /\ SectionOffset(f, name) + SectionSize(f, name) <= s + padded
  <2>1. CASE name = "dials"
    BY <1>2, <1>4, <1>5, <1>6, <1>11, <2>1
  <2>2. CASE name = "edges"
    BY <1>2, <1>5, <1>7, <1>10, <1>11, <2>2
  <2>3. CASE name = "ticks"
    BY <1>2, <1>5, <1>7, <1>8, <1>10, <1>11, <2>3
  <2>4. CASE name = "proof"
    BY <1>2, <1>5, <1>7, <1>8, <1>9, <1>10, <1>11, <2>4
  <2> QED BY <2>1, <2>2, <2>3, <2>4, NamesOf
<1> QED BY <1>1, <1>4, <1>13, <1>14

\* The sections of an image, in their order.
LEMMA ImageSections ==
  ASSUME NEW f, NEW secs, secs = Image(f).sections, NEW n, n = Len(SectionNames(f))
  PROVE  /\ Len(secs) = n /\ n \in 3..4
         /\ \A i \in 1..n :
              /\ SectionNames(f)[i] \in ToSet(SectionNames(f))
              /\ secs[i].name = SectionNames(f)[i]
              /\ secs[i].off = SectionOffset(f, SectionNames(f)[i])
              /\ secs[i].size = SectionSize(f, SectionNames(f)[i])
              /\ secs[i].rows = SectionRows(f, SectionNames(f)[i])
<1> DEFINE Sec(i) == [name |-> SectionNames(f)[i], off |-> SectionOffset(f, SectionNames(f)[i]),
                      size |-> SectionSize(f, SectionNames(f)[i]),
                      rows |-> SectionRows(f, SectionNames(f)[i])]
<1>1. n \in 3..4 /\ \A i \in 1..n : SectionNames(f)[i] \in ToSet(SectionNames(f))
  BY NamesAre
<1>2. secs = [i \in 1..n |-> Sec(i)]
  BY DEF Image
<1>3. \A i \in 1..n :
        /\ Sec(i).name = SectionNames(f)[i]
        /\ Sec(i).off = SectionOffset(f, SectionNames(f)[i])
        /\ Sec(i).size = SectionSize(f, SectionNames(f)[i])
        /\ Sec(i).rows = SectionRows(f, SectionNames(f)[i])
  OBVIOUS
<1> HIDE DEF Sec
<1>4. Len(secs) = n
  BY <1>1, <1>2
<1>5. \A i \in 1..n : secs[i] = Sec(i)
  BY <1>2, Zenon
<1> QED BY <1>1, <1>3, <1>4, <1>5

\* A whole image is accepted.
LEMMA WholeAccepted ==
  ASSUME NEW f, FileOK(f), NEW img, HeadOfImage(img, f, SerializedSize(f))
  PROVE  Accepted(img)
<1>1. PICK n : n = Len(SectionNames(f))
  OBVIOUS
<1>2. PICK secs : secs = Image(f).sections
  OBVIOUS
<1>3. /\ Len(secs) = n /\ n \in 3..4
      /\ \A i \in 1..n :
           /\ SectionNames(f)[i] \in ToSet(SectionNames(f))
           /\ secs[i].name = SectionNames(f)[i]
           /\ secs[i].off = SectionOffset(f, SectionNames(f)[i])
           /\ secs[i].size = SectionSize(f, SectionNames(f)[i])
  BY <1>1, <1>2, ImageSections
<1>4. img.len = SerializedSize(f) /\ img.sections = secs /\ img.kv = Image(f).kv
  BY <1>2 DEF HeadOfImage
<1>5. /\ img.kv.cells = f.cells /\ img.kv.edges = f.edges /\ img.kv.k = f.k
  BY <1>4 DEF Image
<1>6. TableEnd(img) = 128 + 29 * n
  BY <1>3, <1>4 DEF TableEnd, HeaderSize, KvSize, EntrySize, SectionNameLen
<1>7. /\ img.len \in Nat /\ img.len % 32 = 0 /\ 128 + 56 * n <= img.len
      /\ \A name \in ToSet(SectionNames(f)) :
           /\ SectionSize(f, name) \in Nat /\ SectionOffset(f, name) \in Nat
           /\ SectionOffset(f, name) % 32 = 0
           /\ SectionOffset(f, name) >= 128 + 56 * n
           /\ SectionOffset(f, name) + SectionSize(f, name) <= img.len
  BY <1>1, <1>4, SectionsFit
<1>8. img.len >= 16 /\ TableEnd(img) <= img.len
  BY <1>3, <1>6, <1>7
<1>9. ASSUME NEW i \in 1..Len(img.sections)
      PROVE  /\ img.sections[i].off % 32 = 0
             /\ SectionFits(img, img.sections[i])
             /\ img.sections[i].name # "proof" =>
                  img.sections[i].size
                    = SectionSize(NewFile(img.kv.cells, img.kv.edges, img.kv.k), img.sections[i].name)
  <2>1. PICK name \in ToSet(SectionNames(f)) : name = SectionNames(f)[i]
    BY <1>3, <1>4
  <2>2. PICK s : s = img.sections[i] /\ s.name = name /\ s.off = SectionOffset(f, name)
                 /\ s.size = SectionSize(f, name)
    BY <1>3, <1>4, <2>1
  <2>3. s.off % 32 = 0
    BY <1>7, <2>2
  <2>4. SectionFits(img, s)
    BY <1>3, <1>6, <1>7, <2>2 DEF SectionFits
  <2>5. name # "proof" => s.size = SectionSize(NewFile(img.kv.cells, img.kv.edges, img.kv.k), name)
    <3>1. PICK g : g = NewFile(f.cells, f.edges, f.k)
      OBVIOUS
    <3>2. g.cells = f.cells /\ g.edges = f.edges /\ g.k = f.k
      BY <3>1 DEF NewFile, FileOK, FileCounts
    <3>3. name \in {"dials", "edges", "ticks", "proof"}
      BY NamesOf
    <3>4. name # "proof" => SectionSize(g, name) = SectionSize(f, name)
      BY <3>2, <3>3 DEF SectionSize
    <3> QED BY <1>5, <2>2, <3>1, <3>4
  <2> QED BY <2>2, <2>3, <2>4, <2>5
<1> QED BY <1>7, <1>8, <1>9 DEF Accepted

\* g holds the file being read after each of the first n sections.
PopulatesTo(first, secs, n, g) ==
  g = [i \in 0..n |-> IF i = 0 THEN first ELSE Populate(g[i - 1], secs[i])]

LEMMA PopulatesExist ==
  ASSUME NEW first, NEW secs, NEW N \in Nat
  PROVE  \E g : PopulatesTo(first, secs, N, g)
<1> DEFINE S == {n \in Nat : \E g : PopulatesTo(first, secs, n, g)}
<1>1. 0 \in S
  <2> DEFINE g == [n \in 0..0 |-> first]
  <2>1. g = [i \in 0..0 |-> IF i = 0 THEN first ELSE Populate(g[i - 1], secs[i])]
    OBVIOUS
  <2> QED BY <2>1 DEF PopulatesTo
<1>2. ASSUME NEW n \in S PROVE n + 1 \in S
  <2>1. PICK g : PopulatesTo(first, secs, n, g)
    OBVIOUS
  <2> DEFINE last == Populate(g[n], secs[n + 1])
             h == [k \in 0..(n + 1) |-> IF k = n + 1 THEN last ELSE g[k]]
  <2>2. ASSUME NEW k \in 0..(n + 1)
        PROVE  h[k] = IF k = 0 THEN first ELSE Populate(h[k - 1], secs[k])
    <3>1. CASE k = n + 1
      <4>1. k \in 0..(n + 1) /\ k # 0 /\ k - 1 = n /\ n \in 0..(n + 1) /\ n # n + 1
        BY <3>1
      <4>2. h[k] = last /\ h[k - 1] = g[n]
        BY <3>1, <4>1
      <4> QED BY <3>1, <4>1, <4>2
    <3>2. CASE k # n + 1
      <4>1. k \in 0..n /\ h[k] = g[k] /\ (k # 0 => h[k - 1] = g[k - 1])
        BY <3>2
      <4> HIDE DEF h
      <4> QED BY <2>1, <4>1 DEF PopulatesTo
    <3> QED BY <3>1, <3>2
  <2>3. h = [k \in 0..(n + 1) |-> IF k = 0 THEN first ELSE Populate(h[k - 1], secs[k])]
    <3>1. h = [k \in 0..(n + 1) |-> h[k]]
      OBVIOUS
    <3> HIDE DEF h
    <3> QED BY <2>2, <3>1
  <2>4. PopulatesTo(first, secs, n + 1, h)
    <3> HIDE DEF h
    <3> QED BY <2>3 DEF PopulatesTo
  <2> QED BY <2>4
<1> HIDE DEF S
<1>3. S = Nat
  <2>1. S \in SUBSET Nat
    BY DEF S
  <2> QED BY <1>1, <1>2, <2>1, Induct
<1> QED BY <1>3 DEF S

\* A file being read, of f's shape.
Reading(g, f) ==
  g = [cells |-> f.cells, edges |-> f.edges, k |-> f.k, dial |-> g.dial,
       edge |-> g.edge, tick |-> g.tick, proof |-> g.proof]

\* The dials and the edges that are read from rows.
DialRows(f, rows) == [i \in 1..f.cells |-> [field |-> rows[i].field, pad |-> 0]]
EdgeRows(f, rows) ==
  [i \in 1..f.edges |->
     [field |-> rows[i].field,
      ladder |-> [j \in 1..8 |-> IF j <= f.k THEN rows[i].ladder[j] ELSE 0]]]

LEMMA KeptIs ==
  ASSUME NEW f, FileOK(f)
  PROVE  Kept(f) = [cells |-> f.cells, edges |-> f.edges, k |-> f.k, dial |-> DialRows(f, f.dial),
                    edge |-> EdgeRows(f, f.edge), tick |-> f.tick, proof |-> f.proof]
<1>1. ASSUME NEW i \in 1..f.cells
      PROVE  [f.dial[i] EXCEPT !.pad = 0] = [field |-> f.dial[i].field, pad |-> 0]
  <2>1. f.dial[i] = [field |-> f.dial[i].field, pad |-> f.dial[i].pad]
    BY Zenon DEF FileOK, FileRows, RowsOK
  <2> QED BY <2>1
<1>2. ASSUME NEW i \in 1..f.edges
      PROVE  [f.edge[i] EXCEPT !.ladder = [j \in 1..8 |-> IF j <= f.k THEN @[j] ELSE 0]]
               = [field |-> f.edge[i].field,
                  ladder |-> [j \in 1..8 |-> IF j <= f.k THEN f.edge[i].ladder[j] ELSE 0]]
  <2>1. f.edge[i] = [field |-> f.edge[i].field, ladder |-> f.edge[i].ladder]
    BY Zenon DEF FileOK, FileRows, RowsOK
  <2>2. PICK x : x = [j \in 1..8 |-> IF j <= f.k THEN f.edge[i].ladder[j] ELSE 0]
    OBVIOUS
  <2>3. [f.edge[i] EXCEPT !.ladder = x] = [field |-> f.edge[i].field, ladder |-> x]
    BY <2>1
  <2> QED BY <2>2, <2>3
<1>3. PICK d : d = [i \in 1..f.cells |-> [f.dial[i] EXCEPT !.pad = 0]]
  OBVIOUS
<1>4. PICK e : e = [i \in 1..f.edges |->
                      [f.edge[i] EXCEPT !.ladder = [j \in 1..8 |-> IF j <= f.k THEN @[j] ELSE 0]]]
  OBVIOUS
<1>5. d = DialRows(f, f.dial)
  BY <1>1, <1>3 DEF DialRows
<1>6. e = EdgeRows(f, f.edge)
  BY <1>2, <1>4 DEF EdgeRows
<1>7. Kept(f) = [f EXCEPT !.dial = d, !.edge = e]
  BY <1>3, <1>4, Zenon DEF Kept
<1>8. [f EXCEPT !.dial = d, !.edge = e]
        = [cells |-> f.cells, edges |-> f.edges, k |-> f.k, dial |-> d,
           edge |-> e, tick |-> f.tick, proof |-> f.proof]
  <2>1. PICK r : r = [f EXCEPT !.dial = d]
    OBVIOUS
  <2>2. r = [cells |-> f.cells, edges |-> f.edges, k |-> f.k, dial |-> d,
             edge |-> f.edge, tick |-> f.tick, proof |-> f.proof]
    BY <2>1 DEF FileOK, FileShape
  <2>3. [r EXCEPT !.edge = e]
          = [cells |-> f.cells, edges |-> f.edges, k |-> f.k, dial |-> d,
             edge |-> e, tick |-> f.tick, proof |-> f.proof]
    BY <2>2
  <2>4. [f EXCEPT !.dial = d, !.edge = e] = [[f EXCEPT !.dial = d] EXCEPT !.edge = e]
    OBVIOUS
  <2> QED BY <2>1, <2>3, <2>4, Zenon
<1> QED BY <1>5, <1>6, <1>7, <1>8

\* What each section adds.
LEMMA PopulateAdds ==
  ASSUME NEW f, NEW g, Reading(g, f), NEW s, NEW h, h = Populate(g, s)
  PROVE  /\ s.name = "dials" =>
              /\ Reading(h, f) /\ h.edge = g.edge /\ h.tick = g.tick
              /\ h.proof = g.proof /\ h.dial = DialRows(f, s.rows)
         /\ s.name = "edges" =>
              /\ Reading(h, f) /\ h.dial = g.dial /\ h.tick = g.tick
              /\ h.proof = g.proof /\ h.edge = EdgeRows(f, s.rows)
         /\ s.name = "ticks" =>
              /\ Reading(h, f) /\ h.dial = g.dial /\ h.edge = g.edge
              /\ h.proof = g.proof /\ h.tick = s.rows
         /\ s.name = "proof" =>
              /\ Reading(h, f) /\ h.dial = g.dial /\ h.edge = g.edge
              /\ h.tick = g.tick /\ h.proof = s.rows
<1>0. /\ g = [cells |-> f.cells, edges |-> f.edges, k |-> f.k, dial |-> g.dial,
              edge |-> g.edge, tick |-> g.tick, proof |-> g.proof]
      /\ g.cells = f.cells /\ g.edges = f.edges /\ g.k = f.k
  BY DEF Reading
<1>1. CASE s.name = "dials"
  <2>1. h = [g EXCEPT !.dial = DialRows(f, s.rows)]
    BY <1>0, <1>1 DEF Populate, DialRows
  <2>2. h = [cells |-> f.cells, edges |-> f.edges, k |-> f.k, dial |-> DialRows(f, s.rows),
             edge |-> g.edge, tick |-> g.tick, proof |-> g.proof]
    BY <1>0, <2>1
  <2> QED BY <1>1, <2>2 DEF Reading
<1>2. CASE s.name = "edges"
  <2>1. h = [g EXCEPT !.edge = EdgeRows(f, s.rows)]
    BY <1>0, <1>2 DEF Populate, EdgeRows
  <2>2. h = [cells |-> f.cells, edges |-> f.edges, k |-> f.k, dial |-> g.dial,
             edge |-> EdgeRows(f, s.rows), tick |-> g.tick, proof |-> g.proof]
    BY <1>0, <2>1
  <2> QED BY <1>2, <2>2 DEF Reading
<1>3. CASE s.name = "ticks"
  <2>1. h = [g EXCEPT !.tick = s.rows]
    BY <1>3 DEF Populate
  <2>2. h = [cells |-> f.cells, edges |-> f.edges, k |-> f.k, dial |-> g.dial,
             edge |-> g.edge, tick |-> s.rows, proof |-> g.proof]
    BY <1>0, <2>1
  <2> QED BY <1>3, <2>2 DEF Reading
<1>4. CASE s.name = "proof"
  <2>1. h = [g EXCEPT !.proof = s.rows]
    BY <1>4 DEF Populate
  <2>2. h = [cells |-> f.cells, edges |-> f.edges, k |-> f.k, dial |-> g.dial,
             edge |-> g.edge, tick |-> g.tick, proof |-> s.rows]
    BY <1>0, <2>1
  <2> QED BY <1>4, <2>2 DEF Reading
<1> QED BY <1>1, <1>2, <1>3, <1>4

\* Of an edge the buckets within k are written and come back.
LEMMA EdgesComeBack ==
  ASSUME NEW f, FileOK(f), ~ Panics(f), NEW rows, rows = SectionRows(f, "edges")
  PROVE  EdgeRows(f, rows) = EdgeRows(f, f.edge)
<1>1. rows = [i \in 1..f.edges |-> [field |-> f.edge[i].field,
                                    ladder |-> SubSeq(f.edge[i].ladder, 1, f.k)]]
  BY DEF SectionRows
<1>2. f.edges \in Nat /\ f.k \in Nat
  BY DEF FileOK, FileCounts
<1>3. ASSUME NEW i \in 1..f.edges
      PROVE  /\ rows[i].field = f.edge[i].field
             /\ [j \in 1..8 |-> IF j <= f.k THEN rows[i].ladder[j] ELSE 0]
                  = [j \in 1..8 |-> IF j <= f.k THEN f.edge[i].ladder[j] ELSE 0]
  <2>1. PICK lad : lad = f.edge[i].ladder
    OBVIOUS
  <2>2. rows[i].field = f.edge[i].field /\ rows[i].ladder = SubSeq(lad, 1, f.k)
    <3>1. rows[i] = [field |-> f.edge[i].field, ladder |-> SubSeq(f.edge[i].ladder, 1, f.k)]
      BY <1>1, Zenon
    <3> QED BY <2>1, <3>1
  <2>3. f.k <= 8
    BY <1>2 DEF Panics
  <2>4. lad = [j \in 1..8 |-> lad[j]]
    BY <2>1, Zenon DEF FileOK, FileRows, RowsOK
  <2>5. lad \in Seq(ToSet(lad)) /\ Len(lad) = 8
    BY <2>4, SeqOfFcn
  <2>6. \A j \in 1..f.k : SubSeq(lad, 1, f.k)[j] = lad[j]
    <3>1. f.k \in 0..Len(lad)
      BY <1>2, <2>3, <2>5
    <3> QED BY <2>5, <3>1, PrefixFacts
  <2>7. \A j \in 1..8 : j <= f.k => SubSeq(lad, 1, f.k)[j] = lad[j]
    BY <1>2, <2>6
  <2> QED BY <2>1, <2>2, <2>7
<1>4. ASSUME NEW i \in 1..f.edges
      PROVE  [field |-> rows[i].field,
              ladder |-> [j \in 1..8 |-> IF j <= f.k THEN rows[i].ladder[j] ELSE 0]]
               = [field |-> f.edge[i].field,
                  ladder |-> [j \in 1..8 |-> IF j <= f.k THEN f.edge[i].ladder[j] ELSE 0]]
  BY <1>3, Zenon
<1> QED BY <1>4 DEF EdgeRows

\* Whatever of an image is left, what is read of it when it is accepted is the
\* whole file.
LEMMA ReadsAll ==
  ASSUME NEW f, FileOK(f), ~ Panics(f), NEW l, NEW img, HeadOfImage(img, f, l)
  PROVE  Deserialized(img) = Kept(f)
<1> DEFINE names == SectionNames(f)
<1>1. PICK secs, n : secs = Image(f).sections /\ n = Len(names)
  OBVIOUS
<1>2. /\ Len(secs) = n /\ n \in 3..4
      /\ \A i \in 1..n : secs[i].name = names[i] /\ secs[i].rows = SectionRows(f, names[i])
  BY <1>1, ImageSections
<1>3. /\ img.sections = secs /\ img.kv = Image(f).kv
  BY <1>1 DEF HeadOfImage
<1>4. /\ img.kv.cells = f.cells /\ img.kv.edges = f.edges /\ img.kv.k = f.k
  BY <1>3 DEF Image
<1>5. U16(f.cells) = f.cells /\ U16(f.edges) = f.edges /\ U8(f.k) = f.k /\ f.k # 0
  BY DEF FileOK, FileCounts, U16, U8
<1>6. PICK blank : blank = NewFile(f.cells, f.edges, f.k)
  OBVIOUS
<1>7. Reading(blank, f) /\ blank.proof = << >>
  BY <1>5, <1>6 DEF NewFile, Reading
<1>8. PICK first : first = FirstRead(img) /\ first = IF img.kv.cells = 0 THEN blank
                                     ELSE [blank EXCEPT !.tick[1] = img.kv.tickPeriod]
  <2>1. NewFile(U16(img.kv.cells), U16(img.kv.edges), U8(img.kv.k)) = blank
    BY <1>4, <1>5, <1>6
  <2>2. FirstRead(img) = IF img.kv.cells = 0 THEN blank
                         ELSE [blank EXCEPT !.tick[1] = img.kv.tickPeriod]
    BY <2>1, Zenon DEF FirstRead
  <2> QED BY <2>2, Zenon
<1>9. Reading(first, f) /\ first.proof = << >>
  <2>1. CASE img.kv.cells = 0
    BY <1>7, <1>8, <2>1
  <2>2. CASE img.kv.cells # 0
    <3>1. PICK t : t = [blank.tick EXCEPT ![1] = img.kv.tickPeriod]
      OBVIOUS
    <3>2. first = [blank EXCEPT !.tick = t]
      BY <1>8, <2>2, <3>1
    <3>3. blank = [cells |-> f.cells, edges |-> f.edges, k |-> f.k, dial |-> blank.dial,
                   edge |-> blank.edge, tick |-> blank.tick, proof |-> blank.proof]
      BY <1>7 DEF Reading
    <3>4. first = [cells |-> f.cells, edges |-> f.edges, k |-> f.k, dial |-> blank.dial,
                   edge |-> blank.edge, tick |-> t, proof |-> blank.proof]
      BY <3>2, <3>3
    <3> QED BY <1>7, <3>4 DEF Reading
  <2> QED BY <2>1, <2>2
<1> DEFINE g == CHOOSE g : PopulatesTo(FirstRead(img), img.sections, Len(img.sections), g)
<1>10. PopulatesTo(first, secs, n, g)
  <2>1. n \in Nat /\ Len(img.sections) = n
    BY <1>2, <1>3
  <2>2. PopulatesTo(FirstRead(img), img.sections, Len(img.sections), g)
    BY <2>1, PopulatesExist
  <2> HIDE DEF g
  <2> QED BY <1>3, <1>8, <2>1, <2>2, Zenon
<1>11. Deserialized(img) = g[n]
  <2>1. Deserialized(img) = g[Len(img.sections)]
    BY DEF Deserialized, PopulatesTo
  <2> QED BY <1>2, <1>3, <2>1
<1> HIDE DEF g
<1>12. \A i \in 0..n : g[i] = IF i = 0 THEN first ELSE Populate(g[i - 1], secs[i])
  <2>1. g = [i \in 0..n |-> IF i = 0 THEN first ELSE Populate(g[i - 1], secs[i])]
    BY <1>10 DEF PopulatesTo
  <2> QED BY <2>1, Zenon
<1>13. /\ g[0] = first /\ g[1] = Populate(g[0], secs[1]) /\ g[2] = Populate(g[1], secs[2])
       /\ g[3] = Populate(g[2], secs[3]) /\ (n = 4 => g[4] = Populate(g[3], secs[4]))
  BY <1>2, <1>12
<1>14. /\ secs[1].name = "dials" /\ secs[2].name = "edges" /\ secs[3].name = "ticks"
       /\ secs[1].rows = f.dial /\ secs[2].rows = SectionRows(f, "edges") /\ secs[3].rows = f.tick
  <2>1. names[1] = "dials" /\ names[2] = "edges" /\ names[3] = "ticks"
    <3>1. CASE f.proof # << >>
      BY <3>1, NamesOf
    <3>2. CASE f.proof = << >>
      BY <3>2, NamesOf
    <3> QED BY <3>1, <3>2
  <2> HIDE DEF names
  <2> QED BY <1>2, <2>1 DEF SectionRows
<1>15. PICK g0, g1, g2, g3 : g0 = g[0] /\ g1 = g[1] /\ g2 = g[2] /\ g3 = g[3]
  OBVIOUS
<1>16. /\ Reading(g1, f) /\ g1.proof = << >> /\ g1.dial = DialRows(f, f.dial)
  <2>1. PICK s : s.name = "dials" /\ s.rows = f.dial /\ g1 = Populate(first, s)
    BY <1>13, <1>14, <1>15
  <2>2. /\ Reading(g1, f) /\ g1.proof = first.proof /\ g1.dial = DialRows(f, s.rows)
    BY <1>9, <2>1, PopulateAdds
  <2> QED BY <1>9, <2>1, <2>2
<1>17. /\ Reading(g2, f) /\ g2.proof = << >> /\ g2.dial = DialRows(f, f.dial)
       /\ g2.edge = EdgeRows(f, f.edge)
  <2>1. PICK s : /\ s.name = "edges" /\ s.rows = SectionRows(f, "edges")
                 /\ g2 = Populate(g1, s)
    BY <1>13, <1>14, <1>15
  <2>2. /\ Reading(g2, f) /\ g2.proof = g1.proof /\ g2.dial = g1.dial
        /\ g2.edge = EdgeRows(f, s.rows)
    BY <1>16, <2>1, PopulateAdds
  <2>3. EdgeRows(f, s.rows) = EdgeRows(f, f.edge)
    BY <2>1, EdgesComeBack
  <2> QED BY <1>16, <2>2, <2>3
<1>18. /\ Reading(g3, f) /\ g3.proof = << >> /\ g3.dial = DialRows(f, f.dial)
       /\ g3.edge = EdgeRows(f, f.edge) /\ g3.tick = f.tick
  <2>1. PICK s : s.name = "ticks" /\ s.rows = f.tick /\ g3 = Populate(g2, s)
    BY <1>13, <1>14, <1>15
  <2>2. /\ Reading(g3, f) /\ g3.proof = g2.proof /\ g3.dial = g2.dial /\ g3.edge = g2.edge
        /\ g3.tick = s.rows
    BY <1>17, <2>1, PopulateAdds
  <2> QED BY <1>17, <2>1, <2>2
<1>19. CASE f.proof = << >>
  <2>1. n = 3
    BY <1>1, <1>19, NamesOf
  <2>2. g3 = Kept(f)
    BY <1>18, <1>19, KeptIs DEF Reading
  <2> QED BY <1>11, <1>15, <2>1, <2>2
<1>20. CASE f.proof # << >>
  <2>1. n = 4 /\ names[4] = "proof"
    <3>1. names = << "dials", "edges", "ticks", "proof" >>
      BY <1>20, NamesOf
    <3> HIDE DEF names
    <3> QED BY <1>1, <3>1
  <2>2. secs[4].name = "proof" /\ secs[4].rows = f.proof
    BY <1>2, <2>1 DEF SectionRows
  <2>3. PICK g4 : g4 = g[4] /\ g4 = Populate(g3, secs[4])
    BY <1>13, <1>15, <2>1
  <2>4. /\ Reading(g4, f) /\ g4.proof = f.proof /\ g4.dial = g3.dial
        /\ g4.edge = g3.edge /\ g4.tick = g3.tick
    BY <1>18, <2>2, <2>3, PopulateAdds
  <2>5. g4 = Kept(f)
    BY <1>18, <2>4, KeptIs DEF Reading
  <2> QED BY <1>11, <2>1, <2>3, <2>5
<1> QED BY <1>19, <1>20

\* new makes a file.
ShapeOK(c, e, k) ==
  c \in Nat /\ c < 65536 /\ e \in Nat /\ e < 65536 /\ k \in Nat /\ k < 256

LEMMA NewFileOK ==
  ASSUME NEW c \in Nat, NEW e \in Nat, NEW k, ShapeOK(c, e, k)
  PROVE  FileOK(NewFile(c, e, k))
<1>1. PICK f : f = NewFile(c, e, k)
  OBVIOUS
<1>2. PICK zeros : zeros = [j \in 1..8 |-> 0]
  OBVIOUS
<1>3. PICK dials, edges, ticks, kk :
        /\ dials = [i \in 1..c |-> [field |-> 0, pad |-> 0]]
        /\ edges = [i \in 1..e |-> [field |-> 0, ladder |-> zeros]]
        /\ ticks = [i \in 1..c |-> 0]
        /\ kk = IF k = 0 THEN 8 ELSE k
  OBVIOUS
<1>4. f = [cells |-> c, edges |-> e, k |-> kk, dial |-> dials, edge |-> edges,
           tick |-> ticks, proof |-> << >>]
  BY <1>1, <1>2, <1>3 DEF NewFile
<1>5. FileShape(f)
  BY <1>4 DEF FileShape
<1>6. FileCounts(f)
  BY <1>3, <1>4 DEF FileCounts, ShapeOK
<1>7. FileRows(f)
  <2>1. dials = [i \in 1..c |-> [field |-> dials[i].field, pad |-> dials[i].pad]]
    BY <1>3
  <2>2. edges = [i \in 1..e |-> [field |-> edges[i].field, ladder |-> edges[i].ladder]]
    BY <1>3
  <2>3. \A i \in 1..e : edges[i].ladder = [j \in 1..8 |-> edges[i].ladder[j]]
    <3>1. \A i \in 1..e : edges[i].ladder = zeros
      BY <1>3
    <3>2. zeros = [j \in 1..8 |-> zeros[j]]
      BY <1>2
    <3> QED BY <3>1, <3>2
  <2>4. ticks = [i \in 1..c |-> ticks[i]]
    BY <1>3
  <2> QED BY <1>4, <2>1, <2>2, <2>3, <2>4 DEF FileRows, RowsOK
<1> QED BY <1>1, <1>5, <1>6, <1>7 DEF FileOK

\* A file's proof: none, or one of some length.
ProofOK(p) == p = << >> \/ \E m \in Nat : p = << m >>

\* A caller's changes to the public fields leave a file.
LEMMA Refilled ==
  ASSUME NEW f, FileOK(f), NEW d, NEW e, NEW t, RowsOK(f, d, e, t), NEW p, ProofOK(p),
         NEW g, g = [cells |-> f.cells, edges |-> f.edges, k |-> f.k, dial |-> d,
                     edge |-> e, tick |-> t, proof |-> p]
  PROVE  FileOK(g)
<1>1. /\ g.cells = f.cells /\ g.edges = f.edges /\ g.k = f.k /\ g.dial = d
      /\ g.edge = e /\ g.tick = t /\ g.proof = p
  OBVIOUS
<1>2. FileShape(g)
  BY <1>1 DEF FileShape
<1>3. FileCounts(g)
  BY <1>1 DEF FileOK, FileCounts, ProofOK
<1>4. FileRows(g)
  BY <1>1 DEF FileRows, RowsOK
<1> QED BY <1>2, <1>3, <1>4 DEF FileOK

\* What a file is made of.
LEMMA FileParts ==
  ASSUME NEW f, FileOK(f)
  PROVE  /\ f = [cells |-> f.cells, edges |-> f.edges, k |-> f.k, dial |-> f.dial,
                 edge |-> f.edge, tick |-> f.tick, proof |-> f.proof]
         /\ RowsOK(f, f.dial, f.edge, f.tick)
         /\ ProofOK(f.proof)
<1>1. RowsOK(f, f.dial, f.edge, f.tick)
  BY DEF FileOK, FileRows
<1>2. ProofOK(f.proof)
  BY DEF FileOK, FileCounts, ProofOK
<1>3. f = [cells |-> f.cells, edges |-> f.edges, k |-> f.k, dial |-> f.dial,
           edge |-> f.edge, tick |-> f.tick, proof |-> f.proof]
  BY DEF FileOK, FileShape
<1> QED BY <1>1, <1>2, <1>3

LEMMA Redialed ==
  ASSUME NEW f, FileOK(f), NEW d, RowsOK(f, d, f.edge, f.tick), NEW g, g = [f EXCEPT !.dial = d]
  PROVE  FileOK(g)
<1>1. g = [cells |-> f.cells, edges |-> f.edges, k |-> f.k, dial |-> d,
           edge |-> f.edge, tick |-> f.tick, proof |-> f.proof]
  BY FileParts
<1>2. PICK p : p = f.proof /\ ProofOK(p)
  BY FileParts
<1>3. g = [cells |-> f.cells, edges |-> f.edges, k |-> f.k, dial |-> d,
           edge |-> f.edge, tick |-> f.tick, proof |-> p]
  BY <1>1, <1>2
<1> QED BY <1>2, <1>3, Refilled

LEMMA Reedged ==
  ASSUME NEW f, FileOK(f), NEW e, RowsOK(f, f.dial, e, f.tick), NEW g, g = [f EXCEPT !.edge = e]
  PROVE  FileOK(g)
<1>1. g = [cells |-> f.cells, edges |-> f.edges, k |-> f.k, dial |-> f.dial,
           edge |-> e, tick |-> f.tick, proof |-> f.proof]
  BY FileParts
<1>2. PICK p : p = f.proof /\ ProofOK(p)
  BY FileParts
<1>3. g = [cells |-> f.cells, edges |-> f.edges, k |-> f.k, dial |-> f.dial,
           edge |-> e, tick |-> f.tick, proof |-> p]
  BY <1>1, <1>2
<1> QED BY <1>2, <1>3, Refilled

LEMMA DialKeeps ==
  ASSUME NEW f, FileOK(f), NEW i, i \in 1..f.cells, NEW v, NEW pad,
         NEW g, g = [f EXCEPT !.dial[i] = [field |-> v, pad |-> pad]]
  PROVE  FileOK(g)
<1>1. PICK d : d = [f.dial EXCEPT ![i] = [field |-> v, pad |-> pad]]
  OBVIOUS
<1>2. RowsOK(f, d, f.edge, f.tick)
  <2>1. RowsOK(f, f.dial, f.edge, f.tick)
    BY FileParts
  <2>2. f.dial = [x \in 1..f.cells |-> [field |-> f.dial[x].field, pad |-> f.dial[x].pad]]
    BY <2>1 DEF RowsOK
  <2>3. d = [x \in 1..f.cells |-> [field |-> d[x].field, pad |-> d[x].pad]]
    BY <1>1, <2>2
  <2> QED BY <2>1, <2>3 DEF RowsOK
<1>3. g = [f EXCEPT !.dial = d]
  BY <1>1
<1> QED BY <1>2, <1>3, Redialed

LEMMA EdgeKeeps ==
  ASSUME NEW f, FileOK(f), NEW i, i \in 1..f.edges, NEW v,
         NEW lad, lad = [j \in 1..8 |-> v],
         NEW g, g = [f EXCEPT !.edge[i] = [field |-> v, ladder |-> lad]]
  PROVE  FileOK(g)
<1>1. PICK e : e = [f.edge EXCEPT ![i] = [field |-> v, ladder |-> lad]]
  OBVIOUS
<1>2. lad = [j \in 1..8 |-> lad[j]]
  OBVIOUS
<1>3. /\ f.edge = [x \in 1..f.edges |-> [field |-> f.edge[x].field, ladder |-> f.edge[x].ladder]]
      /\ \A x \in 1..f.edges : f.edge[x].ladder = [j \in 1..8 |-> f.edge[x].ladder[j]]
  BY FileParts DEF RowsOK
<1>4. \A x \in 1..f.edges : e[x].ladder = lad \/ e[x] = f.edge[x]
  BY <1>1, <1>3
<1>5. e = [x \in 1..f.edges |-> [field |-> e[x].field, ladder |-> e[x].ladder]]
  BY <1>1, <1>3
<1>6. \A x \in 1..f.edges : e[x].ladder = [j \in 1..8 |-> e[x].ladder[j]]
  BY <1>2, <1>3, <1>4
<1>7. RowsOK(f, f.dial, e, f.tick)
  BY <1>5, <1>6, FileParts DEF RowsOK
<1>8. g = [f EXCEPT !.edge = e]
  BY <1>1
<1> QED BY <1>7, <1>8, Reedged

LEMMA PeriodKeeps ==
  ASSUME NEW f, FileOK(f), NEW i, i \in 1..f.cells, NEW v,
         NEW g, g = [f EXCEPT !.tick[i] = v]
  PROVE  FileOK(g)
<1>1. PICK t : t = [f.tick EXCEPT ![i] = v]
  OBVIOUS
<1>2. RowsOK(f, f.dial, f.edge, t)
  BY <1>1, FileParts DEF RowsOK
<1>3. g = [f EXCEPT !.tick = t]
  BY <1>1
<1>4. g = [cells |-> f.cells, edges |-> f.edges, k |-> f.k, dial |-> f.dial,
           edge |-> f.edge, tick |-> t, proof |-> f.proof]
  BY <1>3, FileParts
<1>10. PICK p : p = f.proof /\ ProofOK(p)
  BY FileParts
<1>11. g = [cells |-> f.cells, edges |-> f.edges, k |-> f.k, dial |-> f.dial,
           edge |-> f.edge, tick |-> t, proof |-> p]
  BY <1>4, <1>10
<1> QED BY <1>2, <1>10, <1>11, Refilled, Zenon

LEMMA ProofKeeps ==
  ASSUME NEW f, FileOK(f), NEW n \in Nat, NEW g, g = [f EXCEPT !.proof = << n >>]
  PROVE  FileOK(g)
<1>1. PICK p : p = << n >>
  OBVIOUS
<1>2. g = [cells |-> f.cells, edges |-> f.edges, k |-> f.k, dial |-> f.dial,
           edge |-> f.edge, tick |-> f.tick, proof |-> p]
  BY <1>1, FileParts
<1>3. ProofOK(p)
  BY <1>1 DEF ProofOK
<1>4. RowsOK(f, f.dial, f.edge, f.tick)
  BY FileParts
<1> QED BY <1>2, <1>3, <1>4, Refilled

LEMMA ALadder ==
  ASSUME NEW v
  PROVE  \E lad : lad = [j \in 1..8 |-> v]
OBVIOUS

\* The medium holds the head of the image of the file written.
MediumInv ==
  /\ image = << >> => written = << >>
  /\ image # << >> =>
       \E f, img : \E l \in 0..SerializedSize(f) :
         /\ FileOK(f) /\ ~ Panics(f) /\ HeadOfImage(img, f, l)
         /\ image = << img >> /\ written = << f, SerializedSize(f) >>

\* What was read is all of that file, or was refused for what is missing.
ReadInv ==
  /\ read.status = "ok" => image # << >> /\ read.file = Kept(written[1])
  /\ read.status = "refused" => image # << >> /\ image[1].len < written[2]

LEMMA FileStep ==
  ASSUME QufAssumption, FileOK(file), [QufNext]_qufVars
  PROVE  FileOK(file')
<1>1. ASSUME NEW c \in CellCounts, NEW e \in EdgeCounts, NEW k \in EdgeKs, New(c, e, k)
      PROVE  FileOK(file')
  <2>1. c \in Nat /\ e \in Nat /\ ShapeOK(c, e, k)
    BY DEF QufAssumption, ShapeOK
  <2>2. file' = NewFile(c, e, k)
    BY <1>1 DEF New
  <2> QED BY <2>1, <2>2, NewFileOK
<1>2. ASSUME NEW i \in CellCounts \ {0}, NEW v \in Field, NEW pad \in Field, SetDial(i, v, pad)
      PROVE  FileOK(file')
  <2>1. i \in 1..file.cells
    BY <1>2 DEF SetDial, QufAssumption, FileOK, FileCounts
  <2>2. file' = [file EXCEPT !.dial[i] = [field |-> v, pad |-> pad]]
    BY <1>2 DEF SetDial
  <2> QED BY <2>1, <2>2, DialKeeps
<1>3. ASSUME NEW i \in EdgeCounts \ {0}, NEW v \in Field, SetEdge(i, v) PROVE FileOK(file')
  <2>1. i \in 1..file.edges
    BY <1>3 DEF SetEdge, QufAssumption, FileOK, FileCounts
  <2>2. PICK lad : lad = [j \in 1..8 |-> v]
    BY ALadder
  <2>3. file' = [file EXCEPT !.edge[i] = [field |-> v, ladder |-> lad]]
    BY <1>3, <2>2 DEF SetEdge
  <2> QED BY <2>1, <2>2, <2>3, EdgeKeeps
<1>4. ASSUME NEW i \in CellCounts \ {0}, NEW v \in Field, SetTick(i, v) PROVE FileOK(file')
  <2>1. i \in 1..file.cells
    BY <1>4 DEF SetTick, QufAssumption, FileOK, FileCounts
  <2>2. file' = [file EXCEPT !.tick[i] = v]
    BY <1>4 DEF SetTick
  <2> QED BY <2>1, <2>2, PeriodKeeps
<1>5. ASSUME NEW len \in ProofLens, SetProof(len) PROVE FileOK(file')
  <2>1. len \in Nat
    BY DEF QufAssumption
  <2>2. file' = [file EXCEPT !.proof = << len >>]
    BY <1>5 DEF SetProof
  <2> QED BY <2>1, <2>2, ProofKeeps
<1>6. CASE Serialize
  BY <1>6 DEF Serialize
<1>7. ASSUME NEW len, Truncate(len) PROVE FileOK(file')
  BY <1>7 DEF Truncate
<1>8. CASE Deserialize
  BY <1>8 DEF Deserialize
<1>9. CASE UNCHANGED qufVars
  BY <1>9 DEF qufVars
<1> QED BY <1>1, <1>2, <1>3, <1>4, <1>5, <1>6, <1>7, <1>8, <1>9 DEF QufNext

\* While nothing is stored a file is filled in.
LEMMA Unstored ==
  ASSUME MediumInv, ReadInv, image = << >>, image' = << >>, written' = written, read' = read
  PROVE  MediumInv' /\ ReadInv'
BY DEF MediumInv, ReadInv

LEMMA MediumStep ==
  ASSUME FileOK(file), MediumInv, ReadInv, [QufNext]_qufVars
  PROVE  MediumInv' /\ ReadInv'
<1>1. ASSUME NEW c, NEW e, NEW k, New(c, e, k) PROVE MediumInv' /\ ReadInv'
  BY <1>1, Unstored DEF New
<1>2. ASSUME NEW i, NEW v, NEW pad, SetDial(i, v, pad) PROVE MediumInv' /\ ReadInv'
  BY <1>2, Unstored DEF SetDial
<1>3. ASSUME NEW i, NEW v, SetEdge(i, v) PROVE MediumInv' /\ ReadInv'
  BY <1>3, Unstored DEF SetEdge
<1>4. ASSUME NEW i, NEW v, SetTick(i, v) PROVE MediumInv' /\ ReadInv'
  BY <1>4, Unstored DEF SetTick
<1>5. ASSUME NEW len, SetProof(len) PROVE MediumInv' /\ ReadInv'
  BY <1>5, Unstored DEF SetProof
<1>6. CASE Serialize
  <2>1. HasRoom(file)
    BY SectionsFit DEF HasRoom
  <2>2. PICK img : img = Image(file)
    OBVIOUS
  <2>3. image' = << img >> /\ written' = << file, SerializedSize(file) >> /\ read' = read
    BY <1>6, <2>1, <2>2 DEF Serialize
  <2>4. HeadOfImage(img, file, SerializedSize(file))
    BY <2>2 DEF HeadOfImage, Image
  <2>5. SerializedSize(file) \in 0..SerializedSize(file) /\ ~ Panics(file)
    BY <1>6, SectionsFit DEF Serialize
  <2>6. MediumInv'
    <3>1. image' # << >>
      BY <2>3
    <3> QED BY <2>3, <2>4, <2>5, <3>1, Zenon DEF MediumInv
  <2>7. ReadInv'
    <3>1. image = << >>
      BY <1>6 DEF Serialize
    <3> QED BY <2>3, <3>1 DEF ReadInv
  <2> QED BY <2>6, <2>7
<1>7. ASSUME image # << >>, NEW len \in 0..(written[2] - 1), Truncate(len)
      PROVE  MediumInv' /\ ReadInv'
  <2>1. PICK f, l, img :
          /\ l \in 0..SerializedSize(f) /\ FileOK(f) /\ ~ Panics(f) /\ HeadOfImage(img, f, l)
          /\ image = << img >> /\ written = << f, SerializedSize(f) >>
    BY <1>7 DEF Truncate, MediumInv
  <2>2. /\ written[1] = f /\ written[2] = SerializedSize(f) /\ image[1] = img /\ img.len = l
    BY <2>1 DEF HeadOfImage
  <2>3. PICK cut : cut = [img EXCEPT !.len = len]
    OBVIOUS
  <2>4. image' = << cut >> /\ written' = written /\ read' = read /\ len < SerializedSize(f)
    BY <1>7, <2>2, <2>3 DEF Truncate
  <2>5. HeadOfImage(cut, f, len) /\ cut.len = len
    BY <2>1, <2>3 DEF HeadOfImage
  <2>6. SerializedSize(f) \in Nat /\ len \in 0..SerializedSize(f)
    BY <1>7, <2>1, <2>2, <2>4, SectionsFit
  <2>7. image' # << >> /\ image'[1] = cut /\ image # << >>
    BY <2>1, <2>4
  <2>8. MediumInv'
    BY <2>1, <2>4, <2>5, <2>6, <2>7, Zenon DEF MediumInv
  <2>9. ReadInv'
    BY <2>2, <2>4, <2>5, <2>7 DEF ReadInv
  <2> QED BY <2>8, <2>9
<1>8. CASE Deserialize
  <2>1. image # << >> /\ image' = image /\ written' = written
    BY <1>8 DEF Deserialize
  <2>2. PICK f, l, img :
          /\ l \in 0..SerializedSize(f) /\ FileOK(f) /\ ~ Panics(f) /\ HeadOfImage(img, f, l)
          /\ image = << img >> /\ written = << f, SerializedSize(f) >>
    BY <2>1 DEF MediumInv
  <2>3. /\ written[1] = f /\ written[2] = SerializedSize(f) /\ image[1] = img /\ img.len = l
    BY <2>2 DEF HeadOfImage
  <2>4. MediumInv'
    BY <2>1 DEF MediumInv
  <2>5. ReadInv'
    <3>1. CASE Accepted(img)
      <4>1. read' = [status |-> "ok", file |-> Deserialized(img)]
        BY <1>8, <2>3, <3>1 DEF Deserialize
      <4>2. Deserialized(img) = Kept(f)
        BY <2>2, ReadsAll
      <4> QED BY <2>1, <2>3, <4>1, <4>2 DEF ReadInv
    <3>2. CASE ~ Accepted(img)
      <4>1. read'.status = "refused"
        BY <1>8, <2>3, <3>2 DEF Deserialize, Unread
      <4>2. l # SerializedSize(f)
        BY <2>2, <3>2, WholeAccepted
      <4>3. l < SerializedSize(f)
        BY <2>2, <4>2, SectionsFit
      <4> QED BY <2>1, <2>3, <4>1, <4>3 DEF ReadInv
    <3> QED BY <3>1, <3>2
  <2> QED BY <2>4, <2>5
<1>9. CASE UNCHANGED qufVars
  BY <1>9 DEF qufVars, MediumInv, ReadInv
<1> QED BY <1>1, <1>2, <1>3, <1>4, <1>5, <1>6, <1>7, <1>8, <1>9 DEF QufNext

\* For files of any shape and content, with a proof of any length or none: the
\* size computed beforehand always has room, a whole image reads back as what
\* the format keeps of the file, and one cut at any byte is refused or still
\* reads as all of it (serialized_size, serialize and deserialize of QufFile).
THEOREM QufAlwaysReadsBack ==
  ASSUME QufAssumption
  PROVE  QufInit /\ [][QufNext]_qufVars => []QufReadsBack
<1> DEFINE Inv == FileOK(file) /\ MediumInv /\ ReadInv
<1>1. QufInit => Inv
  <2> SUFFICES ASSUME QufInit PROVE Inv
    OBVIOUS
  <2>1. ShapeOK(0, 0, 0)
    BY DEF ShapeOK
  <2>2. FileOK(file)
    BY <2>1, NewFileOK DEF QufInit
  <2>3. MediumInv /\ ReadInv
    BY DEF QufInit, MediumInv, ReadInv, Unread
  <2> QED BY <2>2, <2>3
<1>2. Inv /\ [QufNext]_qufVars => Inv'
  <2> SUFFICES ASSUME Inv, [QufNext]_qufVars PROVE Inv'
    OBVIOUS
  <2>1. FileOK(file')
    BY FileStep
  <2>2. MediumInv' /\ ReadInv'
    BY MediumStep
  <2> QED BY <2>1, <2>2
<1>3. Inv => QufReadsBack
  <2> SUFFICES ASSUME Inv PROVE QufReadsBack
    OBVIOUS
  <2>1. written # << >> => image # << >>
    BY DEF MediumInv
  <2>2. read.status = "ok" => read.file = Kept(written[1])
    BY DEF ReadInv
  <2>3. read.status = "refused" => image[1].len < written[2]
    BY DEF ReadInv
  <2> QED BY <2>1, <2>2, <2>3 DEF QufReadsBack
<1> QED BY <1>1, <1>2, <1>3, PTL
=============================================================================
