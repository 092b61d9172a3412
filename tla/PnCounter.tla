----------------------------- MODULE PnCounter -----------------------------
(***************************************************************************)
(* The PN-counter of crates/quilt-polyformalism (the CRDT opcode): every   *)
(* replica counts under its own peer number and merges states it is sent.  *)
(* How states travel is the caller's affair, so a state in the mail may be *)
(* lost, delivered many times and delivered late.                          *)
(*                                                                         *)
(* made and seen are history: an update is a triple <<sign, peer, k>>, the *)
(* k-th increment ("p") or decrement ("n") of that peer.                   *)
(***************************************************************************)
EXTENDS Integers, FiniteSets

CONSTANTS Replica,   \* the peer numbers in use
          Slots,     \* the length of the arrays p and n: 256 in the code
          MaxOps,    \* bound on the updates of one sign one peer makes
          MaxMail    \* bound on the states in the mail

ASSUME PnCounterAssumption ==
  Replica \subseteq Nat /\ Slots \in Nat /\ MaxOps \in Nat /\ MaxMail \in Nat

Slot == 0..(Slots - 1)
Sign == {"p", "n"}

\* A PnCounter: the fields p and n are the two signs.
Counters == [Sign -> [Slot -> 0..MaxOps]]

VARIABLES counter,  \* the PnCounter of each replica
          mail,     \* copies of counters on their way, each with what it has seen
          made,     \* history: how many updates each peer made, by sign
          seen      \* history: the updates that reached each replica

counterVars == << counter, mail, made, seen >>

NewCounter == [s \in Sign |-> [i \in Slot |-> 0]]

\* inc and dec.  A peer beyond the arrays is ignored without a word.
Counted(c, s, peer) ==
  IF peer \in Slot THEN [c EXCEPT ![s][peer] = @ + 1] ELSE c

\* Mutant: what is merged replaces what was there.
MergedTakes(c, d) == d

Larger(x, y) == IF y > x THEN y ELSE x

\* merge: element by element, the larger count.
Merged(c, d) == [s \in Sign |-> [i \in Slot |-> Larger(c[s][i], d[s][i])]]

Total(f) ==
  LET sum[n \in 0..Slots] == IF n = 0 THEN 0 ELSE sum[n - 1] + f[n - 1]
  IN  sum[Slots]

\* Mutant: decrements are added.
CounterValueAdds(c) == Total(c["p"]) + Total(c["n"])

CounterValue(c) == Total(c["p"]) - Total(c["n"])

-----------------------------------------------------------------------------
CounterInit ==
  /\ counter = [r \in Replica |-> NewCounter]
  /\ mail = {}
  /\ made = [r \in Replica |-> [s \in Sign |-> 0]]
  /\ seen = [r \in Replica |-> {}]

Count(r, s) ==
  /\ made[r][s] < MaxOps
  /\ counter' = [counter EXCEPT ![r] = Counted(@, s, r)]
  /\ IF r \in Slot
     THEN /\ made' = [made EXCEPT ![r][s] = @ + 1]
          /\ seen' = [seen EXCEPT ![r] = @ \cup {<< s, r, made[r][s] + 1 >>}]
     ELSE UNCHANGED << made, seen >>
  /\ UNCHANGED mail

\* A replica's caller sends a copy of its state.
Ship(r) ==
  /\ Cardinality(mail) < MaxMail
  /\ mail' = mail \cup {[counter |-> counter[r], seen |-> seen[r]]}
  /\ UNCHANGED << counter, made, seen >>

\* A copy is delivered; it may be delivered again.
Merge(r, m) ==
  /\ counter' = [counter EXCEPT ![r] = Merged(@, m.counter)]
  /\ seen' = [seen EXCEPT ![r] = @ \cup m.seen]
  /\ UNCHANGED << mail, made >>

Lose(m) ==
  /\ mail' = mail \ {m}
  /\ UNCHANGED << counter, made, seen >>

CounterNext ==
  \/ \E r \in Replica, s \in Sign : Count(r, s)
  \/ \E r \in Replica : Ship(r)
  \/ \E r \in Replica, m \in mail : Merge(r, m)
  \/ \E m \in mail : Lose(m)

CounterSpec == CounterInit /\ [][CounterNext]_counterVars

-----------------------------------------------------------------------------
(***************************************************************************)
(* Properties                                                              *)
(***************************************************************************)

\* The updates a counter's state stands for.
Updates(c) ==
  {u \in Sign \X Slot \X (1..MaxOps) : u[3] <= c[u[1]][u[2]]}

\* A replica's state is exactly the updates that reached it, directly or
\* through others, in whatever order and however often: none is counted twice,
\* none is lost, and two replicas the same updates reached are equal
\* (PnCounter::merge; the CRDT opcode's offline convergence).
SeenDeterminesState == \A r \in Replica : seen[r] = Updates(counter[r])

\* The value a replica reports is the increments less the decrements that
\* reached it (PnCounter::value).
ValueCountsUpdates ==
  \A r \in Replica :
    CounterValue(counter[r]) = Cardinality({u \in seen[r] : u[1] = "p"})
                               - Cardinality({u \in seen[r] : u[1] = "n"})
=============================================================================
