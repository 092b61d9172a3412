---------------------------- MODULE FieldHistory ----------------------------
(***************************************************************************)
(* crates/field-edge-bridge: a cell's history on the sealed ledger, and    *)
(* the field view of the edge its last entry seals.  The numbers are       *)
(* vectors of integers, Unit of which make 1.0.  A length is mostly no     *)
(* whole number, so the view keeps each as its square: those that mix the  *)
(* lengths of the two states are surds x + y sqrt(N), N the product of the *)
(* states' squares.  The identities are compared exactly, without the      *)
(* rounding of f64.                                                        *)
(***************************************************************************)
EXTENDS Ledger, Integers

CONSTANTS HistoryCell,
          State,     \* JSON values the history's events carry
          VectorOf,  \* as_vector: the vectors of those that are arrays of numbers
          Warm,      \* the warm axis
          Op,        \* operations given to record_with: functions of the state
          Unit,      \* how many units make 1.0
          MaxEvents  \* bound on events

ASSUME FieldAssumption ==
  /\ State \subseteq Value /\ Unit \in Nat \ {0} /\ MaxEvents \in Nat
  /\ \A v \in DOMAIN VectorOf : VectorOf[v] \in Seq(Int)
  /\ Warm \in Seq(Int)

VARIABLES history, \* the bridge's CellLedger
          view     \* FieldEdge::from_entry of the entry last returned

fieldVars == << history, view >>

-----------------------------------------------------------------------------
\* Vectors.

SumOf(v) ==
  LET upTo[n \in 0..Len(v)] == IF n = 0 THEN 0 ELSE upTo[n - 1] + v[n]
  IN  upTo[Len(v)]
Dot(a, b) == SumOf([i \in DOMAIN a |-> a[i] * b[i]])
Square(v) == Dot(v, v)
Diff(a, b) == [i \in DOMAIN a |-> a[i] - b[i]]
Times(k, v) == [i \in DOMAIN v |-> k * v[i]]

\* The gates of compute: no direction, no view.
HasView(before, after) ==
  /\ before # << >> /\ Len(before) = Len(after) /\ Len(before) = Len(Warm)
  /\ 0 \notin {Square(before), Square(after), Square(Warm)}

\* x + y sqrt(N).
Surd(x, y) == [whole |-> x, root |-> y]

\* x + y sqrt(N) is not below zero.
NotNegative(x, y, N) ==
  \/ x >= 0 /\ x * x >= y * y * N
  \/ y >= 0 /\ y * y * N >= x * x

\* (k / |after| - l / |before|)^2, times N.
SquaredDrift(k, l, before, after) ==
  Surd(Square(before) * k * k + Square(after) * l * l, -2 * k * l)

\* Mutant: the directions are compared without dividing by the norms.
DirectionDriftRaw(before, after) ==
  Surd(Square(before) * Square(after) * Square(Diff(after, before)), 0)

\* |mu(after) - mu(before)|^2, times N: the sum of its components' squares.
DirectionDrift(before, after) ==
  LET drift(i) == SquaredDrift(after[i], before[i], before, after)
  IN  Surd(SumOf([i \in DOMAIN after |-> drift(i).whole]),
           SumOf([i \in DOMAIN after |-> drift(i).root]))

\* FieldEdge, with W the square of the warm axis: imbalance is
\* sqrt(imbalanceSq) / Unit, the norms are sqrt(beforeSq) / Unit and
\* sqrt(afterSq) / Unit, d_mu is sqrt(muSq / N), d_warmth is
\* sqrt(warmthSq / (N W)) but for its sign, warm_leg is leg / (sqrt(W) Unit)
\* and perp is sqrt(perpSq) / (W Unit).
FieldEdge(before, after) ==
  LET delta == Diff(after, before)
      leg   == Dot(Warm, delta)
  IN [imbalanceSq |-> Square(delta), muSq |-> DirectionDrift(before, after),
      warmthSq |-> SquaredDrift(Dot(Warm, after), Dot(Warm, before), before, after),
      leg |-> leg, perpSq |-> Square(Diff(Times(Square(Warm), delta), Times(leg, Warm))),
      beforeSq |-> Square(before), afterSq |-> Square(after)]

\* compute and from_entry: None where there is no view.
Compute(before, after) ==
  IF HasView(before, after) THEN Some(FieldEdge(before, after)) ELSE None

FromEntry(entry) ==
  IF {entry.before, entry.after} \subseteq DOMAIN VectorOf
  THEN Compute(VectorOf[entry.before], VectorOf[entry.after])
  ELSE None

\* The identities a FieldEdge offers.  The first two are residuals: this one a
\* surd, times N, that one times the fourth power of the axis.
RadialDirectionSplitResidual(e) ==
  LET N == e.beforeSq * e.afterSq
  IN  Surd(N * (e.imbalanceSq - e.beforeSq - e.afterSq - e.muSq.root),
           2 * N - e.muSq.whole)

WarmPythagorasResidual(e) ==
  LET W == Square(Warm)
  IN  e.imbalanceSq * W * W - e.leg * e.leg * W - e.perpSq

\* |d_warmth| <= d_mu, and d_mu <= imbalance.
WarmthWithinDrift(e) ==
  NotNegative(Square(Warm) * e.muSq.whole - e.warmthSq.whole,
              Square(Warm) * e.muSq.root - e.warmthSq.root, e.beforeSq * e.afterSq)

DriftWithinSurprise(e) ==
  LET N == e.beforeSq * e.afterSq
  IN  NotNegative(e.imbalanceSq * N - Unit * Unit * e.muSq.whole,
                  - (Unit * Unit * e.muSq.root), N)

-----------------------------------------------------------------------------
\* append: an event is a push-origin record without a forecast.
AppendEvent(value) ==
  /\ Len(history.entries) < MaxEvents
  /\ history' = RecordWith(history, "op", value, 0, None)
  /\ view' = FromEntry(Last(history'.entries))

\* record_with: the operation sees the state its outcome is scored against.
RecordOp(op) == AppendEvent(op[history.state])

FieldInit ==
  /\ history \in {NewLedger(HistoryCell)} \cup {WithGenesis(HistoryCell, g, 0) : g \in State}
  /\ view = None

FieldNext ==
  \/ \E value \in State : AppendEvent(value)
  \/ \E op \in Op : RecordOp(op)

-----------------------------------------------------------------------------
\* The bridge identities, of whatever edge the ledger sealed: surprise is
\* magnitude drift and direction drift together, the warm leg and what is
\* orthogonal to it are its two sides, and warmth is no more than direction
\* drift, which is no more than surprise where the norms multiply to 1.0 or
\* more.  (Below that it can be more: field_edge.rs:178 does not say so.)
LensesAgree ==
  view # None =>
    LET e == view[1] IN
    /\ RadialDirectionSplitResidual(e) = Surd(0, 0)
    /\ WarmPythagorasResidual(e) = 0
    /\ WarmthWithinDrift(e)
    /\ e.beforeSq * e.afterSq >= Unit * Unit * (Unit * Unit) => DriftWithinSurprise(e)
=============================================================================
