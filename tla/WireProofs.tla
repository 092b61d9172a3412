----------------------------- MODULE WireProofs -----------------------------
(***************************************************************************)
(* That the arrival peer's walks verify, are torn for a reason only and    *)
(* count what was lost, for any number of cells, frames and faults of the  *)
(* radio; that the firmware is never silent for long; and that the decoder *)
(* at the end of the wire finds every frame sent and counts every one not. *)
(***************************************************************************)
EXTENDS WireLink, CellFirmware, Lemmas, FiniteSetTheorems

-----------------------------------------------------------------------------
\* Line i is the latest so far of its walk.
LatestOf(ls, i) == \A k \in 1..Len(ls) : ls[k].walk = ls[i].walk => k <= i

\* Line i recomputes, and opens its walk or links to the line before it there.
Linked(ls, i) ==
  /\ ls[i].digest = Digest(ls[i].walk, ls[i].prev, ls[i].payload)
  /\ \/ /\ \A j \in 1..(i - 1) : ls[j].walk # ls[i].walk
        /\ ls[i].prev = Genesis
     \/ \E j \in 1..(i - 1) :
          /\ ls[j].walk = ls[i].walk /\ ls[i].prev = ls[j].digest
          /\ \A k \in 1..(i - 1) : ls[k].walk = ls[i].walk => k <= j

\* What the peer holds of a cell is the head of its present walk; that is the
\* youngest of its walks, and no line is of a walk of a cell not heard.
HeadsOK ==
  /\ \A c \in DOMAIN walks :
       /\ walks[c] = [life |-> walks[c].life, last |-> walks[c].last,
                      prev |-> walks[c].prev, gaps |-> walks[c].gaps]
       /\ walks[c].life \in Nat \ {0}
       /\ \E j \in 1..Len(lines) :
            /\ lines[j].walk = << c, walks[c].life >>
            /\ lines[j].digest = walks[c].prev
            /\ LatestOf(lines, j)
  /\ \A i \in 1..Len(lines) :
       \E c \in DOMAIN walks : \E l \in 1..walks[c].life : lines[i].walk = << c, l >>

WalksCounted ==
  /\ IsFiniteSet(DOMAIN walks) /\ IsFiniteSet(WalksOf(lines))
  /\ stats.restarts \in Nat
  /\ Cardinality(WalksOf(lines)) = Cardinality(DOMAIN walks) + stats.restarts

WalkInv ==
  /\ lines \in Seq(ToSet(lines))
  /\ \A i \in 1..Len(lines) : Linked(lines, i)
  /\ HeadsOK /\ WalksCounted

\* Links are what verify recomputes.
LEMMA LinkedVerifies ==
  ASSUME NEW ls, Len(ls) \in Nat, \A i \in 1..Len(ls) : Linked(ls, i)
  PROVE  Verified(ls)
<1> SUFFICES ASSUME NEW i \in 1..Len(ls)
             PROVE  /\ ls[i].digest = Digest(ls[i].walk, ls[i].prev, ls[i].payload)
                    /\ ls[i].prev = Expected(ls, i)
  BY DEF Verified
<1>1. Linked(ls, i)
  OBVIOUS
<1>2. CASE (\A j \in 1..(i - 1) : ls[j].walk # ls[i].walk) /\ ls[i].prev = Genesis
  <2>1. Before(ls, i) = {}
    BY <1>2 DEF Before
  <2> QED BY <1>1, <1>2, <2>1 DEF Linked, Expected
<1>3. ASSUME NEW j \in 1..(i - 1),
             ls[j].walk = ls[i].walk, ls[i].prev = ls[j].digest,
             \A k \in 1..(i - 1) : ls[k].walk = ls[i].walk => k <= j
      PROVE  ls[i].prev = Expected(ls, i)
  <2> DEFINE js == Before(ls, i)
             top == CHOOSE h \in js : \A k \in js : k <= h
  <2>1. j \in js /\ js \subseteq 1..(i - 1) /\ \A k \in js : k <= j
    BY <1>3 DEF Before
  <2>2. top \in js /\ \A k \in js : k <= top
    BY <2>1
  <2>3. top = j
    <3>1. top <= j /\ j <= top /\ top \in Int /\ j \in Int
      BY <2>1, <2>2
    <3> HIDE DEF top
    <3> QED BY <3>1
  <2>4. Expected(ls, i) = ls[top].digest
    BY <2>1 DEF Expected
  <2> QED BY <1>3, <2>3, <2>4
<1> QED BY <1>1, <1>2, <1>3 DEF Linked

\* What the tear makes of a walk, field by field.
LEMMA TornFields ==
  ASSUME NEW a, NEW b, NEW p, NEW g, NEW s
  PROVE  Torn([life |-> a, last |-> b, prev |-> p, gaps |-> g], s) =
           [life |-> IF Verdict(b, s) = "restart" THEN a + 1 ELSE a,
            last |-> Observed(b, s),
            prev |-> IF Verdict(b, s) = "restart" THEN Genesis ELSE p,
            gaps |-> g + Missing(b, s)]
<1> DEFINE x == [life |-> a, last |-> b, prev |-> p, gaps |-> g]
           v == Verdict(b, s)
           o == Observed(b, s)
           m == Missing(b, s)
<1>1. x.life = a /\ x.last = b /\ x.prev = p /\ x.gaps = g
  OBVIOUS
<1>2. Torn(x, s) = [x EXCEPT !.last = o, !.gaps = g + m,
                             !.life = IF v = "restart" THEN a + 1 ELSE a,
                             !.prev = IF v = "restart" THEN Genesis ELSE p]
  BY <1>1 DEF Torn
<1> HIDE DEF v, o, m
<1> QED BY <1>2 DEF v, o, m

\* What a frame makes of the walk it is written in.
LEMMA WalkedFields ==
  ASSUME NEW c, NEW f, NEW w,
         w = [life |-> w.life, last |-> w.last, prev |-> w.prev, gaps |-> w.gaps]
  PROVE  /\ Torn(w, f.seq).life =
              IF Verdict(w.last, f.seq) = "restart" THEN w.life + 1 ELSE w.life
         /\ Torn(w, f.seq).prev =
              IF Verdict(w.last, f.seq) = "restart" THEN Genesis ELSE w.prev
         /\ Walked(c, w, f) =
              [life |-> Torn(w, f.seq).life, last |-> Observed(w.last, f.seq),
               prev |-> ArrivalLine(c, w, f).digest,
               gaps |-> w.gaps + Missing(w.last, f.seq)]
<1> DEFINE a == w.life
           b == w.last
           p == w.prev
           g == w.gaps
           t == Torn(w, f.seq)
           life == IF Verdict(b, f.seq) = "restart" THEN a + 1 ELSE a
           prev == IF Verdict(b, f.seq) = "restart" THEN Genesis ELSE p
           sealed == ArrivalLine(c, w, f).digest
<1>1. w = [life |-> a, last |-> b, prev |-> p, gaps |-> g]
  OBVIOUS
<1>2. t = [life |-> life, last |-> Observed(b, f.seq), prev |-> prev,
           gaps |-> g + Missing(b, f.seq)]
  <2>1. t = Torn([life |-> a, last |-> b, prev |-> p, gaps |-> g], f.seq)
    BY <1>1
  <2> QED BY <2>1, TornFields
<1>3. Walked(c, w, f) = [t EXCEPT !.prev = sealed]
  BY DEF Walked
<1> HIDE DEF t, sealed, life, prev
<1>4. Walked(c, w, f) = [life |-> life, last |-> Observed(b, f.seq), prev |-> sealed,
                         gaps |-> g + Missing(b, f.seq)]
  BY <1>2, <1>3
<1>5. t.life = life /\ t.prev = prev
  BY <1>2
<1> QED BY <1>4, <1>5 DEF t, sealed, life, prev

LEMMA WalkInit == LinkInit => WalkInv
<1> SUFFICES ASSUME LinkInit PROVE WalkInv
  OBVIOUS
<1>1. lines = << >> /\ Len(lines) = 0 /\ DOMAIN walks = {} /\ stats.restarts = 0
  BY DEF LinkInit
<1>2. WalksOf(lines) = {}
  BY <1>1 DEF WalksOf
<1>3. WalksCounted
  BY <1>1, <1>2, FS_EmptySet DEF WalksCounted
<1>4. lines \in Seq(ToSet(lines))
  BY <1>1
<1> QED BY <1>1, <1>3, <1>4 DEF WalkInv, HeadsOK

\* The peer's handler writes a line that links, and holds it as the head.
LEMMA OnFrameKeepsWalks ==
  ASSUME WalkInv, OnFrame
  PROVE  WalkInv'
<1> DEFINE f == Head(air)
           c == f.cell
           w == Heard(c)
           torn == Verdict(w.last, f.seq) = "restart"
           life == IF torn THEN w.life + 1 ELSE w.life
           prev == IF torn THEN Genesis ELSE w.prev
           line == ArrivalLine(c, w, f)
           n == Len(lines)
           known == c \in DOMAIN walks
           fresh == ~ known \/ torn
<1>1. /\ lines' = Append(lines, line)
      /\ walks' = [d \in DOMAIN walks \cup {c} |->
                     IF d = c THEN Walked(c, w, f) ELSE walks[d]]
      /\ stats'.restarts = stats.restarts + (IF torn THEN 1 ELSE 0)
  BY DEF OnFrame, Tally
<1>2. /\ w = [life |-> w.life, last |-> w.last, prev |-> w.prev, gaps |-> w.gaps]
      /\ w.life \in Nat \ {0}
  BY DEF Heard, NewWalk, WalkInv, HeadsOK
<1>3. ~ known => ~ torn /\ w.life = 1 /\ w.prev = Genesis
  <2>1. ~ known => w = NewWalk
    BY DEF Heard
  <2>2. NewWalk.last = NoSeq /\ NewWalk.life = 1 /\ NewWalk.prev = Genesis
    BY DEF NewWalk
  <2>3. ASSUME ~ known PROVE Verdict(w.last, f.seq) = "start"
    BY <2>1, <2>2, <2>3 DEF Verdict
  <2> QED BY <2>1, <2>2, <2>3
<1>4. /\ Torn(w, f.seq).life = life /\ Torn(w, f.seq).prev = prev
      /\ Walked(c, w, f) = [life |-> Walked(c, w, f).life, last |-> Walked(c, w, f).last,
                            prev |-> Walked(c, w, f).prev, gaps |-> Walked(c, w, f).gaps]
      /\ Walked(c, w, f).life = life /\ Walked(c, w, f).prev = line.digest
  <2> DEFINE t == Torn(w, f.seq)
             after == Walked(c, w, f)
  <2>1. /\ t.life = life /\ t.prev = prev
        /\ after = [life |-> t.life, last |-> Observed(w.last, f.seq),
                    prev |-> line.digest, gaps |-> w.gaps + Missing(w.last, f.seq)]
    BY <1>2, WalkedFields
  <2> HIDE DEF t, after, life, prev, line
  <2> QED BY <2>1 DEF t, after
<1>5. /\ line.walk = << c, life >> /\ line.prev = prev
      /\ line.digest = Digest(line.walk, line.prev, line.payload)
  BY <1>4 DEF ArrivalLine, StepLine
<1>6. life \in Nat \ {0}
  BY <1>2
<1>7. /\ lines' \in Seq(ToSet(lines')) /\ Len(lines') = n + 1 /\ n \in Nat
      /\ lines'[n + 1] = line
      /\ \A i \in 1..n : lines'[i] = lines[i]
  BY <1>1, AppendFacts DEF WalkInv
<1>8. /\ DOMAIN walks' = DOMAIN walks \cup {c}
      /\ walks'[c] = Walked(c, w, f)
      /\ \A d \in DOMAIN walks : d # c => walks'[d] = walks[d]
  BY <1>1
\* Before, the lines were of other walks or led to the head.
<1>9. fresh => \A i \in 1..n : lines[i].walk # << c, life >>
  <2> SUFFICES ASSUME fresh, NEW i \in 1..n, lines[i].walk = << c, life >>
               PROVE  FALSE
    OBVIOUS
  <2>0. PICK d \in DOMAIN walks : \E l \in 1..walks[d].life : lines[i].walk = << d, l >>
    BY DEF WalkInv, HeadsOK
  <2>1. PICK l \in 1..walks[d].life : lines[i].walk = << d, l >>
    BY <2>0
  <2>2. d = c /\ l = life
    <3>1. << d, l >>[1] = << c, life >>[1] /\ << d, l >>[2] = << c, life >>[2]
      BY <2>1
    <3> QED BY <3>1
  <2>3. known /\ torn /\ w = walks[c]
    BY <2>2 DEF Heard
  <2>4. life = walks[c].life + 1 /\ life \in 1..walks[c].life /\ walks[c].life \in Nat
    BY <2>2, <2>3, <1>2
  <2> QED BY <2>4
<1>10. ~ fresh => \E j \in 1..n : /\ lines[j].walk = << c, life >>
                                  /\ lines[j].digest = prev
                                  /\ LatestOf(lines, j)
  BY DEF Heard, WalkInv, HeadsOK
<1> HIDE DEF life, prev, line, w, torn
<1>11. \A i \in 1..(n + 1) : Linked(lines', i)
  <2> SUFFICES ASSUME NEW i \in 1..(n + 1) PROVE Linked(lines', i)
    OBVIOUS
  <2>1. CASE i \in 1..n
    <3>1. Linked(lines, i)
      BY <2>1 DEF WalkInv
    <3>2. /\ lines'[i] = lines[i]
          /\ \A j \in 1..(i - 1) : j \in 1..n /\ lines'[j] = lines[j]
      BY <2>1, <1>7
    <3> QED BY <3>1, <3>2 DEF Linked
  <2>2. CASE i = n + 1 /\ fresh
    <3>1. prev = Genesis
      BY <2>2, <1>3 DEF prev
    <3>2. \A j \in 1..n : lines'[j].walk # line.walk
      BY <2>2, <1>5, <1>7, <1>9
    <3>3. i - 1 = n /\ lines'[i] = line
      BY <2>2, <1>7
    <3> QED BY <3>1, <3>2, <3>3, <1>5 DEF Linked
  <2>3. CASE i = n + 1 /\ ~ fresh
    <3>1. PICK j \in 1..n : /\ lines[j].walk = << c, life >>
                            /\ lines[j].digest = prev
                            /\ LatestOf(lines, j)
      BY <2>3, <1>10
    <3>2. i - 1 = n /\ lines'[i] = line /\ lines'[j] = lines[j]
      BY <2>3, <1>7
    <3>3. \A k \in 1..n : lines'[k].walk = line.walk => k <= j
      BY <3>1, <1>5, <1>7 DEF LatestOf
    <3> QED BY <3>1, <3>2, <3>3, <1>5 DEF Linked
  <2> QED BY <2>1, <2>2, <2>3, <1>7
<1>12. HeadsOK'
  <2>1. /\ lines'[n + 1].walk = << c, life >> /\ lines'[n + 1].digest = line.digest
        /\ LatestOf(lines', n + 1)
    BY <1>5, <1>7 DEF LatestOf
  <2>2. ASSUME NEW d \in DOMAIN walks, d # c
        PROVE  \E j \in 1..(n + 1) : /\ lines'[j].walk = << d, walks[d].life >>
                                     /\ lines'[j].digest = walks[d].prev
                                     /\ LatestOf(lines', j)
    <3>1. PICK j \in 1..n : /\ lines[j].walk = << d, walks[d].life >>
                            /\ lines[j].digest = walks[d].prev
                            /\ LatestOf(lines, j)
      BY DEF WalkInv, HeadsOK
    <3>2. line.walk # << d, walks[d].life >>
      <4>1. << c, life >>[1] # << d, walks[d].life >>[1]
        BY <2>2
      <4> QED BY <4>1, <1>5
    <3>3. \A k \in 1..(n + 1) : lines'[k].walk = << d, walks[d].life >> => k <= j
      <4> SUFFICES ASSUME NEW k \in 1..(n + 1), lines'[k].walk = << d, walks[d].life >>
                   PROVE  k <= j
        OBVIOUS
      <4>1. k # n + 1
        BY <3>2, <1>7
      <4>2. k \in 1..n /\ lines'[k] = lines[k]
        BY <4>1, <1>7
      <4> QED BY <3>1, <4>2 DEF LatestOf
    <3>4. j \in 1..(n + 1) /\ lines'[j] = lines[j]
      BY <1>7
    <3> QED BY <3>1, <3>3, <3>4, <1>7 DEF LatestOf
  <2>3. \A d \in DOMAIN walks' :
          /\ walks'[d] = [life |-> walks'[d].life, last |-> walks'[d].last,
                          prev |-> walks'[d].prev, gaps |-> walks'[d].gaps]
          /\ walks'[d].life \in Nat \ {0}
          /\ \E j \in 1..(n + 1) :
               /\ lines'[j].walk = << d, walks'[d].life >>
               /\ lines'[j].digest = walks'[d].prev
               /\ LatestOf(lines', j)
    <3> SUFFICES ASSUME NEW d \in DOMAIN walks'
                 PROVE  /\ walks'[d] = [life |-> walks'[d].life, last |-> walks'[d].last,
                                        prev |-> walks'[d].prev, gaps |-> walks'[d].gaps]
                        /\ walks'[d].life \in Nat \ {0}
                        /\ \E j \in 1..(n + 1) :
                             /\ lines'[j].walk = << d, walks'[d].life >>
                             /\ lines'[j].digest = walks'[d].prev
                             /\ LatestOf(lines', j)
      OBVIOUS
    <3>1. CASE d = c
      <4>1. n + 1 \in 1..(n + 1)
        BY <1>7
      <4> QED BY <3>1, <4>1, <2>1, <1>4, <1>6, <1>8
    <3>2. CASE d # c
      <4>1. d \in DOMAIN walks /\ walks'[d] = walks[d]
        BY <3>2, <1>8
      <4>2. /\ walks[d] = [life |-> walks[d].life, last |-> walks[d].last,
                           prev |-> walks[d].prev, gaps |-> walks[d].gaps]
            /\ walks[d].life \in Nat \ {0}
        BY <4>1 DEF WalkInv, HeadsOK
      <4> QED BY <3>2, <4>1, <4>2, <2>2
    <3> QED BY <3>1, <3>2
  <2>4. \A i \in 1..(n + 1) :
          \E d \in DOMAIN walks' : \E l \in 1..walks'[d].life : lines'[i].walk = << d, l >>
    <3> SUFFICES ASSUME NEW i \in 1..(n + 1)
                 PROVE  \E d \in DOMAIN walks' : \E l \in 1..walks'[d].life :
                          lines'[i].walk = << d, l >>
      OBVIOUS
    <3>1. CASE i = n + 1
      <4>1. c \in DOMAIN walks' /\ life \in 1..walks'[c].life
        BY <1>4, <1>6, <1>8
      <4> QED BY <3>1, <4>1, <2>1
    <3>2. CASE i \in 1..n
      <4>0. PICK d \in DOMAIN walks : \E l \in 1..walks[d].life : lines[i].walk = << d, l >>
        BY <3>2 DEF WalkInv, HeadsOK
      <4>1. PICK l \in 1..walks[d].life : lines[i].walk = << d, l >>
        BY <4>0
      <4>2. d \in DOMAIN walks' /\ walks[d].life \in Nat
        BY <1>8 DEF WalkInv, HeadsOK
      <4>3. l \in 1..walks'[d].life
        <5>1. CASE d = c
          <6>1. walks'[c].life = life /\ w = walks[c]
            BY <5>1, <1>4, <1>8 DEF Heard, w
          <6>2. life \in Nat /\ w.life <= life
            BY <1>2, <1>6 DEF life
          <6> QED BY <5>1, <6>1, <6>2, <4>2
        <5>2. CASE d # c
          BY <5>2, <1>8
        <5> QED BY <5>1, <5>2
      <4> QED BY <3>2, <4>1, <4>2, <4>3, <1>7
    <3> QED BY <3>1, <3>2, <1>7
  <2> QED BY <2>3, <2>4, <1>7 DEF HeadsOK
<1>13. WalksCounted'
  <2> DEFINE W == WalksOf(lines)
             D == DOMAIN walks
             r == stats.restarts
  <2>1. WalksOf(lines') = W \cup {<< c, life >>}
    <3>1. \A x : x \in WalksOf(lines') <=> x \in W \/ x = << c, life >>
      <4> SUFFICES ASSUME NEW x
                   PROVE  x \in WalksOf(lines') <=> x \in W \/ x = << c, life >>
        OBVIOUS
      <4>1. x \in WalksOf(lines') <=> \E i \in 1..(n + 1) : x = lines'[i].walk
        BY <1>7 DEF WalksOf
      <4>2. x \in W <=> \E i \in 1..n : x = lines[i].walk
        BY DEF WalksOf
      <4>3. (\E i \in 1..(n + 1) : x = lines'[i].walk)
              <=> x = line.walk \/ \E i \in 1..n : x = lines[i].walk
        BY <1>7
      <4> QED BY <4>1, <4>2, <4>3, <1>5
    <3> QED BY <3>1
  <2>2. /\ IsFiniteSet(D) /\ IsFiniteSet(W) /\ r \in Nat
        /\ Cardinality(W) = Cardinality(D) + r
        /\ Cardinality(D) \in Nat /\ Cardinality(W) \in Nat
    BY FS_CardinalityType DEF WalkInv, WalksCounted
  <2>3. /\ IsFiniteSet(D \cup {c})
        /\ Cardinality(D \cup {c}) = IF known THEN Cardinality(D) ELSE Cardinality(D) + 1
    BY <2>2, FS_AddElement
  <2>4. << c, life >> \in W <=> ~ fresh
    <3>1. fresh => << c, life >> \notin W
      BY <1>9 DEF WalksOf
    <3>2. ~ fresh => << c, life >> \in W
      BY <1>10 DEF WalksOf
    <3> QED BY <3>1, <3>2
  <2>5. /\ IsFiniteSet(W \cup {<< c, life >>})
        /\ Cardinality(W \cup {<< c, life >>})
             = IF fresh THEN Cardinality(W) + 1 ELSE Cardinality(W)
    <3>1. /\ IsFiniteSet(W \cup {<< c, life >>})
          /\ Cardinality(W \cup {<< c, life >>})
               = IF << c, life >> \in W THEN Cardinality(W) ELSE Cardinality(W) + 1
      BY <2>2, FS_AddElement
    <3> QED BY <3>1, <2>4
  <2>6. stats'.restarts = r + (IF torn THEN 1 ELSE 0)
    BY <1>1
  <2> DEFINE P == Cardinality(D)
             Q == Cardinality(W)
             P1 == Cardinality(DOMAIN walks')
             Q1 == Cardinality(WalksOf(lines'))
             r1 == stats'.restarts
  <2>7. /\ P \in Nat /\ Q \in Nat /\ r \in Nat /\ Q = P + r
        /\ P1 = (IF known THEN P ELSE P + 1)
        /\ Q1 = (IF fresh THEN Q + 1 ELSE Q)
        /\ r1 = r + (IF torn THEN 1 ELSE 0)
    BY <1>8, <2>1, <2>2, <2>3, <2>5, <2>6
  <2>8. known => (fresh <=> torn)
    OBVIOUS
  <2>9. ~ known => fresh /\ ~ torn
    BY <1>3
  <2>10. IsFiniteSet(DOMAIN walks') /\ IsFiniteSet(WalksOf(lines'))
    BY <1>8, <2>1, <2>3, <2>5
  <2> HIDE DEF P, Q, P1, Q1, r, r1, known, fresh
  <2>11. Q1 = P1 + r1 /\ r1 \in Nat
    BY <2>7, <2>8, <2>9
  <2> QED BY <2>10, <2>11 DEF P1, Q1, r1, WalksCounted
<1> QED BY <1>7, <1>11, <1>12, <1>13 DEF WalkInv

LEMMA WalkStep ==
  ASSUME WalkInv, [LinkNext]_linkVars
  PROVE  WalkInv'
<1>1. CASE UNCHANGED peer
  BY <1>1 DEF peer, WalkInv, HeadsOK, WalksCounted
<1>2. LinkNext => OnFrame \/ UNCHANGED peer
  BY DEF LinkNext, Send, SendFails, Numbered, Reboot, Lose, Repeat, Swap
<1>3. UNCHANGED linkVars => UNCHANGED peer
  BY DEF linkVars, peer
<1> QED BY <1>1, <1>2, <1>3, OnFrameKeepsWalks

\* However many cells send however many frames over a radio that loses, repeats
\* and reorders them as it likes, and however often they reboot, verify accepts
\* what the peer has written, and finds one walk per cell heard and one more per
\* restart counted (ArrivalPeer::on_frame, walks::verify).
THEOREM WalksAlwaysVerify == LinkSpec => []WalksVerify
<1>1. WalkInv /\ [LinkNext]_linkVars => WalkInv'
  BY WalkStep
<1>2. WalkInv => WalksVerify
  <2> SUFFICES ASSUME WalkInv PROVE WalksVerify
    OBVIOUS
  <2>1. Len(lines) \in Nat
    BY DEF WalkInv
  <2> QED BY <2>1, LinkedVerifies DEF WalkInv, WalksCounted, WalksVerify
<1> QED BY <1>1, <1>2, WalkInit, PTL DEF LinkSpec

-----------------------------------------------------------------------------
(***************************************************************************)
(* Numbers.  The frames the peer can still hear or has heard are numbered  *)
(* as they were sent: two of one life of a cell are as far apart, modulo   *)
(* SeqSpace, as their places in it.                                        *)
(***************************************************************************)

LEMMA ModOnce ==
  ASSUME NEW m \in Nat \ {0}, NEW x \in 0..(2 * m - 1)
  PROVE  x % m = IF x < m THEN x ELSE x - m
OBVIOUS

LEMMA ModIs ==
  ASSUME NEW m \in Nat \ {0}, NEW q \in Nat, NEW r \in 0..(m - 1)
  PROVE  (m * q + r) % m = r
<1> DEFINE a == m * q + r
           p == a \div m
           s == a % m
<1>1. a \in Nat
  OBVIOUS
<1> HIDE DEF a
<1>2. p \in Int /\ s \in 0..(m - 1) /\ a = m * p + s
  BY <1>1
<1> HIDE DEF p, s
<1>3. m * q + r = m * p + s
  BY <1>2 DEF a
<1>4. m * (q - p) = s - r
  BY <1>2, <1>3
<1>5. ~ (q - p >= 1)
  <2> SUFFICES ASSUME q - p >= 1 PROVE FALSE
    OBVIOUS
  <2>1. m * (q - p) >= m * 1
    BY <1>2
  <2> QED BY <1>2, <1>4, <2>1
<1>6. ~ (p - q >= 1)
  <2> SUFFICES ASSUME p - q >= 1 PROVE FALSE
    OBVIOUS
  <2>1. m * (p - q) >= m * 1
    BY <1>2
  <2>2. m * (p - q) = r - s
    BY <1>2, <1>4
  <2> QED BY <1>2, <2>1, <2>2
<1>7. p = q
  BY <1>2, <1>5, <1>6
<1> QED BY <1>2, <1>3, <1>7 DEF s, a

LEMMA ModSucc ==
  ASSUME NEW m \in Nat \ {0}, NEW d \in Nat
  PROVE  /\ d % m \in 0..(m - 1)
         /\ (d + 1) % m = IF d % m = m - 1 THEN 0 ELSE (d % m) + 1
<1> DEFINE q == d \div m
           r == d % m
<1>1. q \in Nat /\ r \in 0..(m - 1) /\ d = m * q + r
  OBVIOUS
<1> HIDE DEF q, r
<1>2. CASE r = m - 1
  <2>1. d + 1 = m * (q + 1) + 0
    BY <1>1, <1>2
  <2>2. (m * (q + 1) + 0) % m = 0
    <3>1. q + 1 \in Nat /\ 0 \in 0..(m - 1)
      BY <1>1
    <3> QED BY <3>1, ModIs
  <2> QED BY <1>1, <1>2, <2>1, <2>2 DEF r
<1>3. CASE r # m - 1
  <2>1. d + 1 = m * q + (r + 1)
    BY <1>1
  <2>2. (m * q + (r + 1)) % m = r + 1
    <3>1. r + 1 \in 0..(m - 1)
      BY <1>1, <1>3
    <3> QED BY <1>1, <3>1, ModIs
  <2> QED BY <1>1, <1>3, <2>1, <2>2 DEF r
<1> QED BY <1>2, <1>3

LEMMA ForwardIs ==
  ASSUME NEW m \in Nat \ {0}, NEW x \in 0..(m - 1), NEW s \in 0..(m - 1)
  PROVE  (s + m - x) % m = IF s < x THEN s + m - x ELSE s - x
<1> DEFINE y == s + m - x
<1>1. y \in 0..(2 * m - 1)
  OBVIOUS
<1> HIDE DEF y
<1>2. y % m = IF y < m THEN y ELSE y - m
  BY <1>1, ModOnce
<1>3. (y < m <=> s < x) /\ y - m = s - x
  BY DEF y
<1> QED BY <1>2, <1>3 DEF y

\* The next number is one further on.
LEMMA ForwardSucc ==
  ASSUME QuiltWireAssumption,
         NEW x \in 0..(SeqSpace - 1), NEW s \in 0..(SeqSpace - 1), NEW d \in Nat,
         Forward(x, s) = d % SeqSpace
  PROVE  /\ (s + 1) % SeqSpace \in 0..(SeqSpace - 1)
         /\ Forward(x, (s + 1) % SeqSpace) = (d + 1) % SeqSpace
<1> DEFINE M == SeqSpace
           t == (s + 1) % M
           a == Forward(x, s)
           b == Forward(x, t)
           e == d % M
<1>1. M \in Nat \ {0} /\ x \in 0..(M - 1) /\ s \in 0..(M - 1)
  BY DEF QuiltWireAssumption
<1>2. a = (s + M - x) % M /\ b = (t + M - x) % M
  BY DEF Forward
<1> HIDE DEF M, a, b
<1>3. s \in Nat /\ s % M = s
  <2>1. s \in 0..(2 * M - 1) /\ s < M /\ s \in Nat
    BY <1>1
  <2>2. s % M = IF s < M THEN s ELSE s - M
    BY <1>1, <2>1, ModOnce
  <2> QED BY <2>1, <2>2
<1>4. t \in 0..(M - 1) /\ t = IF s = M - 1 THEN 0 ELSE s + 1
  <2>1. t = IF s % M = M - 1 THEN 0 ELSE (s % M) + 1
    BY <1>1, <1>3, ModSucc
  <2> HIDE DEF t
  <2>2. t = IF s = M - 1 THEN 0 ELSE s + 1
    BY <1>3, <2>1
  <2> QED BY <1>1, <2>2
<1> HIDE DEF t
<1>5. a = IF s < x THEN s + M - x ELSE s - x
  BY <1>1, <1>2, ForwardIs
<1>6. b = IF t < x THEN t + M - x ELSE t - x
  BY <1>1, <1>2, <1>4, ForwardIs
<1>7. (d + 1) % M = IF e = M - 1 THEN 0 ELSE e + 1
  BY <1>1, ModSucc
<1>8. a = e
  BY DEF M, a
<1> HIDE DEF e
<1>9. b = IF a = M - 1 THEN 0 ELSE a + 1
  BY <1>1, <1>4, <1>5, <1>6
<1> QED BY <1>4, <1>7, <1>8, <1>9 DEF t, b, M

-----------------------------------------------------------------------------
(***************************************************************************)
(* The air.                                                                *)
(***************************************************************************)

Elements(s) == {s[i] : i \in 1..Len(s)}

\* b has only elements of a, in the order of a.
InOrderOf(b, a) ==
  \E g \in [1..Len(b) -> 1..Len(a)] :
    /\ \A k \in 1..Len(b) : b[k] = a[g[k]]
    /\ \A k, l \in 1..Len(b) : k < l => g[k] <= g[l]

LEMMA InsertAtFacts ==
  ASSUME NEW T, NEW s \in Seq(T), NEW at \in 1..Len(s), NEW e \in T
  PROVE  /\ InsertAt(s, at, e) \in Seq(T)
         /\ Len(InsertAt(s, at, e)) = Len(s) + 1
         /\ \A i \in 1..(at - 1) : InsertAt(s, at, e)[i] = s[i]
         /\ InsertAt(s, at, e)[at] = e
         /\ \A i \in (at + 1)..(Len(s) + 1) : InsertAt(s, at, e)[i] = s[i - 1]
<1> DEFINE a == SubSeq(s, 1, at - 1)
           h == a \o << e >>
           b == SubSeq(s, at, Len(s))
<1>1. at - 1 \in 0..Len(s) /\ at \in Nat /\ Len(s) \in Nat /\ at <= Len(s)
  OBVIOUS
<1>2. /\ h \in Seq(T) /\ Len(h) = at /\ h[at] = e
      /\ \A i \in 1..(at - 1) : h[i] = s[i]
  BY <1>1, PrefixAndOne
<1>3. /\ b \in Seq(T) /\ Len(b) = Len(s) - at + 1
      /\ \A i \in 1..(Len(s) - at + 1) : b[i] = s[at + i - 1]
  OBVIOUS
<1>4. InsertAt(s, at, e) = h \o b
  BY DEF InsertAt
<1> HIDE DEF h, b
<1>5. /\ h \o b \in Seq(T) /\ Len(h \o b) = Len(h) + Len(b)
      /\ \A i \in 1..(Len(h) + Len(b)) :
           (h \o b)[i] = IF i <= Len(h) THEN h[i] ELSE b[i - Len(h)]
  BY <1>2, <1>3, ConcatProperties
<1>6. ASSUME NEW i \in (at + 1)..(Len(s) + 1) PROVE (h \o b)[i] = s[i - 1]
  <2>1. i - at \in 1..(Len(s) - at + 1) /\ at + (i - at) - 1 = i - 1
    BY <1>1
  <2>2. (h \o b)[i] = b[i - at]
    BY <1>1, <1>2, <1>3, <1>5
  <2>3. b[i - at] = s[at + (i - at) - 1]
    BY <1>3, <2>1
  <2> QED BY <2>1, <2>2, <2>3
<1>7. Len(h \o b) = Len(s) + 1 /\ (h \o b)[at] = e
      /\ \A i \in 1..(at - 1) : (h \o b)[i] = s[i]
  BY <1>1, <1>2, <1>3, <1>5
<1> QED BY <1>4, <1>5, <1>6, <1>7

LEMMA LoseAir ==
  ASSUME air \in Seq(ToSet(air)), NEW i \in 1..Len(air), Lose(i)
  PROVE  /\ air' \in Seq(ToSet(air'))
         /\ InOrderOf(air', air)
         /\ Elements(air) \subseteq Elements(air') \cup {air[i]}
<1> DEFINE n == Len(air)
           g == [k \in 1..(n - 1) |-> IF k < i THEN k ELSE k + 1]
<1>1. /\ air' \in Seq(ToSet(air)) /\ Len(air') = n - 1
      /\ \A k \in 1..(i - 1) : air'[k] = air[k]
      /\ \A k \in i..(n - 1) : air'[k] = air[k + 1]
  BY RemoveAtFacts DEF Lose
<1>2. air' \in Seq(ToSet(air'))
  BY <1>1, SeqOfOwn
<1>3. n \in Nat /\ i \in 1..n
  OBVIOUS
<1> HIDE DEF n
<1>4. /\ g \in [1..(n - 1) -> 1..n]
      /\ \A k \in 1..(n - 1) : air'[k] = air[g[k]]
      /\ \A k, l \in 1..(n - 1) : k < l => g[k] <= g[l]
  BY <1>1, <1>3
<1>5. ASSUME NEW k \in 1..n, k # i PROVE air[k] \in Elements(air')
  <2>1. CASE k < i
    <3>1. k \in 1..(i - 1) /\ k \in 1..(n - 1)
      BY <1>3, <2>1
    <3> QED BY <1>1, <3>1 DEF Elements
  <2>2. CASE k > i
    <3>1. k - 1 \in i..(n - 1) /\ k - 1 \in 1..(n - 1) /\ (k - 1) + 1 = k
      BY <1>3, <2>2
    <3>2. air'[k - 1] = air[(k - 1) + 1]
      BY <1>1, <3>1
    <3> QED BY <1>1, <3>1, <3>2 DEF Elements
  <2> QED BY <1>3, <1>5, <2>1, <2>2
<1> HIDE DEF g
<1>6. InOrderOf(air', air)
  BY <1>1, <1>4 DEF InOrderOf, n
<1> QED BY <1>2, <1>5, <1>6 DEF Elements, n

LEMMA RepeatAir ==
  ASSUME air \in Seq(ToSet(air)), NEW i \in 1..Len(air), Repeat(i)
  PROVE  /\ air' \in Seq(ToSet(air'))
         /\ InOrderOf(air', air)
         /\ Elements(air) \subseteq Elements(air')
<1> DEFINE n == Len(air)
           g == [k \in 1..(n + 1) |-> IF k <= i THEN k ELSE k - 1]
<1>1. /\ air' \in Seq(ToSet(air)) /\ Len(air') = n + 1
      /\ \A k \in 1..(i - 1) : air'[k] = air[k]
      /\ air'[i] = air[i]
      /\ \A k \in (i + 1)..(n + 1) : air'[k] = air[k - 1]
  <2>1. air[i] \in ToSet(air)
    OBVIOUS
  <2>2. air' = InsertAt(air, i, air[i])
    BY DEF Repeat
  <2> QED BY <2>1, <2>2, InsertAtFacts
<1>2. air' \in Seq(ToSet(air'))
  BY <1>1, SeqOfOwn
<1>3. n \in Nat /\ i \in 1..n
  OBVIOUS
<1> HIDE DEF n
<1>4. /\ g \in [1..(n + 1) -> 1..n]
      /\ \A k \in 1..(n + 1) : air'[k] = air[g[k]]
      /\ \A k, l \in 1..(n + 1) : k < l => g[k] <= g[l]
  BY <1>1, <1>3
<1>5. ASSUME NEW k \in 1..n PROVE air[k] \in Elements(air')
  <2>1. CASE k <= i
    <3>1. k \in 1..(n + 1) /\ air'[k] = air[k]
      BY <1>1, <1>3, <2>1
    <3> QED BY <1>1, <3>1 DEF Elements
  <2>2. CASE k > i
    <3>1. k + 1 \in (i + 1)..(n + 1) /\ k + 1 \in 1..(n + 1) /\ (k + 1) - 1 = k
      BY <1>3, <2>2
    <3>2. air'[k + 1] = air[(k + 1) - 1]
      BY <1>1, <3>1
    <3> QED BY <1>1, <3>1, <3>2 DEF Elements
  <2> QED BY <1>3, <2>1, <2>2
<1> HIDE DEF g
<1>6. InOrderOf(air', air)
  BY <1>1, <1>4 DEF InOrderOf, n
<1> QED BY <1>2, <1>5, <1>6 DEF Elements, n

LEMMA SwapAir ==
  ASSUME air \in Seq(ToSet(air)), NEW i \in 1..Len(air), Swap(i)
  PROVE  air' \in Seq(ToSet(air')) /\ Elements(air') = Elements(air)
<1> DEFINE n == Len(air)
           b == [air EXCEPT ![i] = air[i + 1], ![i + 1] = air[i]]
<1>1. n \in Nat /\ i \in 1..n /\ i + 1 \in 1..n /\ i + 1 # i
  BY DEF Swap
<1>2. air' = b
  BY DEF Swap
<1>3. /\ b \in Seq(ToSet(air)) /\ Len(b) = n
      /\ b[i] = air[i + 1] /\ b[i + 1] = air[i]
      /\ \A k \in 1..n : k # i /\ k # i + 1 => b[k] = air[k]
  BY <1>1
<1> HIDE DEF b, n
<1>4. Elements(b) \subseteq Elements(air)
  BY <1>1, <1>3 DEF Elements, n
<1>5. Elements(air) \subseteq Elements(b)
  BY <1>1, <1>3 DEF Elements, n
<1> QED BY <1>2, <1>3, <1>4, <1>5, SeqOfOwn

LEMMA HeardAir ==
  ASSUME air \in Seq(ToSet(air)), OnFrame
  PROVE  /\ air' \in Seq(ToSet(air'))
         /\ InOrderOf(air', air)
         /\ Elements(air) \subseteq Elements(air') \cup {Head(air)}
         /\ 1 \in 1..Len(air) /\ Head(air) = air[1]
<1> DEFINE n == Len(air)
           g == [k \in 1..(n - 1) |-> k + 1]
<1>1. air # << >> /\ air' = Tail(air)
  BY DEF OnFrame
<1>2. /\ air' \in Seq(ToSet(air)) /\ Len(air') = n - 1 /\ n \in Nat /\ n >= 1
      /\ \A k \in 1..(n - 1) : air'[k] = air[k + 1]
      /\ Head(air) = air[1]
  BY <1>1
<1> HIDE DEF n
<1>3. /\ g \in [1..(n - 1) -> 1..n]
      /\ \A k \in 1..(n - 1) : air'[k] = air[g[k]]
      /\ \A k, l \in 1..(n - 1) : k < l => g[k] <= g[l]
  BY <1>2
<1> HIDE DEF g
<1>4. InOrderOf(air', air)
  BY <1>2, <1>3 DEF InOrderOf, n
<1>5. ASSUME NEW k \in 1..n, k # 1 PROVE air[k] \in Elements(air')
  <2>1. k - 1 \in 1..(n - 1) /\ (k - 1) + 1 = k
    BY <1>2, <1>5
  <2>2. air'[k - 1] = air[(k - 1) + 1]
    BY <1>2, <2>1
  <2> QED BY <1>2, <2>1, <2>2 DEF Elements
<1> QED BY <1>2, <1>4, <1>5, SeqOfOwn DEF Elements, n

LEMMA InOrderElements ==
  ASSUME NEW a, NEW b, InOrderOf(b, a)
  PROVE  Elements(b) \subseteq Elements(a)
BY DEF InOrderOf, Elements

-----------------------------------------------------------------------------
\* The frames the peer may yet hear or has heard.
Frames == Elements(air) \cup {lines[i].payload : i \in 1..Len(lines)}

SentBy(f) ==
  /\ f.cell \in Cell /\ f.seq \in 0..(SeqSpace - 1)
  /\ f.boot \in 0..boot[f.cell] /\ f.nth \in 1..sent[f.cell]

\* A frame and the cell it is of are as far apart as their numbers.
NumberOf(f) ==
  f.boot = boot[f.cell] =>
    Forward(f.seq, seq[f.cell]) = (sent[f.cell] + 1 - f.nth) % SeqSpace

\* So are two frames of one life.
Numbers(f, g) ==
  f.cell = g.cell /\ f.boot = g.boot /\ f.nth <= g.nth =>
    Forward(f.seq, g.seq) = (g.nth - f.nth) % SeqSpace

SenderOK ==
  /\ seq \in [Cell -> 0..(SeqSpace - 1)]
  /\ boot \in [Cell -> Nat] /\ sent \in [Cell -> Nat]

NumberInv ==
  /\ SenderOK
  /\ air \in Seq(ToSet(air))
  /\ \A f \in Frames : SentBy(f) /\ NumberOf(f)
  /\ \A f, g \in Frames : Numbers(f, g)

LEMMA FewerFrames ==
  ASSUME NumberInv, Frames' \subseteq Frames, UNCHANGED sender,
         air' \in Seq(ToSet(air'))
  PROVE  NumberInv'
<1>1. seq' = seq /\ boot' = boot /\ sent' = sent
  BY DEF sender
<1>2. SenderOK'
  BY <1>1 DEF NumberInv, SenderOK
<1>3. ASSUME NEW f \in Frames' PROVE SentBy(f)' /\ NumberOf(f)'
  <2>1. SentBy(f) /\ NumberOf(f)
    BY DEF NumberInv
  <2> QED BY <1>1, <2>1 DEF SentBy, NumberOf
<1>4. ASSUME NEW f \in Frames', NEW g \in Frames' PROVE Numbers(f, g)'
  <2>1. Numbers(f, g)
    BY DEF NumberInv
  <2> QED BY <2>1 DEF Numbers
<1> QED BY <1>2, <1>3, <1>4 DEF NumberInv

\* A cell numbers a frame, and may get it on the air.
LEMMA NumberedKeeps ==
  ASSUME QuiltWireAssumption, NumberInv, NEW c \in Cell, Numbered(c),
         air' \in Seq(ToSet(air')), Elements(air') \subseteq Elements(air) \cup {FrameOf(c)}
  PROVE  NumberInv'
<1> DEFINE s == seq[c]
           n == sent[c]
<1>0. PICK new : new = FrameOf(c)
  OBVIOUS
<1>1. /\ seq' = [seq EXCEPT ![c] = (@ + 1) % SeqSpace]
      /\ sent' = [sent EXCEPT ![c] = @ + 1]
      /\ boot' = boot /\ lines' = lines
  BY DEF Numbered, peer
<1>2. Frames' \subseteq Frames \cup {new}
  BY <1>0, <1>1 DEF Frames
<1>3. new.cell = c /\ new.seq = s /\ new.boot = boot[c] /\ new.nth = n + 1
  BY <1>0 DEF FrameOf
<1>4. /\ s \in 0..(SeqSpace - 1) /\ n \in Nat /\ boot[c] \in Nat
      /\ SeqSpace \in Nat \ {0}
  BY DEF NumberInv, SenderOK, QuiltWireAssumption
<1>5. Forward(s, s) = 0
  <2> DEFINE M == SeqSpace
  <2>1. Forward(s, s) = (s + M - s) % M
    BY DEF Forward
  <2> HIDE DEF s, M
  <2>2. M \in Nat \ {0} /\ s \in 0..(M - 1)
    BY <1>4 DEF M
  <2>3. (s + M - s) % M = s - s
    BY <2>2, ForwardIs
  <2> QED BY <2>1, <2>2, <2>3
<1>6. 0 % SeqSpace = 0
  <2>1. 0 \in 0..(2 * SeqSpace - 1) /\ 0 < SeqSpace
    BY <1>4
  <2> QED BY <1>4, <2>1, ModOnce
<1>7. /\ (s + 1) % SeqSpace \in 0..(SeqSpace - 1)
      /\ Forward(s, (s + 1) % SeqSpace) = 1 % SeqSpace
  <2>1. Forward(s, s) = 0 % SeqSpace
    BY <1>5, <1>6
  <2>2. Forward(s, (s + 1) % SeqSpace) = (0 + 1) % SeqSpace
    BY <1>4, <2>1, ForwardSucc
  <2>3. (s + 1) % SeqSpace \in 0..(SeqSpace - 1)
    BY <1>4, <2>1, ForwardSucc
  <2> QED BY <2>2, <2>3
<1>8. SenderOK'
  BY <1>1, <1>7 DEF NumberInv, SenderOK
<1>9. /\ seq'[c] = (s + 1) % SeqSpace /\ sent'[c] = n + 1
      /\ \A d \in Cell : d # c => seq'[d] = seq[d] /\ sent'[d] = sent[d]
  BY <1>1 DEF NumberInv, SenderOK
<1>10. ASSUME NEW f \in Frames PROVE SentBy(f)' /\ NumberOf(f)'
  <2>1. SentBy(f) /\ NumberOf(f)
    BY DEF NumberInv
  <2>2. CASE f.cell # c
    BY <1>1, <1>9, <2>1, <2>2 DEF SentBy, NumberOf
  <2>3. CASE f.cell = c
    <3>1. SentBy(f)'
      BY <1>1, <1>4, <1>9, <2>1, <2>3 DEF SentBy
    <3>2. ASSUME f.boot = boot[c]
          PROVE  Forward(f.seq, (s + 1) % SeqSpace) = (n + 1 + 1 - f.nth) % SeqSpace
      <4> DEFINE d == n + 1 - f.nth
      <4>1. d \in Nat /\ d + 1 = n + 1 + 1 - f.nth
        BY <1>4, <2>1, <2>3 DEF SentBy
      <4>2. Forward(f.seq, s) = d % SeqSpace /\ f.seq \in 0..(SeqSpace - 1)
        BY <2>1, <2>3, <3>2 DEF NumberOf, SentBy
      <4> HIDE DEF d
      <4> QED BY <1>4, <4>1, <4>2, ForwardSucc
    <3> QED BY <1>1, <1>9, <2>3, <3>1, <3>2 DEF NumberOf
  <2> QED BY <2>2, <2>3
<1>11. SentBy(new)' /\ NumberOf(new)'
  <2>1. SentBy(new)'
    BY <1>1, <1>3, <1>4, <1>9 DEF SentBy
  <2>2. n + 1 + 1 - (n + 1) = 1
    BY <1>4
  <2> QED BY <1>1, <1>3, <1>7, <1>9, <2>1, <2>2 DEF NumberOf
<1>12. ASSUME NEW f \in Frames \cup {new}, NEW g \in Frames \cup {new} PROVE Numbers(f, g)
  <2>1. CASE f \in Frames /\ g \in Frames
    BY <2>1 DEF NumberInv
  <2>2. CASE f = new /\ g = new
    <3>1. new.nth - new.nth = 0
      BY <1>3, <1>4
    <3>2. Forward(new.seq, new.seq) = 0
      BY <1>3, <1>5
    <3>3. Forward(new.seq, new.seq) = (new.nth - new.nth) % SeqSpace
      BY <1>6, <3>1, <3>2
    <3> QED BY <2>2, <3>3 DEF Numbers
  <2>3. CASE f \in Frames /\ g = new
    <3>1. NumberOf(f)
      BY <2>3 DEF NumberInv
    <3>2. f.cell = c /\ f.boot = boot[c] => Forward(f.seq, s) = (n + 1 - f.nth) % SeqSpace
      BY <3>1 DEF NumberOf
    <3>3. g.nth = n + 1 /\ g.seq = s /\ g.cell = c /\ g.boot = boot[c]
      BY <2>3, <1>3
    <3> HIDE DEF s, n
    <3>4. f.cell = g.cell /\ f.boot = g.boot =>
            Forward(f.seq, g.seq) = (g.nth - f.nth) % SeqSpace
      <4>1. f.nth \in Nat /\ n \in Nat /\ g.nth \in Nat
        BY <1>4, <2>3, <3>3 DEF NumberInv, SentBy, SenderOK, n
      <4>2. g.nth - f.nth = n + 1 - f.nth
        BY <3>3, <4>1
      <4> QED BY <3>2, <3>3, <4>2
    <3> QED BY <3>4, Zenon DEF Numbers
  <2>4. CASE f = new /\ g \in Frames
    <3>1. SentBy(g)
      BY <2>4 DEF NumberInv
    <3> QED BY <2>4, <1>3, <1>4, <3>1 DEF Numbers, SentBy
  <2> QED BY <2>1, <2>2, <2>3, <2>4
<1>13. ASSUME NEW f \in Frames' PROVE SentBy(f)' /\ NumberOf(f)'
  BY <1>2, <1>10, <1>11
<1>14. ASSUME NEW f \in Frames', NEW g \in Frames' PROVE Numbers(f, g)'
  <2>1. Numbers(f, g)
    BY <1>2, <1>12
  <2> QED BY <2>1 DEF Numbers
<1> QED BY <1>8, <1>13, <1>14 DEF NumberInv

\* After a reboot no frame is of the cell's new life.
LEMMA RebootKeeps ==
  ASSUME QuiltWireAssumption, NumberInv, NEW c \in Cell, Reboot(c)
  PROVE  NumberInv'
<1>1. /\ seq' = [seq EXCEPT ![c] = 0] /\ boot' = [boot EXCEPT ![c] = @ + 1]
      /\ sent' = sent /\ air' = air /\ lines' = lines
  BY DEF Reboot, radio, peer
<1>2. Frames' = Frames
  BY <1>1 DEF Frames
<1>3. SenderOK'
  BY <1>1 DEF NumberInv, SenderOK, QuiltWireAssumption
<1>4. ASSUME NEW f \in Frames' PROVE SentBy(f)' /\ NumberOf(f)'
  <2>1. SentBy(f) /\ NumberOf(f)
    BY <1>2 DEF NumberInv
  <2>2. f.cell \in Cell /\ boot[f.cell] \in Nat
    BY <2>1 DEF SentBy, NumberInv, SenderOK
  <2>3. CASE f.cell = c
    <3>1. boot'[c] = boot[c] + 1
      BY <1>1 DEF NumberInv, SenderOK
    <3>2. f.boot \in 0..boot[c]
      BY <2>1, <2>3 DEF SentBy
    <3>3. f.boot # boot'[c] /\ f.boot \in 0..boot'[c]
      BY <2>2, <2>3, <3>1, <3>2
    <3> QED BY <1>1, <2>1, <2>3, <3>3 DEF SentBy, NumberOf
  <2>4. CASE f.cell # c
    <3>1. boot'[f.cell] = boot[f.cell] /\ seq'[f.cell] = seq[f.cell]
      BY <1>1, <2>2, <2>4 DEF NumberInv, SenderOK
    <3> QED BY <1>1, <2>1, <3>1 DEF SentBy, NumberOf
  <2> QED BY <2>3, <2>4
<1>5. ASSUME NEW f \in Frames', NEW g \in Frames' PROVE Numbers(f, g)'
  <2>1. Numbers(f, g)
    BY <1>2 DEF NumberInv
  <2> QED BY <2>1 DEF Numbers
<1> QED BY <1>1, <1>3, <1>4, <1>5 DEF NumberInv

\* What the peer writes of a frame bears it.
LEMMA HeardLine ==
  ASSUME OnFrame, lines \in Seq(ToSet(lines))
  PROVE  LET f == Head(air)
             n == Len(lines)
         IN  /\ Len(lines') = n + 1 /\ n \in Nat
             /\ lines'[n + 1].payload = f
             /\ lines'[n + 1].walk = << f.cell, Torn(Heard(f.cell), f.seq).life >>
             /\ \A i \in 1..n : lines'[i] = lines[i]
<1> DEFINE f == Head(air)
           line == ArrivalLine(f.cell, Heard(f.cell), f)
<1>1. lines' = Append(lines, line)
  BY DEF OnFrame
<1>2. line.payload = f /\ line.walk = << f.cell, Torn(Heard(f.cell), f.seq).life >>
  BY DEF ArrivalLine, StepLine
<1> HIDE DEF line
<1> QED BY <1>1, <1>2, AppendFacts

LEMMA NumberStep ==
  ASSUME QuiltWireAssumption, NumberInv, lines \in Seq(ToSet(lines)), [LinkNext]_linkVars
  PROVE  NumberInv'
<1>0. air \in Seq(ToSet(air))
  BY DEF NumberInv
<1>1. ASSUME NEW c \in Cell, Send(c) PROVE NumberInv'
  <2> DEFINE n == Len(air)
  <2>1. Numbered(c) /\ air' = Append(air, FrameOf(c))
    BY <1>1 DEF Send
  <2>2. /\ air' \in Seq(ToSet(air')) /\ Len(air') = n + 1 /\ n \in Nat
        /\ air'[n + 1] = FrameOf(c)
        /\ \A i \in 1..n : air'[i] = air[i]
    BY <1>0, <2>1, AppendFacts
  <2>3. Elements(air') \subseteq Elements(air) \cup {FrameOf(c)}
    BY <2>2 DEF Elements
  <2> QED BY <2>1, <2>2, <2>3, NumberedKeeps
<1>2. ASSUME NEW c \in Cell, SendFails(c) PROVE NumberInv'
  BY <1>0, <1>2, NumberedKeeps DEF SendFails
<1>3. ASSUME NEW c \in Cell, Reboot(c) PROVE NumberInv'
  BY <1>3, RebootKeeps
<1>4. ASSUME NEW i \in 1..Len(air), Lose(i) PROVE NumberInv'
  <2>1. UNCHANGED sender /\ lines' = lines
    BY <1>4 DEF Lose, peer, sender
  <2> QED BY <1>0, <1>4, <2>1, LoseAir, InOrderElements, FewerFrames DEF Frames
<1>5. ASSUME NEW i \in 1..Len(air), Repeat(i) PROVE NumberInv'
  <2>1. UNCHANGED sender /\ lines' = lines
    BY <1>5 DEF Repeat, peer, sender
  <2> QED BY <1>0, <1>5, <2>1, RepeatAir, InOrderElements, FewerFrames DEF Frames
<1>6. ASSUME NEW i \in 1..Len(air), Swap(i) PROVE NumberInv'
  <2>1. UNCHANGED sender /\ lines' = lines
    BY <1>6 DEF Swap, peer, sender
  <2> QED BY <1>0, <1>6, <2>1, SwapAir, FewerFrames DEF Frames
<1>7. CASE OnFrame
  <2>1. UNCHANGED sender
    BY <1>7 DEF OnFrame
  <2>2. /\ air' \in Seq(ToSet(air')) /\ Elements(air') \subseteq Elements(air)
        /\ Head(air) \in Elements(air)
    BY <1>0, <1>7, HeardAir, InOrderElements DEF Elements
  <2>3. {lines'[i].payload : i \in 1..Len(lines')}
          \subseteq {lines[i].payload : i \in 1..Len(lines)} \cup {Head(air)}
    BY <1>7, HeardLine
  <2> QED BY <2>1, <2>2, <2>3, FewerFrames DEF Frames
<1>8. CASE UNCHANGED linkVars
  BY <1>0, <1>8, FewerFrames DEF linkVars, sender, Frames, Elements
<1> QED BY <1>1, <1>2, <1>3, <1>4, <1>5, <1>6, <1>7, <1>8 DEF LinkNext

LEMMA NumberInit ==
  ASSUME QuiltWireAssumption, WireLinkAssumption, LinkInit
  PROVE  NumberInv
<1>1. Frames = {}
  BY DEF LinkInit, Frames, Elements
<1>2. SenderOK
  BY DEF LinkInit, SenderOK, WireLinkAssumption
<1>3. air \in Seq(ToSet(air))
  BY DEF LinkInit
<1> QED BY <1>1, <1>2, <1>3 DEF NumberInv

-----------------------------------------------------------------------------
(***************************************************************************)
(* Tears.                                                                  *)
(***************************************************************************)

LastOf(c, i) ==
  /\ lines[i].payload.cell = c
  /\ \A k \in 1..Len(lines) : lines[k].payload.cell = c => k <= i

\* The walk of a cell is where its last line has left it.
AtLast(c, i) ==
  LastOf(c, i) /\ lines[i].walk = << c, walks[c].life >>
               /\ walks[c].last \in {NoSeq, lines[i].payload.seq}

TearInv ==
  /\ \A i \in 1..Len(lines) : lines[i].payload.cell \in DOMAIN walks
  /\ \A c \in DOMAIN walks : \E i \in 1..Len(lines) : AtLast(c, i)
  /\ TearsAreExplained

\* A frame in step with the one before is no restart.
LEMMA InStepIsNoRestart ==
  ASSUME QuiltWireAssumption, NEW f, NEW g, InStep(f, g),
         f.nth \in Nat, g.nth \in Nat, Numbers(f, g)
  PROVE  /\ Forward(f.seq, g.seq) = g.nth - f.nth
         /\ Verdict(f.seq, g.seq) # "restart"
<1> DEFINE d == g.nth - f.nth
           h == SeqSpace \div 2
           x == Forward(f.seq, g.seq)
<1>1. h \in Nat /\ SeqSpace \in Nat \ {0} /\ h <= SeqSpace
  BY DEF QuiltWireAssumption
<1>2. d \in 0..(h - 1) /\ f.nth <= g.nth
  BY DEF InStep
<1>3. x = d % SeqSpace
  BY <1>2 DEF Numbers, InStep
<1> HIDE DEF d, x
<1>4. x = d
  <2>1. d \in 0..(2 * SeqSpace - 1) /\ d < SeqSpace
    BY <1>1, <1>2
  <2>2. d % SeqSpace = IF d < SeqSpace THEN d ELSE d - SeqSpace
    BY <1>1, <2>1, ModOnce
  <2> QED BY <1>3, <2>1, <2>2
<1>5. x = 0 \/ x = 1 \/ x \in 2..(h - 1)
  BY <1>1, <1>2, <1>4
<1>6. Verdict(f.seq, g.seq) =
        IF f.seq = NoSeq THEN "start"
        ELSE CASE x = 0 -> "duplicate" [] x = 1 -> "contiguous"
               [] x \in 2..(h - 1) -> "gap" [] OTHER -> "restart"
  BY DEF Verdict, x
<1> HIDE DEF h
<1>7. Verdict(f.seq, g.seq) # "restart"
  <2>1. CASE x = 0
    BY <1>6, <2>1
  <2>2. CASE x = 1
    BY <1>6, <2>2
  <2>3. CASE x \in 2..(h - 1)
    <3>1. x # 0 /\ x # 1
      BY <2>3
    <3> QED BY <1>6, <2>3, <3>1
  <2> QED BY <1>5, <2>1, <2>2, <2>3
<1> QED BY <1>4, <1>7 DEF d, x

LEMMA TornLife ==
  ASSUME WalkInv, NEW c, NEW s
  PROVE  /\ Heard(c) = [life |-> Heard(c).life, last |-> Heard(c).last,
                        prev |-> Heard(c).prev, gaps |-> Heard(c).gaps]
         /\ c \in DOMAIN walks => Heard(c) = walks[c]
         /\ c \notin DOMAIN walks => Heard(c) = NewWalk
BY DEF WalkInv, HeadsOK, Heard, NewWalk

\* The peer's handler, seen from a cell.
LEMMA HeardWalk ==
  ASSUME WalkInv, OnFrame, NEW f, f = Head(air)
  PROVE  /\ DOMAIN walks' = DOMAIN walks \cup {f.cell}
         /\ \A d \in DOMAIN walks : d # f.cell => walks'[d] = walks[d]
         /\ walks'[f.cell].life = Torn(Heard(f.cell), f.seq).life
         /\ walks'[f.cell].last = Observed(Heard(f.cell).last, f.seq)
         /\ walks'[f.cell].gaps = Heard(f.cell).gaps + Missing(Heard(f.cell).last, f.seq)
         /\ Torn(Heard(f.cell), f.seq).life =
              IF Verdict(Heard(f.cell).last, f.seq) = "restart"
              THEN Heard(f.cell).life + 1 ELSE Heard(f.cell).life
<1> DEFINE c == f.cell
           w == Heard(c)
           after == Walked(c, w, f)
           life == Torn(w, f.seq).life
           prev == ArrivalLine(c, w, f).digest
<1>1. walks' = [d \in DOMAIN walks \cup {c} |-> IF d = c THEN after ELSE walks[d]]
  BY DEF OnFrame
<1>2. w = [life |-> w.life, last |-> w.last, prev |-> w.prev, gaps |-> w.gaps]
  BY TornLife
<1> HIDE DEF w
<1>3. /\ after = [life |-> life, last |-> Observed(w.last, f.seq), prev |-> prev,
                  gaps |-> w.gaps + Missing(w.last, f.seq)]
      /\ life = IF Verdict(w.last, f.seq) = "restart" THEN w.life + 1 ELSE w.life
  BY <1>2, WalkedFields
<1> HIDE DEF after, life, prev, c
<1>4. /\ after.life = life /\ after.last = Observed(w.last, f.seq)
      /\ after.gaps = w.gaps + Missing(w.last, f.seq)
  BY <1>3
<1>5. /\ DOMAIN walks' = DOMAIN walks \cup {c} /\ walks'[c] = after
      /\ \A d \in DOMAIN walks : d # c => walks'[d] = walks[d]
  BY <1>1
<1> QED BY <1>3, <1>4, <1>5 DEF c, w, life

LEMMA OnFrameKeepsTears ==
  ASSUME QuiltWireAssumption, WalkInv, NumberInv, TearInv, OnFrame
  PROVE  TearInv'
<1>0. PICK f : f = Head(air)
  OBVIOUS
<1>10. PICK n : n = Len(lines)
  OBVIOUS
<1>1. PICK c : c = f.cell
  OBVIOUS
<1>2. PICK w : w = Heard(c)
  OBVIOUS
<1>3. PICK life : life = Torn(w, f.seq).life
  OBVIOUS
<1>4. /\ Len(lines') = n + 1 /\ n \in Nat
      /\ lines'[n + 1].payload = f /\ lines'[n + 1].walk = << c, life >>
      /\ \A i \in 1..n : lines'[i] = lines[i]
  BY <1>0, <1>10, <1>1, <1>2, <1>3, HeardLine DEF WalkInv
<1>5. /\ DOMAIN walks' = DOMAIN walks \cup {c}
      /\ \A d \in DOMAIN walks : d # c => walks'[d] = walks[d]
      /\ walks'[c].life = life /\ walks'[c].last = Observed(w.last, f.seq)
      /\ life = IF Verdict(w.last, f.seq) = "restart" THEN w.life + 1 ELSE w.life
  BY <1>0, <1>1, <1>2, <1>3, HeardWalk
<1>6. c \in DOMAIN walks => w = walks[c]
  BY <1>2, TornLife
<1>7. \A i \in 1..(n + 1) : lines'[i].payload.cell \in DOMAIN walks'
  <2> SUFFICES ASSUME NEW i \in 1..(n + 1) PROVE lines'[i].payload.cell \in DOMAIN walks'
    OBVIOUS
  <2>1. CASE i = n + 1
    BY <2>1, <1>1, <1>4, <1>5
  <2>2. CASE i \in 1..n
    BY <2>2, <1>10, <1>4, <1>5 DEF TearInv
  <2> QED BY <2>1, <2>2, <1>4
<1>8. ASSUME NEW d \in DOMAIN walks' PROVE \E i \in 1..(n + 1) : AtLast(d, i)'
  <2>1. CASE d = c
    <3>1. LastOf(c, n + 1)'
      BY <1>1, <1>4 DEF LastOf
    <3>2. Observed(w.last, f.seq) \in {NoSeq, f.seq}
      BY DEF Observed
    <3>3. n + 1 \in 1..(n + 1)
      BY <1>4
    <3> QED BY <2>1, <1>4, <1>5, <3>1, <3>2, <3>3 DEF AtLast
  <2>2. CASE d # c
    <3>1. d \in DOMAIN walks /\ walks'[d] = walks[d]
      BY <2>2, <1>5
    <3>2. PICK i \in 1..n : AtLast(d, i)
      BY <3>1, <1>10 DEF TearInv
    <3>3. i \in 1..(n + 1) /\ lines'[i] = lines[i]
      BY <1>4
    <3>4. ASSUME NEW k \in 1..(n + 1), lines'[k].payload.cell = d PROVE k <= i
      <4>1. k # n + 1
        BY <2>2, <3>4, <1>1, <1>4
      <4>2. k \in 1..n /\ lines'[k] = lines[k]
        BY <4>1, <1>4
      <4> QED BY <3>2, <3>4, <4>2, <1>10 DEF AtLast, LastOf
    <3> QED BY <3>1, <3>2, <3>3, <3>4, <1>4 DEF AtLast, LastOf
  <2> QED BY <2>1, <2>2
<1>9. TearsAreExplained'
  <2> SUFFICES ASSUME NEW j \in 1..(n + 1), NEW i \in 1..(j - 1),
                      InStep(lines'[i].payload, lines'[j].payload),
                      \A k \in (i + 1)..(j - 1) :
                        lines'[k].payload.cell # lines'[j].payload.cell
               PROVE  lines'[i].walk = lines'[j].walk
    BY <1>4 DEF TearsAreExplained
  <2>1. CASE j \in 1..n
    <3>1. lines'[j] = lines[j] /\ lines'[i] = lines[i] /\ i \in 1..n
      BY <2>1, <1>4
    <3>2. \A k \in (i + 1)..(j - 1) : k \in 1..n /\ lines'[k] = lines[k]
      BY <2>1, <1>4
    <3> QED BY <2>1, <3>1, <3>2, <1>10 DEF TearInv, TearsAreExplained
  <2>2. CASE j = n + 1
    <3>1. lines'[j].payload = f /\ lines'[j].walk = << c, life >>
          /\ i \in 1..n /\ lines'[i] = lines[i]
      BY <2>2, <1>4
    <3> DEFINE g == lines[i].payload
    <3>2. InStep(g, f) /\ g.cell = c
      BY <3>1, <1>1 DEF InStep
    <3>3. c \in DOMAIN walks
      BY <3>1, <3>2, <1>10 DEF TearInv
    <3>4. PICK l \in 1..n : AtLast(c, l)
      BY <3>3, <1>10 DEF TearInv
    <3>5. l = i
      <4>1. i <= l
        BY <3>1, <3>2, <3>4, <1>10 DEF AtLast, LastOf
      <4>2. ~ (i + 1 <= l)
        <5> SUFFICES ASSUME i + 1 <= l PROVE FALSE
          OBVIOUS
        <5>1. l \in (i + 1)..(j - 1) /\ lines'[l] = lines[l]
          BY <2>2, <1>4, <3>1
        <5>2. lines[l].payload.cell = c
          BY <3>4 DEF AtLast, LastOf
        <5> QED BY <5>1, <5>2, <3>1, <1>1
      <4> QED BY <3>1, <4>1, <4>2
    <3>6. lines[i].walk = << c, w.life >> /\ w.last \in {NoSeq, g.seq}
      BY <1>6, <3>3, <3>4, <3>5 DEF AtLast
    <3>7. Verdict(w.last, f.seq) # "restart"
      <4>1. CASE w.last = NoSeq
        BY <4>1 DEF Verdict
      <4>2. CASE w.last = g.seq
        <5>1. g \in Frames /\ f \in Frames
          <6>1. f \in Elements(air)
            BY <1>0, HeardAir DEF NumberInv, Elements
          <6> QED BY <3>1, <6>1, <1>10 DEF Frames
        <5>2. SentBy(g) /\ SentBy(f) /\ Numbers(g, f)
          BY <5>1 DEF NumberInv
        <5> HIDE DEF g
        <5>3. g.nth \in Nat /\ f.nth \in Nat
          BY <5>2 DEF SentBy, NumberInv, SenderOK
        <5>4. Verdict(g.seq, f.seq) # "restart"
          BY <3>2, <5>2, <5>3, InStepIsNoRestart
        <5> QED BY <4>2, <5>4
      <4> QED BY <3>6, <4>1, <4>2
    <3> QED BY <3>1, <3>6, <3>7, <1>5
  <2> QED BY <2>1, <2>2, <1>4
<1> QED BY <1>4, <1>7, <1>8, <1>9 DEF TearInv

\* Every invariant of the link but that of its losses.
LinkInv == WalkInv /\ NumberInv /\ TearInv

LEMMA TearInit == LinkInit => TearInv
<1> SUFFICES ASSUME LinkInit PROVE TearInv
  OBVIOUS
<1>1. Len(lines) = 0 /\ DOMAIN walks = {}
  BY DEF LinkInit
<1> QED BY <1>1 DEF TearInv, TearsAreExplained

LEMMA LinkStep ==
  ASSUME QuiltWireAssumption, LinkInv, [LinkNext]_linkVars
  PROVE  LinkInv'
<1>1. WalkInv'
  BY WalkStep DEF LinkInv
<1>2. NumberInv'
  BY NumberStep DEF LinkInv, WalkInv
<1>3. CASE UNCHANGED peer
  <2>1. walks' = walks /\ lines' = lines
    BY <1>3 DEF peer
  <2>2. \A c, i : AtLast(c, i)' <=> AtLast(c, i)
    BY <2>1 DEF AtLast, LastOf
  <2>3. TearInv'
    BY <2>1, <2>2 DEF LinkInv, TearInv, TearsAreExplained
  <2> QED BY <1>1, <1>2, <2>3 DEF LinkInv
<1>4. LinkNext => OnFrame \/ UNCHANGED peer
  BY DEF LinkNext, Send, SendFails, Numbered, Reboot, Lose, Repeat, Swap
<1>5. UNCHANGED linkVars => UNCHANGED peer
  BY DEF linkVars, peer
<1> QED BY <1>1, <1>2, <1>3, <1>4, <1>5, OnFrameKeepsTears DEF LinkInv

\* Whatever the radio loses, repeats and reorders, however many frames are sent
\* and however often their numbers come round: a walk is torn between two frames
\* only if the road brought them in another order, the cell rebooted between
\* them, or half of all numbers and more were not heard between them (SeqTracker
\* and on_frame).
THEOREM TearsAlwaysExplained ==
  ASSUME QuiltWireAssumption, WireLinkAssumption
  PROVE  LinkSpec => []TearsAreExplained
<1>1. LinkInit => LinkInv
  BY WalkInit, NumberInit, TearInit DEF LinkInv
<1>2. LinkInv /\ [LinkNext]_linkVars => LinkInv'
  BY LinkStep
<1>3. LinkInv => TearsAreExplained
  BY DEF LinkInv, TearInv
<1> QED BY <1>1, <1>2, <1>3, PTL DEF LinkSpec

-----------------------------------------------------------------------------
(***************************************************************************)
(* Losses.                                                                 *)
(***************************************************************************)

InAir(c) == {f.nth : f \in {g \in Elements(air) : g.cell = c}}

\* The frames of c that are nowhere any more.
MissingOf(c) == (1..sent[c]) \ (Arrived(c) \cup InAir(c))

FaultsOK ==
  /\ faults = [lost |-> faults.lost, repeated |-> faults.repeated, swapped |-> faults.swapped]
  /\ faults.lost \in 0..MaxLosses /\ faults.swapped \in Nat

\* The radio has lost each of them.
MissingLost == \A c \in Cell : Cardinality(MissingOf(c)) <= faults.lost

\* The frames of a cell arrive as they were sent,
AirSorted ==
  \A i, j \in 1..Len(air) : i < j /\ air[i].cell = air[j].cell => air[i].nth <= air[j].nth

AirAhead ==
  \A i \in 1..Len(lines), j \in 1..Len(air) :
    lines[i].payload.cell = air[j].cell => lines[i].payload.nth <= air[j].nth

\* so a walk is at the latest of those that arrived,
AtLatest(c) ==
  \E i \in 1..Len(lines) :
    /\ lines[i].payload.cell = c /\ walks[c].last = lines[i].payload.seq
    /\ \A m \in Arrived(c) : m <= lines[i].payload.nth

\* and has counted those passed over.
GapsCounted(c) == walks[c].gaps = Cardinality(LostBetween(c))

OrderInv ==
  Orderly => AirSorted /\ AirAhead /\ \A c \in DOMAIN walks : AtLatest(c) /\ GapsCounted(c)

LossInv == FaultsOK /\ MissingLost /\ OrderInv

LEMMA ArrivedSent ==
  ASSUME NumberInv, NEW c
  PROVE  /\ Arrived(c) \subseteq 1..sent[c]
         /\ InAir(c) \subseteq 1..sent[c]
<1>1. ASSUME NEW m \in Arrived(c) PROVE m \in 1..sent[c]
  <2>1. PICK i \in LinesOf(c) : m = lines[i].payload.nth
    BY DEF Arrived
  <2>2. lines[i].payload \in Frames /\ lines[i].payload.cell = c
    BY DEF LinesOf, Frames
  <2> QED BY <2>1, <2>2 DEF NumberInv, SentBy
<1>2. ASSUME NEW m \in InAir(c) PROVE m \in 1..sent[c]
  <2>1. PICK f \in Elements(air) : f.cell = c /\ m = f.nth
    BY DEF InAir
  <2> QED BY <2>1 DEF NumberInv, SentBy, Frames
<1> QED BY <1>1, <1>2

LEMMA ArrivedSame ==
  ASSUME UNCHANGED lines
  PROVE  \A c : Arrived(c)' = Arrived(c) /\ LinesOf(c)' = LinesOf(c)
BY DEF Arrived, LinesOf

LEMMA InAirGrows ==
  ASSUME NEW S, NEW c, Elements(air) \subseteq Elements(air') \cup S
  PROVE  InAir(c) \subseteq InAir(c)' \cup {f.nth : f \in {g \in S : g.cell = c}}
BY DEF InAir

LEMMA MissingFinite ==
  ASSUME SenderOK, NEW c \in Cell
  PROVE  IsFiniteSet(MissingOf(c)) /\ Cardinality(MissingOf(c)) \in Nat
<1>1. 1 \in Int /\ sent[c] \in Int
  BY DEF SenderOK
<1>2. IsFiniteSet(1..sent[c])
  BY <1>1, FS_Interval
<1>3. MissingOf(c) \subseteq 1..sent[c]
  BY DEF MissingOf
<1> QED BY <1>2, <1>3, FS_Subset, FS_CardinalityType

\* One more missing and one more lost, or no more of either.
LEMMA MissingStep ==
  ASSUME SenderOK, SenderOK', MissingLost, FaultsOK, FaultsOK',
         NEW S, \A c \in Cell : MissingOf(c)' \subseteq MissingOf(c) \cup S,
         \/ S = {} /\ faults'.lost = faults.lost
         \/ (\E x : S = {x}) /\ faults'.lost = faults.lost + 1
  PROVE  MissingLost'
<1> SUFFICES ASSUME NEW c \in Cell PROVE Cardinality(MissingOf(c)') <= faults'.lost
  BY DEF MissingLost
<1> DEFINE A == MissingOf(c)
           B == MissingOf(c)'
<1>1. /\ IsFiniteSet(A) /\ Cardinality(A) \in Nat /\ Cardinality(A) <= faults.lost
      /\ B \subseteq A \cup S
  BY MissingFinite DEF MissingLost
<1>2. IsFiniteSet(B) /\ Cardinality(B) \in Nat
  <2>1. 1 \in Int /\ sent'[c] \in Int
    BY DEF SenderOK
  <2>2. IsFiniteSet(1..sent'[c])
    BY <2>1, FS_Interval
  <2>3. B \subseteq 1..sent'[c]
    BY DEF MissingOf
  <2> QED BY <2>2, <2>3, FS_Subset, FS_CardinalityType
<1>3. faults.lost \in Nat /\ faults'.lost \in Nat
  BY DEF FaultsOK
<1> HIDE DEF A, B
<1>4. CASE S = {} /\ faults'.lost = faults.lost
  <2>1. B \subseteq A
    BY <1>1, <1>4
  <2>2. Cardinality(B) <= Cardinality(A)
    BY <1>1, <2>1, FS_Subset
  <2> QED BY <1>1, <1>2, <1>3, <1>4, <2>2 DEF B
<1>5. CASE (\E x : S = {x}) /\ faults'.lost = faults.lost + 1
  <2>1. PICK x : S = {x}
    BY <1>5
  <2> DEFINE C == A \cup {x}
  <2>2. /\ IsFiniteSet(C)
        /\ Cardinality(C) = IF x \in A THEN Cardinality(A) ELSE Cardinality(A) + 1
    BY <1>1, FS_AddElement
  <2>3. B \subseteq C
    BY <1>1, <2>1
  <2> HIDE DEF C
  <2>4. Cardinality(B) <= Cardinality(C)
    BY <2>2, <2>3, FS_Subset
  <2> QED BY <1>1, <1>2, <1>3, <1>5, <2>2, <2>4 DEF B
<1> QED BY <1>4, <1>5

\* A step that leaves the peer alone, brings no frames and keeps their order.
LEMMA QuietOrder ==
  ASSUME OrderInv, Orderly' => Orderly, UNCHANGED << lines, walks, sent >>,
         air \in Seq(ToSet(air)), air' \in Seq(ToSet(air')), NumberInv,
         InOrderOf(air', air) \/ ~ Orderly'
  PROVE  OrderInv'
<1> SUFFICES ASSUME Orderly'
             PROVE  AirSorted' /\ AirAhead' /\ \A c \in DOMAIN walks : AtLatest(c)' /\ GapsCounted(c)'
  BY DEF OrderInv
<1>1. Orderly /\ InOrderOf(air', air)
  OBVIOUS
<1>2. /\ AirSorted /\ AirAhead
      /\ \A c \in DOMAIN walks : AtLatest(c) /\ GapsCounted(c)
  BY <1>1 DEF OrderInv
<1>3. PICK g \in [1..Len(air') -> 1..Len(air)] :
        /\ \A k \in 1..Len(air') : air'[k] = air[g[k]]
        /\ \A k, l \in 1..Len(air') : k < l => g[k] <= g[l]
  BY <1>1 DEF InOrderOf
<1>4. \A k \in 1..Len(air') : g[k] \in 1..Len(air)
  BY <1>3
<1>5. ASSUME NEW k \in 1..Len(air'), NEW l \in 1..Len(air'), k < l,
             air'[k].cell = air'[l].cell
      PROVE  air'[k].nth <= air'[l].nth
  <2>1. g[k] <= g[l] /\ air'[k] = air[g[k]] /\ air'[l] = air[g[l]]
    BY <1>3, <1>5
  <2>2. CASE g[k] = g[l]
    <3>1. air[g[k]] \in Frames
      BY <1>4 DEF Frames, Elements
    <3>2. air'[k].nth \in Int
      BY <2>1, <3>1 DEF NumberInv, SentBy, SenderOK
    <3> QED BY <2>1, <2>2, <3>2
  <2>3. CASE g[k] < g[l]
    BY <1>2, <1>4, <1>5, <2>1, <2>3 DEF AirSorted
  <2>4. g[k] \in Int /\ g[l] \in Int
    BY <1>4
  <2> QED BY <2>1, <2>2, <2>3, <2>4
<1>6. AirSorted'
  BY <1>5 DEF AirSorted
<1>7. AirAhead'
  BY <1>2, <1>3, <1>4 DEF AirAhead
<1>8. \A c : Arrived(c)' = Arrived(c)
  BY ArrivedSame
<1>9. ASSUME NEW c \in DOMAIN walks PROVE AtLatest(c)' /\ GapsCounted(c)'
  <2>1. AtLatest(c) /\ GapsCounted(c)
    BY <1>2
  <2>2. LostBetween(c)' = LostBetween(c)
    BY <1>8 DEF LostBetween
  <2> QED BY <1>8, <2>1, <2>2 DEF AtLatest, GapsCounted
<1> QED BY <1>6, <1>7, <1>9

\* A frame sent is behind those before it, and between no two that arrived.
LEMMA SendOrder ==
  ASSUME OrderInv, NumberInv, SenderOK', NEW c \in Cell, Numbered(c),
         faults'.swapped = faults.swapped,
         air' = air \/ air' = Append(air, FrameOf(c))
  PROVE  OrderInv'
<1> DEFINE n == Len(air)
<1>1. /\ sent' = [sent EXCEPT ![c] = @ + 1] /\ boot' = boot
      /\ lines' = lines /\ walks' = walks
  BY DEF Numbered, peer
<1> SUFFICES ASSUME Orderly'
             PROVE  AirSorted' /\ AirAhead' /\ \A d \in DOMAIN walks : AtLatest(d)' /\ GapsCounted(d)'
  BY <1>1 DEF OrderInv
<1>2. /\ AirSorted /\ AirAhead
      /\ \A d \in DOMAIN walks : AtLatest(d) /\ GapsCounted(d)
  BY <1>1 DEF OrderInv, Orderly
<1>3. FrameOf(c).cell = c /\ FrameOf(c).nth = sent[c] + 1 /\ sent[c] \in Nat
  BY DEF FrameOf, NumberInv, SenderOK
<1>4. \A f \in Frames : f.cell = c => f.nth \in Nat /\ f.nth <= sent[c]
  BY <1>3 DEF NumberInv, SentBy
<1>5. AirSorted' /\ AirAhead'
  <2>1. CASE air' = air
    BY <1>1, <1>2, <2>1 DEF AirSorted, AirAhead
  <2>2. CASE air' = Append(air, FrameOf(c))
    <3>1. /\ Len(air') = n + 1 /\ n \in Nat /\ air'[n + 1] = FrameOf(c)
          /\ \A i \in 1..n : air'[i] = air[i] /\ air[i] \in Frames
      BY <2>2, AppendFacts DEF NumberInv, Frames, Elements
    <3>2. ASSUME NEW i \in 1..(n + 1), NEW j \in 1..(n + 1), i < j,
                 air'[i].cell = air'[j].cell
          PROVE  air'[i].nth <= air'[j].nth
      <4>1. CASE j = n + 1
        <5>1. i \in 1..n /\ air'[i] = air[i] /\ air[i] \in Frames
          BY <3>1, <3>2, <4>1
        <5>2. air[i].cell = c /\ air'[j].nth = sent[c] + 1
          BY <1>3, <3>1, <3>2, <4>1, <5>1
        <5>3. air[i].nth \in Nat /\ air[i].nth <= sent[c]
          BY <1>4, <5>1, <5>2
        <5> QED BY <1>3, <5>1, <5>2, <5>3
      <4>2. CASE j \in 1..n
        <5>1. i \in 1..n /\ air'[i] = air[i] /\ air'[j] = air[j]
          BY <3>1, <3>2, <4>2
        <5> QED BY <1>2, <3>2, <4>2, <5>1 DEF AirSorted
      <4> QED BY <3>1, <4>1, <4>2
    <3>3. ASSUME NEW i \in 1..Len(lines), NEW j \in 1..(n + 1),
                 lines[i].payload.cell = air'[j].cell
          PROVE  lines[i].payload.nth <= air'[j].nth
      <4>1. CASE j = n + 1
        <5>1. lines[i].payload \in Frames /\ lines[i].payload.cell = c
          BY <1>3, <3>1, <3>3, <4>1 DEF Frames
        <5>2. air'[j].nth = sent[c] + 1
          BY <1>3, <3>1, <4>1
        <5>3. lines[i].payload.nth \in Nat /\ lines[i].payload.nth <= sent[c]
          BY <1>4, <5>1
        <5> QED BY <1>3, <5>2, <5>3
      <4>2. CASE j \in 1..n
        BY <1>2, <3>1, <3>3, <4>2 DEF AirAhead
      <4> QED BY <3>1, <4>1, <4>2
    <3> QED BY <1>1, <3>1, <3>2, <3>3 DEF AirSorted, AirAhead
  <2> QED BY <2>1, <2>2
<1>6. \A d : Arrived(d)' = Arrived(d)
  BY <1>1, ArrivedSame
<1>7. ASSUME NEW d \in DOMAIN walks PROVE AtLatest(d)' /\ GapsCounted(d)'
  <2>1. AtLatest(d) /\ GapsCounted(d)
    BY <1>2
  <2>2. LostBetween(d)' = LostBetween(d)
    <3>1. CASE d = c
      <4>1. sent'[c] = sent[c] + 1
        BY <1>1 DEF NumberInv, SenderOK
      <4>2. Arrived(c) \subseteq 1..sent[c]
        BY ArrivedSent
      <4>3. ASSUME NEW m \in 1..sent'[c], NEW b \in Arrived(c), m < b PROVE m \in 1..sent[c]
        BY <1>3, <4>1, <4>2, <4>3
      <4>4. 1..sent[c] \subseteq 1..sent'[c]
        BY <1>3, <4>1
      <4> QED BY <1>6, <3>1, <4>3, <4>4 DEF LostBetween
    <3>2. CASE d # c
      <4>1. 1..sent'[d] = 1..sent[d]
        BY <1>1, <3>2 DEF NumberInv, SenderOK
      <4> QED BY <1>6, <4>1 DEF LostBetween
    <3> QED BY <3>1, <3>2
  <2> QED BY <1>1, <1>6, <2>1, <2>2 DEF AtLatest, GapsCounted
<1> QED BY <1>5, <1>7

\* What of a cell's frames the latest arrival has passed over is lost.
LEMMA PassedOver ==
  ASSUME SenderOK, NEW c \in Cell, NEW h \in Nat, NEW m \in Nat, m <= sent[c],
         Cardinality(MissingOf(c)) <= MaxLosses, MaxLosses \in Nat,
         \A k \in Arrived(c) : k <= h, \A k \in InAir(c) : m <= k
  PROVE  /\ IsFiniteSet((h + 1)..(m - 1))
         /\ h <= m => /\ m - h <= MaxLosses + 1
                      /\ Cardinality((h + 1)..(m - 1)) = IF h = m THEN 0 ELSE m - h - 1
<1> DEFINE I == (h + 1)..(m - 1)
<1>1. sent[c] \in Nat
  BY DEF SenderOK
<1>2. I \subseteq MissingOf(c)
  BY <1>1 DEF MissingOf
<1>3. /\ IsFiniteSet(MissingOf(c)) /\ Cardinality(MissingOf(c)) \in Nat
  BY MissingFinite
<1>4. h + 1 \in Int /\ m - 1 \in Int
  OBVIOUS
<1>5. /\ IsFiniteSet(I)
      /\ Cardinality(I) = IF h + 1 > m - 1 THEN 0 ELSE (m - 1) - (h + 1) + 1
  BY <1>4, FS_Interval
<1>6. Cardinality(I) <= Cardinality(MissingOf(c))
  BY <1>2, <1>3, FS_Subset
<1> HIDE DEF I
<1> QED BY <1>3, <1>5, <1>6 DEF I

\* What is passed over joins what was lost between before.
LEMMA LostGrows ==
  ASSUME NumberInv, NEW c \in Cell, NEW h \in Arrived(c), NEW m \in Nat, h <= m, m <= sent[c],
         \A k \in Arrived(c) : k <= h,
         sent' = sent, Arrived(c)' = Arrived(c) \cup {m}
  PROVE  /\ LostBetween(c)' = LostBetween(c) \cup (h + 1)..(m - 1)
         /\ LostBetween(c) \cap (h + 1)..(m - 1) = {}
         /\ IsFiniteSet(LostBetween(c))
<1> DEFINE n == sent[c]
           A == Arrived(c)
           L == LostBetween(c)
           I == (h + 1)..(m - 1)
<1>1. n \in Nat /\ A \subseteq 1..n
  BY ArrivedSent DEF NumberInv, SenderOK
<1>2. L = {k \in 1..n : k \notin A /\ \E a, b \in A : a < k /\ k < b}
  BY DEF LostBetween
<1>3. LostBetween(c)' = {k \in 1..n : k \notin A \cup {m} /\ \E a, b \in A \cup {m} : a < k /\ k < b}
  BY DEF LostBetween
<1> HIDE DEF n, A, L
<1>4. h \in A /\ h \in 1..n /\ \A k \in A : k <= h
  BY <1>1 DEF A
<1>5. ASSUME NEW k \in LostBetween(c)' PROVE k \in L \cup I
  <2>1. /\ k \in 1..n /\ k \notin A /\ k # m
    BY <1>3
  <2>2. PICK a \in A \cup {m}, b \in A \cup {m} : a < k /\ k < b
    BY <1>3
  <2>3. CASE k < h
    <3>1. a \in A
      BY <1>1, <1>4, <2>1, <2>2, <2>3
    <3> QED BY <1>2, <1>4, <2>1, <2>2, <2>3, <3>1
  <2>4. CASE k > h
    <3>1. b = m
      BY <1>1, <1>4, <2>1, <2>2, <2>4
    <3> QED BY <1>1, <1>4, <2>1, <2>2, <2>4, <3>1
  <2>5. k # h
    BY <1>4, <2>1
  <2> QED BY <1>1, <1>4, <2>1, <2>3, <2>4, <2>5
<1>6. ASSUME NEW k \in L PROVE k \in LostBetween(c)'
  <2>1. k \in 1..n /\ k \notin A
    BY <1>2
  <2>2. PICK a \in A, b \in A : a < k /\ k < b
    BY <1>2
  <2>3. k # m
    BY <1>1, <1>4, <2>1, <2>2
  <2> QED BY <1>3, <2>1, <2>2, <2>3
<1>7. ASSUME NEW k \in I PROVE k \in LostBetween(c)'
  <2>1. h \in Nat /\ k \in Int /\ h + 1 <= k /\ k <= m - 1
    BY <1>1, <1>4 DEF I
  <2>2. k \in 1..n
    BY <1>1, <2>1 DEF n
  <2>3. h < k /\ k < m /\ k # m
    BY <2>1
  <2>4. k \notin A
    BY <1>4, <2>1, <2>3
  <2>5. h \in A \cup {m} /\ m \in A \cup {m}
    BY <1>4
  <2> HIDE DEF I
  <2> QED BY <1>3, <2>2, <2>3, <2>4, <2>5
<1>8. L \cap I = {}
  BY <1>1, <1>2, <1>4
<1>9. IsFiniteSet(L)
  <2>1. 1 \in Int /\ n \in Int
    BY <1>1
  <2>2. IsFiniteSet(1..n)
    BY <2>1, FS_Interval
  <2>3. L \subseteq 1..n
    BY <1>2
  <2> QED BY <2>2, <2>3, FS_Subset
<1> QED BY <1>5, <1>6, <1>7, <1>8, <1>9 DEF L

\* The first frame of a cell to arrive is between no two.
LEMMA LostNone ==
  ASSUME NEW c, NEW m, Arrived(c) = {m}
  PROVE  m \in Int => LostBetween(c) = {}
BY DEF LostBetween

LEMMA GapOf ==
  ASSUME NEW last \in 0..(SeqSpace - 1), NEW s, NEW d, Forward(last, s) = d,
         d \in 0..(SeqSpace \div 2 - 1)
  PROVE  /\ Missing(last, s) = IF d = 0 THEN 0 ELSE d - 1
         /\ Observed(last, s) = s
<1> DEFINE h == SeqSpace \div 2
           x == Forward(last, s)
<1>1. last # NoSeq
  BY DEF NoSeq
<1>2. Verdict(last, s) = CASE x = 0 -> "duplicate" [] x = 1 -> "contiguous"
                           [] x \in 2..(h - 1) -> "gap" [] OTHER -> "restart"
  BY <1>1 DEF Verdict
<1>3. Missing(last, s) = IF Verdict(last, s) = "gap" THEN x - 1 ELSE 0
  BY DEF Missing
<1>4. Observed(last, s) = IF Verdict(last, s) = "restart" THEN NoSeq ELSE s
  BY DEF Observed
<1>5. d \in 0..(h - 1) /\ x = d
  OBVIOUS
<1> HIDE DEF h, x
<1>6. CASE d = 0
  <2>1. Verdict(last, s) = "duplicate"
    BY <1>2, <1>5, <1>6
  <2> QED BY <1>3, <1>4, <1>6, <2>1
<1>7. CASE d = 1
  <2>1. Verdict(last, s) = "contiguous"
    BY <1>2, <1>5, <1>7
  <2> QED BY <1>3, <1>4, <1>7, <2>1
<1>8. CASE d # 0 /\ d # 1
  <2>1. d \in 2..(h - 1)
    BY <1>5, <1>8
  <2>2. Verdict(last, s) = "gap"
    BY <1>2, <1>5, <1>8, <2>1
  <2> QED BY <1>3, <1>4, <1>5, <1>8, <2>2
<1> QED BY <1>6, <1>7, <1>8

\* A frame heard in order is counted from the latest before it.
LEMMA HeardOrder ==
  ASSUME QuiltWireAssumption, MaxLosses \in Nat, MaxLosses + 1 < SeqSpace \div 2,
         LinkInv, LossInv, OnFrame
  PROVE  OrderInv'
<1>1. PICK f : f = Head(air)
  OBVIOUS
<1>2. PICK c : c = f.cell
  OBVIOUS
<1>3. PICK w : w = Heard(c)
  OBVIOUS
<1>4. PICK n : n = Len(lines)
  OBVIOUS
<1>5. /\ 1 \in 1..Len(air) /\ f = air[1] /\ f \in Frames
      /\ air' \in Seq(ToSet(air')) /\ InOrderOf(air', air)
  BY <1>1, HeardAir DEF LinkInv, NumberInv, Frames, Elements
<1>6. /\ Len(lines') = n + 1 /\ n \in Nat /\ lines'[n + 1].payload = f
      /\ \A i \in 1..n : lines'[i] = lines[i]
  BY <1>1, <1>4, HeardLine DEF LinkInv, WalkInv
<1>7. /\ DOMAIN walks' = DOMAIN walks \cup {c}
      /\ \A d \in DOMAIN walks : d # c => walks'[d] = walks[d]
      /\ walks'[c].last = Observed(w.last, f.seq)
      /\ walks'[c].gaps = w.gaps + Missing(w.last, f.seq)
  BY <1>1, <1>2, <1>3, HeardWalk DEF LinkInv
<1>8. sent' = sent /\ boot' = boot /\ faults' = faults
  BY DEF OnFrame, sender
<1>9. /\ c \in Cell /\ f.nth \in 1..sent[c] /\ sent[c] \in Nat /\ f.nth \in Nat
      /\ SenderOK /\ SeqSpace \in Nat
  BY <1>2, <1>5 DEF LinkInv, NumberInv, SentBy, SenderOK, QuiltWireAssumption
<1>10. /\ Arrived(c)' = Arrived(c) \cup {f.nth}
       /\ \A d : d # c => Arrived(d)' = Arrived(d)
  <2>1. \A d, x : x \in Arrived(d)' <=>
          \E i \in 1..(n + 1) : lines'[i].payload.cell = d /\ x = lines'[i].payload.nth
    BY <1>6 DEF Arrived, LinesOf
  <2>2. \A d, x : x \in Arrived(d) <=>
          \E i \in 1..n : lines[i].payload.cell = d /\ x = lines[i].payload.nth
    BY <1>4 DEF Arrived, LinesOf
  <2>3. \A d, x : x \in Arrived(d)' <=> x \in Arrived(d) \/ (d = c /\ x = f.nth)
    BY <1>2, <1>6, <2>1, <2>2
  <2>4. \A x : x \in Arrived(c)' <=> x \in Arrived(c) \cup {f.nth}
    BY <2>3
  <2>5. ASSUME NEW d, d # c PROVE Arrived(d)' = Arrived(d)
    <3>1. \A x : x \in Arrived(d)' <=> x \in Arrived(d)
      BY <2>3, <2>5
    <3>2. PICK S : S = Arrived(d)
      OBVIOUS
    <3>3. PICK T : T = Arrived(d)'
      OBVIOUS
    <3> QED BY <3>1, <3>2, <3>3
  <2>6. Arrived(c)' = Arrived(c) \cup {f.nth}
    <3>1. PICK S : S = Arrived(c)
      OBVIOUS
    <3>2. PICK T : T = Arrived(c)'
      OBVIOUS
    <3> QED BY <2>4, <3>1, <3>2
  <2> QED BY <2>5, <2>6
<1> SUFFICES ASSUME Orderly'
             PROVE  AirSorted' /\ AirAhead' /\ \A d \in DOMAIN walks' : AtLatest(d)' /\ GapsCounted(d)'
  BY DEF OrderInv
<1>11. /\ Orderly /\ AirSorted /\ AirAhead
       /\ \A d \in DOMAIN walks : AtLatest(d) /\ GapsCounted(d)
  BY <1>8 DEF LossInv, OrderInv, Orderly
<1>12. PICK g \in [1..Len(air') -> 1..Len(air)] :
         /\ \A k \in 1..Len(air') : air'[k] = air[g[k]]
         /\ \A k, l \in 1..Len(air') : k < l => g[k] <= g[l]
  BY <1>5 DEF InOrderOf
<1>13. \A k \in 1..Len(air') : g[k] \in 1..Len(air)
  BY <1>12
\* The first in the air is the earliest of its cell there.
<1>14. ASSUME NEW j \in 1..Len(air), air[j].cell = c PROVE f.nth <= air[j].nth
  <2>1. CASE j = 1
    BY <2>1, <1>5, <1>9
  <2>2. CASE j # 1
    <3>1. 1 < j
      BY <2>2
    <3> QED BY <1>2, <1>5, <1>11, <1>14, <3>1 DEF AirSorted
  <2> QED BY <2>1, <2>2
<1>15. AirSorted' /\ AirAhead'
  <2>1. ASSUME NEW k \in 1..Len(air'), NEW l \in 1..Len(air'), k < l,
               air'[k].cell = air'[l].cell
        PROVE  air'[k].nth <= air'[l].nth
    <3>1. g[k] <= g[l] /\ air'[k] = air[g[k]] /\ air'[l] = air[g[l]]
      BY <1>12, <2>1
    <3>2. CASE g[k] = g[l]
      <4>1. air[g[k]] \in Frames
        BY <1>13 DEF Frames, Elements
      <4>2. air'[k].nth \in Int
        BY <3>1, <4>1 DEF LinkInv, NumberInv, SentBy, SenderOK
      <4> QED BY <3>1, <3>2, <4>2
    <3>3. CASE g[k] < g[l]
      BY <1>11, <1>13, <2>1, <3>1, <3>3 DEF AirSorted
    <3>4. g[k] \in Int /\ g[l] \in Int
      BY <1>13
    <3> QED BY <3>1, <3>2, <3>3, <3>4
  <2>2. ASSUME NEW i \in 1..(n + 1), NEW j \in 1..Len(air'),
               lines'[i].payload.cell = air'[j].cell
        PROVE  lines'[i].payload.nth <= air'[j].nth
    <3>1. CASE i = n + 1
      BY <1>2, <1>6, <1>12, <1>13, <1>14, <2>2, <3>1
    <3>2. CASE i \in 1..n
      BY <1>4, <1>6, <1>11, <1>12, <1>13, <2>2, <3>2 DEF AirAhead
    <3> QED BY <1>6, <3>1, <3>2
  <2> QED BY <1>6, <2>1, <2>2 DEF AirSorted, AirAhead
<1>16. ASSUME NEW d \in DOMAIN walks, d # c PROVE AtLatest(d)' /\ GapsCounted(d)'
  <2>1. AtLatest(d) /\ GapsCounted(d)
    BY <1>11
  <2>2. walks'[d] = walks[d] /\ Arrived(d)' = Arrived(d)
    BY <1>7, <1>10, <1>16
  <2>3. LostBetween(d)' = LostBetween(d)
    BY <1>8, <2>2 DEF LostBetween
  <2>4. PICK i \in 1..n : /\ lines[i].payload.cell = d /\ walks[d].last = lines[i].payload.seq
                          /\ \A m \in Arrived(d) : m <= lines[i].payload.nth
    BY <1>4, <2>1 DEF AtLatest
  <2>5. i \in 1..(n + 1) /\ lines'[i] = lines[i]
    BY <1>6
  <2> QED BY <1>6, <2>1, <2>2, <2>3, <2>4, <2>5 DEF AtLatest, GapsCounted
<1>17. n + 1 \in 1..(n + 1)
  BY <1>6
\* The cell whose frame it is, heard before
<1>18. ASSUME c \in DOMAIN walks PROVE AtLatest(c)' /\ GapsCounted(c)'
  <2>1. PICK i \in 1..n : /\ lines[i].payload.cell = c /\ walks[c].last = lines[i].payload.seq
                          /\ \A m \in Arrived(c) : m <= lines[i].payload.nth
    BY <1>4, <1>11, <1>18 DEF AtLatest
  <2>2. PICK b : b = lines[i].payload
    OBVIOUS
  <2>3. PICK h : h = b.nth
    OBVIOUS
  <2>4. b \in Frames /\ SentBy(b) /\ SentBy(f) /\ Numbers(b, f)
    BY <1>4, <1>5, <2>2 DEF Frames, LinkInv, NumberInv
  <2>5. /\ h \in Nat /\ b.seq \in 0..(SeqSpace - 1) /\ b.boot = f.boot /\ b.cell = c
    BY <1>2, <1>9, <1>11, <2>1, <2>2, <2>3, <2>4 DEF SentBy, Orderly
  <2>6. h \in Arrived(c) /\ \A k \in Arrived(c) : k <= h
    BY <1>4, <2>1, <2>2, <2>3 DEF Arrived, LinesOf
  <2>7. h <= f.nth
    BY <1>2, <1>4, <1>5, <1>11, <2>1, <2>2, <2>3 DEF AirAhead
  <2>8. \A k \in InAir(c) : f.nth <= k
    BY <1>14 DEF InAir, Elements
  <2>9. Cardinality(MissingOf(c)) <= MaxLosses
    BY <1>9, MissingFinite DEF LossInv, MissingLost, FaultsOK
  <2> DEFINE I == (h + 1)..(f.nth - 1)
  <2>10. /\ IsFiniteSet(I) /\ f.nth - h <= MaxLosses + 1
         /\ Cardinality(I) = IF h = f.nth THEN 0 ELSE f.nth - h - 1
    <3>1. f.nth <= sent[c]
      BY <1>9
    <3>2. PICK m : m = f.nth
      OBVIOUS
    <3>3. /\ m \in Nat /\ m <= sent[c] /\ h <= m
          /\ \A k \in InAir(c) : m <= k
      BY <1>9, <2>7, <2>8, <3>1, <3>2
    <3>4. \A k \in Arrived(c) : k <= h
      BY <2>6
    <3>5. SenderOK /\ c \in Cell /\ h \in Nat
      BY <1>9, <2>5
    <3>6. /\ IsFiniteSet((h + 1)..(m - 1))
          /\ h <= m => /\ m - h <= MaxLosses + 1
                       /\ Cardinality((h + 1)..(m - 1)) = IF h = m THEN 0 ELSE m - h - 1
      BY <2>9, <3>3, <3>4, <3>5, PassedOver
    <3> QED BY <3>2, <3>3, <3>6
  <2>11. /\ LostBetween(c)' = LostBetween(c) \cup I
         /\ LostBetween(c) \cap I = {} /\ IsFiniteSet(LostBetween(c))
    BY <1>8, <1>9, <1>10, <2>6, <2>7, LostGrows DEF LinkInv
  <2> HIDE DEF I
  <2>12. Cardinality(LostBetween(c)') = Cardinality(LostBetween(c)) + Cardinality(I)
    <3>1. /\ Cardinality(LostBetween(c) \cup I)
               = Cardinality(LostBetween(c)) + Cardinality(I)
                   - Cardinality(LostBetween(c) \cap I)
      BY <2>10, <2>11, FS_Union
    <3>2. Cardinality({}) = 0
      BY FS_EmptySet
    <3>3. Cardinality(LostBetween(c)) \in Nat /\ Cardinality(I) \in Nat
      BY <2>10, <2>11, FS_CardinalityType
    <3>4. Cardinality(LostBetween(c) \cap I) = 0
      BY <2>11, <3>2
    <3>5. PICK p : p = Cardinality(LostBetween(c))
      OBVIOUS
    <3>6. PICK q : q = Cardinality(I)
      OBVIOUS
    <3>7. Cardinality(LostBetween(c) \cup I) = p + q
      BY <3>1, <3>3, <3>4, <3>5, <3>6
    <3> QED BY <2>11, <3>5, <3>6, <3>7
  <2>13. f.nth - h \in 0..(SeqSpace \div 2 - 1)
    BY <1>9, <2>5, <2>7, <2>10
  <2>14. Forward(b.seq, f.seq) = f.nth - h
    <3>1. InStep(b, f)
      BY <1>2, <2>3, <2>5, <2>13 DEF InStep
    <3> QED BY <1>9, <2>3, <2>4, <2>5, <3>1, InStepIsNoRestart
  <2>15. /\ Missing(b.seq, f.seq) = IF f.nth - h = 0 THEN 0 ELSE f.nth - h - 1
         /\ Observed(b.seq, f.seq) = f.seq
    BY <2>5, <2>13, <2>14, GapOf
  <2>16. Missing(b.seq, f.seq) = Cardinality(I)
    BY <1>9, <2>5, <2>10, <2>15
  <2>17. w = walks[c] /\ w.last = b.seq
    BY <1>3, <1>18, <2>1, <2>2 DEF Heard
  <2>18. w.gaps = Cardinality(LostBetween(c))
    BY <1>11, <1>18, <2>17 DEF GapsCounted
  <2>19. GapsCounted(c)'
    BY <1>7, <2>12, <2>16, <2>17, <2>18 DEF GapsCounted
  <2>20. \A m \in Arrived(c)' : m <= f.nth
    <3>1. \A k \in Arrived(c) : k \in Nat
      BY <1>9, ArrivedSent DEF LinkInv
    <3> QED BY <1>9, <1>10, <2>5, <2>6, <2>7, <3>1
  <2>21. AtLatest(c)'
    BY <1>2, <1>6, <1>7, <1>17, <2>15, <2>17, <2>20 DEF AtLatest
  <2> QED BY <2>19, <2>21
\* or for the first time.
<1>19. ASSUME c \notin DOMAIN walks PROVE AtLatest(c)' /\ GapsCounted(c)'
  <2>1. Arrived(c) = {}
    BY <1>19 DEF Arrived, LinesOf, LinkInv, TearInv
  <2>2. Arrived(c)' = {f.nth}
    BY <1>10, <2>1
  <2>3. LostBetween(c)' = {}
    BY <1>9, <2>2 DEF LostBetween
  <2>4. w = NewWalk
    BY <1>3, <1>19 DEF Heard
  <2>5. w.last = NoSeq /\ w.gaps = 0
    BY <2>4 DEF NewWalk
  <2>6. Missing(NoSeq, f.seq) = 0 /\ Observed(NoSeq, f.seq) = f.seq
    BY DEF Missing, Observed, Verdict
  <2>7. GapsCounted(c)'
    BY <1>7, <2>3, <2>5, <2>6, FS_EmptySet DEF GapsCounted
  <2>8. AtLatest(c)'
    <3>1. \A m \in Arrived(c)' : m <= f.nth
      BY <1>9, <2>2
    <3> QED BY <1>2, <1>6, <1>7, <1>17, <2>5, <2>6, <3>1 DEF AtLatest
  <2> QED BY <2>7, <2>8
<1> QED BY <1>7, <1>15, <1>16, <1>18, <1>19

LEMMA InOrderSelf ==
  ASSUME NEW a, a = air
  PROVE  InOrderOf(a, air)
<1> DEFINE g == [k \in 1..Len(a) |-> k]
<1>1. /\ g \in [1..Len(a) -> 1..Len(air)]
      /\ \A k \in 1..Len(a) : a[k] = air[g[k]]
      /\ \A k, l \in 1..Len(a) : k < l => g[k] <= g[l]
  OBVIOUS
<1> HIDE DEF g
<1> QED BY <1>1 DEF InOrderOf

LEMMA LossInit ==
  ASSUME WireLinkAssumption, LinkInit
  PROVE  LossInv
<1>1. MaxLosses \in Nat
  BY DEF WireLinkAssumption
<1>2. FaultsOK
  BY <1>1 DEF LinkInit, FaultsOK
<1>3. MissingLost
  <2>1. \A c \in Cell : MissingOf(c) = {}
    BY DEF LinkInit, MissingOf
  <2>2. Cardinality({}) = 0 /\ faults.lost = 0
    BY FS_EmptySet DEF LinkInit
  <2> QED BY <2>1, <2>2 DEF MissingLost
<1>4. OrderInv
  BY DEF LinkInit, OrderInv, AirSorted, AirAhead
<1> QED BY <1>2, <1>3, <1>4 DEF LossInv

\* What arrived or is in the air has been sent, so what is missing grows only
\* by what leaves the air unheard or is sent in vain.
LEMMA MissingGrows ==
  ASSUME NEW c, NEW S, sent'[c] = sent[c],
         Arrived(c) \cup InAir(c) \subseteq Arrived(c)' \cup InAir(c)' \cup S
  PROVE  MissingOf(c)' \subseteq MissingOf(c) \cup S
BY DEF MissingOf

\* A cell numbers a frame: it is in the air, or missing.
LEMMA SendMissing ==
  ASSUME NumberInv, NEW c \in Cell, Numbered(c), NEW S,
         Elements(air) \subseteq Elements(air'),
         FrameOf(c) \in Elements(air') \/ sent[c] + 1 \in S
  PROVE  \A d \in Cell : MissingOf(d)' \subseteq MissingOf(d) \cup S
<1>1. sent' = [sent EXCEPT ![c] = @ + 1] /\ lines' = lines
  BY DEF Numbered, peer
<1>2. \A d : Arrived(d)' = Arrived(d)
  BY <1>1, ArrivedSame
<1>3. \A d : InAir(d) \subseteq InAir(d)'
  BY DEF InAir
<1>4. FrameOf(c).cell = c /\ FrameOf(c).nth = sent[c] + 1 /\ sent[c] \in Nat
  BY DEF FrameOf, NumberInv, SenderOK
<1>5. sent[c] + 1 \in InAir(c)' \cup S
  BY <1>4 DEF InAir
<1>6. /\ sent'[c] = sent[c] + 1
      /\ \A d \in Cell : d # c => sent'[d] = sent[d]
  BY <1>1 DEF NumberInv, SenderOK
<1> SUFFICES ASSUME NEW d \in Cell, NEW m \in MissingOf(d)' PROVE m \in MissingOf(d) \cup S
  OBVIOUS
<1>7. m \in 1..sent'[d] /\ m \notin Arrived(d)' /\ m \notin InAir(d)'
  BY DEF MissingOf
<1>8. m \notin Arrived(d) \cup InAir(d)
  BY <1>2, <1>3, <1>7
<1>9. CASE m \in 1..sent[d]
  BY <1>8, <1>9 DEF MissingOf
<1>10. CASE m \notin 1..sent[d]
  <2>1. d = c
    BY <1>6, <1>7, <1>10
  <2>2. m = sent[c] + 1
    BY <1>4, <1>6, <1>7, <1>10, <2>1
  <2> QED BY <1>5, <1>7, <2>1, <2>2
<1> QED BY <1>9, <1>10

\* The radio moves frames, and loses those in S.
LEMMA MovedMissing ==
  ASSUME UNCHANGED << sent, lines >>, NEW S, Elements(air) \subseteq Elements(air') \cup S
  PROVE  \A c : MissingOf(c)' \subseteq MissingOf(c) \cup {f.nth : f \in S}
<1> SUFFICES ASSUME NEW c PROVE MissingOf(c)' \subseteq MissingOf(c) \cup {f.nth : f \in S}
  OBVIOUS
<1>1. Arrived(c)' = Arrived(c)
  BY ArrivedSame
<1>2. InAir(c) \subseteq InAir(c)' \cup {f.nth : f \in S}
  BY DEF InAir
<1> QED BY <1>1, <1>2, MissingGrows

\* The frame heard has arrived.
LEMMA HeardMissing ==
  ASSUME LinkInv, OnFrame
  PROVE  \A c : MissingOf(c)' \subseteq MissingOf(c)
<1> SUFFICES ASSUME NEW c PROVE MissingOf(c)' \subseteq MissingOf(c)
  OBVIOUS
<1>1. PICK f : f = Head(air)
  OBVIOUS
<1>2. PICK n : n = Len(lines)
  OBVIOUS
<1>3. Elements(air) \subseteq Elements(air') \cup {f}
  BY <1>1, HeardAir DEF LinkInv, NumberInv
<1>4. /\ Len(lines') = n + 1 /\ n \in Nat /\ lines'[n + 1].payload = f
      /\ \A i \in 1..n : lines'[i] = lines[i]
  BY <1>1, <1>2, HeardLine DEF LinkInv, WalkInv
<1>5. Arrived(c) \subseteq Arrived(c)'
  BY <1>2, <1>4 DEF Arrived, LinesOf
<1>6. f.cell = c => f.nth \in Arrived(c)'
  BY <1>4 DEF Arrived, LinesOf
<1>7. InAir(c) \subseteq InAir(c)' \cup Arrived(c)'
  BY <1>3, <1>6 DEF InAir
<1>8. sent' = sent
  BY DEF OnFrame, sender
<1>9. MissingOf(c)' \subseteq MissingOf(c) \cup {}
  BY <1>5, <1>7, <1>8, MissingGrows
<1> QED BY <1>9

LEMMA LossCounted ==
  ASSUME FaultsOK, MaxLosses \in Nat, faults.lost < MaxLosses,
         faults' = [faults EXCEPT !.lost = @ + 1]
  PROVE  faults'.lost = faults.lost + 1 /\ faults'.swapped = faults.swapped /\ FaultsOK'
<1>1. PICK a : a = faults.lost
  OBVIOUS
<1>2. PICK r : r = faults.repeated
  OBVIOUS
<1>3. PICK s : s = faults.swapped
  OBVIOUS
<1>4. /\ faults = [lost |-> a, repeated |-> r, swapped |-> s]
      /\ a \in 0..MaxLosses /\ s \in Nat
  BY <1>1, <1>2, <1>3 DEF FaultsOK
<1>5. faults' = [lost |-> a + 1, repeated |-> r, swapped |-> s]
  BY <1>4
<1>6. a + 1 \in 0..MaxLosses
  BY <1>1, <1>4
<1> QED BY <1>1, <1>3, <1>4, <1>5, <1>6 DEF FaultsOK

LEMMA SwapCounted ==
  ASSUME FaultsOK, faults' = [faults EXCEPT !.swapped = @ + 1]
  PROVE  /\ faults'.lost = faults.lost /\ faults'.swapped = faults.swapped + 1
         /\ faults.swapped \in Nat /\ FaultsOK'
<1>1. PICK a : a = faults.lost
  OBVIOUS
<1>2. PICK r : r = faults.repeated
  OBVIOUS
<1>3. PICK s : s = faults.swapped
  OBVIOUS
<1>4. /\ faults = [lost |-> a, repeated |-> r, swapped |-> s]
      /\ a \in 0..MaxLosses /\ s \in Nat
  BY <1>1, <1>2, <1>3 DEF FaultsOK
<1>5. faults' = [lost |-> a, repeated |-> r, swapped |-> s + 1]
  BY <1>4
<1>6. s + 1 \in Nat
  BY <1>4
<1> QED BY <1>1, <1>3, <1>4, <1>5, <1>6 DEF FaultsOK

\* A step that neither sends nor moves a frame.
LEMMA NoneMissed ==
  ASSUME SenderOK, SenderOK', FaultsOK, MissingLost, UNCHANGED << sent, air, lines, faults >>
  PROVE  FaultsOK' /\ MissingLost'
<1>1. FaultsOK' /\ faults'.lost = faults.lost
  BY DEF FaultsOK
<1>2. Elements(air) \subseteq Elements(air') \cup {}
  BY DEF Elements
<1>3. \A c : MissingOf(c)' \subseteq MissingOf(c) \cup {f.nth : f \in {}}
  BY <1>2, MovedMissing
<1>4. {f.nth : f \in {}} = {}
  OBVIOUS
<1>5. \A c \in Cell : MissingOf(c)' \subseteq MissingOf(c) \cup {}
  BY <1>3, <1>4
<1> QED BY <1>1, <1>5, MissingStep

LEMMA LossStep ==
  ASSUME QuiltWireAssumption, WireLinkAssumption, MaxLosses + 1 < SeqSpace \div 2,
         LinkInv, LossInv, LinkInv', [LinkNext]_linkVars
  PROVE  LossInv'
<1>1. /\ MaxLosses \in Nat /\ NumberInv /\ SenderOK /\ SenderOK'
      /\ air \in Seq(ToSet(air)) /\ air' \in Seq(ToSet(air'))
      /\ FaultsOK /\ MissingLost /\ OrderInv
  BY DEF WireLinkAssumption, LinkInv, NumberInv, LossInv
<1>2. ASSUME NEW c \in Cell, Send(c) PROVE LossInv'
  <2>1. Numbered(c) /\ air' = Append(air, FrameOf(c)) /\ faults' = faults
    BY <1>2 DEF Send
  <2>2. Elements(air) \subseteq Elements(air') /\ FrameOf(c) \in Elements(air')
    BY <1>1, <2>1, AppendFacts DEF Elements
  <2>3. \A d \in Cell : MissingOf(d)' \subseteq MissingOf(d) \cup {}
    BY <1>1, <2>1, <2>2, SendMissing
  <2>4. FaultsOK'
    BY <1>1, <2>1 DEF FaultsOK
  <2>5. MissingLost'
    BY <1>1, <2>1, <2>3, <2>4, MissingStep
  <2>6. OrderInv'
    BY <1>1, <2>1, SendOrder
  <2> QED BY <2>4, <2>5, <2>6 DEF LossInv
<1>3. ASSUME NEW c \in Cell, SendFails(c) PROVE LossInv'
  <2>1. Numbered(c) /\ air' = air /\ faults.lost < MaxLosses
        /\ faults' = [faults EXCEPT !.lost = @ + 1]
    BY <1>3 DEF SendFails
  <2>2. /\ faults'.lost = faults.lost + 1 /\ faults'.swapped = faults.swapped
        /\ FaultsOK'
    BY <1>1, <2>1, LossCounted
  <2>3. PICK x : x = sent[c] + 1
    OBVIOUS
  <2>4. \A d \in Cell : MissingOf(d)' \subseteq MissingOf(d) \cup {x}
    BY <1>1, <2>1, <2>3, SendMissing
  <2>5. MissingLost'
    BY <1>1, <2>2, <2>4, MissingStep
  <2>6. OrderInv'
    BY <1>1, <2>1, <2>2, SendOrder
  <2> QED BY <2>2, <2>5, <2>6 DEF LossInv
<1>4. ASSUME NEW c \in Cell, Reboot(c) PROVE LossInv'
  <2>1. /\ boot' = [boot EXCEPT ![c] = @ + 1] /\ UNCHANGED << sent, air, lines, walks, faults >>
    BY <1>4 DEF Reboot, radio, peer
  <2>2. boot'[c] \in Nat /\ boot'[c] # 0
    BY <1>1, <2>1 DEF SenderOK
  <2>3. ~ Orderly'
    BY <2>2 DEF Orderly
  <2>4. OrderInv'
    BY <2>3 DEF OrderInv
  <2>5. FaultsOK' /\ MissingLost'
    BY <1>1, <2>1, NoneMissed
  <2> QED BY <2>4, <2>5 DEF LossInv
<1>5. ASSUME NEW i \in 1..Len(air), Lose(i) PROVE LossInv'
  <2>1. /\ UNCHANGED << seq, boot, sent, lines, walks >> /\ faults.lost < MaxLosses
        /\ faults' = [faults EXCEPT !.lost = @ + 1]
    BY <1>5 DEF Lose, sender, peer
  <2>2. /\ faults'.lost = faults.lost + 1 /\ faults'.swapped = faults.swapped
        /\ FaultsOK'
    BY <1>1, <2>1, LossCounted
  <2>3. Elements(air) \subseteq Elements(air') \cup {air[i]} /\ InOrderOf(air', air)
    BY <1>1, <1>5, LoseAir
  <2>4. PICK x : x = air[i].nth
    OBVIOUS
  <2>5. {f.nth : f \in {air[i]}} = {x}
    BY <2>4
  <2>6. \A d \in Cell : MissingOf(d)' \subseteq MissingOf(d) \cup {x}
    BY <2>1, <2>3, <2>5, MovedMissing
  <2>7. MissingLost'
    BY <1>1, <2>2, <2>6, MissingStep
  <2>8. Orderly' => Orderly
    BY <2>1, <2>2 DEF Orderly
  <2>9. OrderInv'
    BY <1>1, <2>1, <2>3, <2>8, QuietOrder
  <2> QED BY <2>2, <2>7, <2>9 DEF LossInv
<1>6. ASSUME NEW i \in 1..Len(air), Repeat(i) PROVE LossInv'
  <2>1. /\ UNCHANGED << seq, boot, sent, lines, walks >>
        /\ faults' = [faults EXCEPT !.repeated = @ + 1]
    BY <1>6 DEF Repeat, sender, peer
  <2>2. /\ faults'.lost = faults.lost /\ faults'.swapped = faults.swapped
        /\ FaultsOK'
    BY <1>1, <2>1 DEF FaultsOK
  <2>3. Elements(air) \subseteq Elements(air') \cup {} /\ InOrderOf(air', air)
    BY <1>1, <1>6, RepeatAir
  <2>4. \A d \in Cell : MissingOf(d)' \subseteq MissingOf(d) \cup {}
    <3>1. {f.nth : f \in {}} = {}
      OBVIOUS
    <3> QED BY <2>1, <2>3, <3>1, MovedMissing
  <2>5. MissingLost'
    BY <1>1, <2>2, <2>4, MissingStep
  <2>6. Orderly' => Orderly
    BY <2>1, <2>2 DEF Orderly
  <2>7. OrderInv'
    BY <1>1, <2>1, <2>3, <2>6, QuietOrder
  <2> QED BY <2>2, <2>5, <2>7 DEF LossInv
<1>7. ASSUME NEW i \in 1..Len(air), Swap(i) PROVE LossInv'
  <2>1. /\ UNCHANGED << seq, boot, sent, lines, walks >>
        /\ faults' = [faults EXCEPT !.swapped = @ + 1]
    BY <1>7 DEF Swap, sender, peer
  <2>2. /\ faults'.lost = faults.lost /\ faults'.swapped = faults.swapped + 1
        /\ faults.swapped \in Nat /\ FaultsOK'
    BY <1>1, <2>1, SwapCounted
  <2>3. Elements(air) \subseteq Elements(air') \cup {}
    BY <1>1, <1>7, SwapAir
  <2>4. \A d \in Cell : MissingOf(d)' \subseteq MissingOf(d) \cup {}
    <3>1. {f.nth : f \in {}} = {}
      OBVIOUS
    <3> QED BY <2>1, <2>3, <3>1, MovedMissing
  <2>5. MissingLost'
    BY <1>1, <2>2, <2>4, MissingStep
  <2>6. ~ Orderly'
    BY <2>2 DEF Orderly
  <2> QED BY <2>2, <2>5, <2>6 DEF LossInv, OrderInv
<1>8. CASE OnFrame
  <2>1. faults' = faults
    BY <1>8 DEF OnFrame
  <2>2. FaultsOK'
    BY <1>1, <2>1 DEF FaultsOK
  <2>3. \A c \in Cell : MissingOf(c)' \subseteq MissingOf(c) \cup {}
    BY <1>8, HeardMissing
  <2>4. MissingLost'
    BY <1>1, <2>1, <2>2, <2>3, MissingStep
  <2>5. OrderInv'
    BY <1>1, <1>8, HeardOrder
  <2> QED BY <2>2, <2>4, <2>5 DEF LossInv
<1>9. CASE UNCHANGED linkVars
  <2>1. UNCHANGED << boot, sent, air, lines, walks, faults >>
    BY <1>9 DEF linkVars
  <2>2. FaultsOK' /\ MissingLost'
    BY <1>1, <2>1, NoneMissed
  <2>3. Orderly' <=> Orderly
    BY <2>1 DEF Orderly
  <2>4. InOrderOf(air', air)
    BY <2>1, InOrderSelf
  <2>5. OrderInv'
    BY <1>1, <2>1, <2>3, <2>4, QuietOrder
  <2> QED BY <2>2, <2>5 DEF LossInv
<1> QED BY <1>2, <1>3, <1>4, <1>5, <1>6, <1>7, <1>8, <1>9 DEF LinkNext

\* However many frames are sent and repeated, and however often their numbers
\* come round: while fewer than half of all numbers are lost, none is reordered
\* and no cell reboots, the peer has counted exactly the frames it was not sent
\* between those it was (SeqTracker::observe and on_frame).
THEOREM EveryLossAlwaysCounted ==
  ASSUME QuiltWireAssumption, WireLinkAssumption, MaxLosses + 1 < SeqSpace \div 2
  PROVE  LinkSpec => []EveryLossCounted
<1> DEFINE Inv == LinkInv /\ LossInv
<1>1. LinkInit => Inv
  <2> SUFFICES ASSUME LinkInit PROVE Inv
    OBVIOUS
  <2>1. LinkInv
    BY WalkInit, NumberInit, TearInit DEF LinkInv
  <2> QED BY <2>1, LossInit
<1>2. Inv /\ [LinkNext]_linkVars => Inv'
  <2> SUFFICES ASSUME Inv, [LinkNext]_linkVars PROVE Inv'
    OBVIOUS
  <2>1. LinkInv'
    BY LinkStep
  <2> QED BY <2>1, LossStep
<1>3. Inv => EveryLossCounted
  BY DEF LossInv, OrderInv, GapsCounted, EveryLossCounted
<1> QED BY <1>1, <1>2, <1>3, PTL DEF LinkSpec

-----------------------------------------------------------------------------
(***************************************************************************)
(* The firmware's loop.                                                    *)
(***************************************************************************)

\* The statics that say when to send.
Clockwork(m) ==
  /\ m = [tick |-> m.tick, last |-> m.last, since |-> m.since, seq |-> m.seq,
          sent |-> m.sent, dropped |-> m.dropped]
  /\ m.tick \in Nat /\ m.since \in Nat
  /\ m.last = NotSent \/ \E v \in Int : m.last = << v >>

\* What the firmware knows at the end of a tick.
UpToDate(m, r) ==
  m.tick > 0 => \E v \in Int : r = << v >> /\ m.since < Heartbeat /\ ~ Changed(m, v)

SilenceInv == Clockwork(fw) /\ UpToDate(fw, reading)

\* Nothing but the number and the two counts changes when a frame is tried.
SameClock(m, n) == n.tick = m.tick /\ n.last = m.last /\ n.since = m.since

LEMMA TriedKeepsClock ==
  ASSUME NEW m, Clockwork(m), NEW f, NEW attempt, SendFrame(m, f, attempt)
  PROVE  Clockwork(fw') /\ SameClock(m, fw')
<1> DEFINE q == (m.seq + 1) % SeqSpace
           a == IF attempt[2] THEN m.sent + 1 ELSE m.sent
           b == IF attempt[2] THEN m.dropped ELSE m.dropped + 1
           h == [m EXCEPT !.seq = q]
           i == [h EXCEPT !.sent = a]
           j == [i EXCEPT !.dropped = b]
<1>1. fw' = j
  BY DEF SendFrame
<1> HIDE DEF q, a, b
<1>2. Clockwork(h) /\ SameClock(m, h)
  BY DEF Clockwork, SameClock
<1> HIDE DEF h
<1>3. Clockwork(i) /\ SameClock(m, i)
  BY <1>2 DEF Clockwork, SameClock
<1> HIDE DEF i
<1>4. Clockwork(j) /\ SameClock(m, j)
  BY <1>3 DEF Clockwork, SameClock
<1> QED BY <1>1, <1>4

LEMMA SameClockUpToDate ==
  ASSUME NEW m, NEW n, NEW r, SameClock(m, n), UpToDate(m, r)
  PROVE  UpToDate(n, r)
BY DEF SameClock, UpToDate, Changed

\* A tick ends with a value just reported, or with one not worth reporting.
LEMMA LoopUpToDate ==
  ASSUME QuiltWireAssumption, Clockwork(fw), NEW v \in Int, Loop(v)
  PROVE  SilenceInv'
<1> DEFINE m == Ticked(fw)
           a == [fw EXCEPT !.tick = fw.tick + 1]
           b == [a EXCEPT !.since = fw.since + 1]
           kind == Called(m, v)
<1>1. m = b
  BY DEF Ticked
<1>2. Clockwork(a) /\ a.tick > 0 /\ a.since = fw.since /\ a.last = fw.last
  BY DEF Clockwork
<1> HIDE DEF a
<1>3. Clockwork(b) /\ b.tick > 0 /\ b.last = fw.last
  BY <1>2 DEF Clockwork
<1> HIDE DEF b
<1>4. Clockwork(m) /\ m.tick > 0
  BY <1>1, <1>3
<1> HIDE DEF m
<1>5. reading' = << v >>
  BY DEF Loop, Sent
<1>6. CASE kind = << >>
  <2>1. fw' = m
    BY <1>6 DEF Loop, m
  <2>2. ~ Changed(m, v) /\ ~ (m.since >= Heartbeat)
    BY <1>6 DEF Called
  <2>3. m.since < Heartbeat
    BY <1>4, <2>2 DEF Clockwork, QuiltWireAssumption
  <2>4. UpToDate(m, << v >>)
    BY <2>2, <2>3 DEF UpToDate
  <2> QED BY <1>4, <1>5, <2>1, <2>4 DEF SilenceInv
<1>7. CASE kind # << >>
  <2> DEFINE r == Reported(m, v)
             h == [m EXCEPT !.last = << v >>]
             i == [h EXCEPT !.since = 0]
  <2>1. r = i
    BY <1>7 DEF Reported, Sent
  <2>2. Clockwork(h) /\ h.tick = m.tick /\ h.last = << v >>
    BY <1>4 DEF Clockwork
  <2> HIDE DEF h
  <2>3. Clockwork(i) /\ i.tick = m.tick /\ i.last = << v >> /\ i.since = 0
    BY <2>2 DEF Clockwork
  <2> HIDE DEF i
  <2>4. Clockwork(r) /\ r.last = << v >> /\ r.since = 0
    BY <2>1, <2>3
  <2>5. PICK f, attempt : SendFrame(r, f, attempt)
    BY <1>7 DEF Loop, m
  <2> HIDE DEF r
  <2>6. Clockwork(fw') /\ SameClock(r, fw')
    BY <2>4, <2>5, TriedKeepsClock
  <2>7. r.since < Heartbeat /\ ~ Changed(r, v)
    <3>1. r.last # NotSent /\ r.last[1] = v
      BY <2>4 DEF NotSent
    <3>2. ~ Apart(v, v)
      BY DEF Apart, QuiltWireAssumption
    <3> QED BY <2>4, <3>1, <3>2 DEF Changed, QuiltWireAssumption
  <2>8. UpToDate(r, << v >>)
    BY <2>7 DEF UpToDate
  <2>9. UpToDate(fw', << v >>)
    BY <2>6, <2>8, SameClockUpToDate
  <2> QED BY <1>5, <2>6, <2>9 DEF SilenceInv
<1> QED BY <1>6, <1>7

LEMMA SilenceInit == FirmwareInit => SilenceInv
<1> SUFFICES ASSUME FirmwareInit PROVE SilenceInv
  OBVIOUS
<1>1. fw = [tick |-> 0, last |-> NotSent, since |-> 0, seq |-> 0, sent |-> 0, dropped |-> 0]
  BY DEF FirmwareInit
<1>2. Clockwork(fw) /\ ~ (fw.tick > 0)
  BY <1>1 DEF Clockwork
<1> QED BY <1>2 DEF SilenceInv, UpToDate

LEMMA SilenceStep ==
  ASSUME QuiltWireAssumption, CellFirmwareAssumption, SilenceInv, [FirmwareNext]_firmwareVars
  PROVE  SilenceInv'
<1>1. CASE Setup
  <2>1. PICK f, attempt : SendFrame(fw, f, attempt)
    BY <1>1 DEF Setup
  <2>2. Clockwork(fw') /\ SameClock(fw, fw')
    BY <2>1, TriedKeepsClock DEF SilenceInv
  <2>3. reading' = reading
    BY <1>1 DEF Setup
  <2> QED BY <2>2, <2>3, SameClockUpToDate DEF SilenceInv
<1>2. ASSUME NEW v \in Reading, Loop(v) PROVE SilenceInv'
  <2>1. v \in Int
    BY DEF CellFirmwareAssumption
  <2> QED BY <1>2, <2>1, LoopUpToDate DEF SilenceInv
<1>3. CASE LineNoise \/ UNCHANGED firmwareVars
  <2>1. fw' = fw /\ reading' = reading
    BY <1>3 DEF LineNoise, firmwareVars
  <2> QED BY <2>1 DEF SilenceInv
<1> QED BY <1>1, <1>2, <1>3 DEF FirmwareNext

\* However writes are cut short and whatever the sensor reads, the road is
\* never silent for as long as the heartbeat, and what was last reported is
\* never far from what was last read (loop of esp32_cell.ino).
THEOREM NeverSilent ==
  ASSUME QuiltWireAssumption, CellFirmwareAssumption
  PROVE  FirmwareInit /\ [][FirmwareNext]_firmwareVars => []NeverSilentForLong
<1>1. FirmwareInit => SilenceInv
  BY SilenceInit
<1>2. SilenceInv /\ [FirmwareNext]_firmwareVars => SilenceInv'
  BY SilenceStep
<1>3. SilenceInv => NeverSilentForLong
  <2> SUFFICES ASSUME SilenceInv, fw.tick > 0
               PROVE  fw.since < Heartbeat /\ ~ Changed(fw, reading[1])
    BY DEF NeverSilentForLong
  <2>1. PICK v \in Int : reading = << v >> /\ fw.since < Heartbeat /\ ~ Changed(fw, v)
    BY DEF SilenceInv, UpToDate
  <2> QED BY <2>1
<1> QED BY <1>1, <1>2, <1>3, PTL

-----------------------------------------------------------------------------
(***************************************************************************)
(* The decoder of a byte stream.                                           *)
(***************************************************************************)

\* g holds the decoder after each of the first m units.
DecodesTo(d, units, m, g) ==
  g = [n \in 0..m |-> IF n = 0 THEN d ELSE Pushed(g[n - 1], units[n])]

\* A partial window.
DecoderOK(d) ==
  /\ d = [buf |-> d.buf, out |-> d.out]
  /\ d.buf \in Seq(ToSet(d.buf)) /\ Len(d.buf) < FrameLen

\* buf is the last of the first n units, as many as a window lacks one of.
Latest(buf, units, n) ==
  /\ Len(buf) >= n \/ Len(buf) = FrameLen - 1
  /\ \A i \in 1..Len(buf) : Len(buf) - i < n => buf[i] = units[n - (Len(buf) - i)]

\* g is the decoder, first d, after each of the first m units.
Pushes(d, units, m, g) == g[0] = d /\ \A n \in 1..m : g[n] = Pushed(g[n - 1], units[n])

\* None of the first m units ends a frame.
Inside(units, m) == \A n \in 1..m : units[n].at # FrameLen

LEMMA DecodesExist ==
  ASSUME NEW d, NEW units, NEW m \in Nat
  PROVE  \E g : DecodesTo(d, units, m, g)
<1> DEFINE S == {n \in Nat : \E g : DecodesTo(d, units, n, g)}
<1>1. 0 \in S
  <2> DEFINE g == [n \in 0..0 |-> d]
  <2>1. g = [n \in 0..0 |-> IF n = 0 THEN d ELSE Pushed(g[n - 1], units[n])]
    OBVIOUS
  <2> QED BY <2>1 DEF DecodesTo
<1>2. ASSUME NEW n \in S PROVE n + 1 \in S
  <2>1. PICK g : DecodesTo(d, units, n, g)
    OBVIOUS
  <2> DEFINE last == Pushed(g[n], units[n + 1])
             h == [k \in 0..(n + 1) |-> IF k = n + 1 THEN last ELSE g[k]]
  <2>2. ASSUME NEW k \in 0..(n + 1)
        PROVE  h[k] = IF k = 0 THEN d ELSE Pushed(h[k - 1], units[k])
    <3>1. CASE k = n + 1
      <4>1. k \in 0..(n + 1) /\ k # 0 /\ k - 1 = n /\ n \in 0..(n + 1) /\ n # n + 1
        BY <3>1
      <4>2. h[k] = last /\ h[k - 1] = g[n]
        BY <3>1, <4>1
      <4> QED BY <3>1, <4>1, <4>2
    <3>2. CASE k # n + 1
      <4>1. k \in 0..n /\ h[k] = g[k] /\ (k # 0 => h[k - 1] = g[k - 1])
        BY <3>2
      <4> HIDE DEF h
      <4>2. g[k] = IF k = 0 THEN d ELSE Pushed(g[k - 1], units[k])
        BY <2>1, <4>1 DEF DecodesTo
      <4> QED BY <4>1, <4>2
    <3> QED BY <3>1, <3>2
  <2>3. h = [k \in 0..(n + 1) |-> IF k = 0 THEN d ELSE Pushed(h[k - 1], units[k])]
    <3>1. h = [k \in 0..(n + 1) |-> h[k]]
      OBVIOUS
    <3> HIDE DEF h
    <3> QED BY <2>2, <3>1
  <2>4. DecodesTo(d, units, n + 1, h)
    <3> HIDE DEF h
    <3> QED BY <2>3 DEF DecodesTo
  <2> QED BY <2>4
<1> HIDE DEF S
<1>3. S = Nat
  <2>1. S \in SUBSET Nat
    BY DEF S
  <2> QED BY <1>1, <1>2, <2>1, Induct
<1> QED BY <1>3 DEF S

LEMMA DecodedBy ==
  ASSUME NEW d, NEW units, Len(units) \in Nat
  PROVE  \E g : Pushes(d, units, Len(units), g) /\ g[Len(units)] = Decoded(d, units)
<1> DEFINE g == CHOOSE g : DecodesTo(d, units, Len(units), g)
<1>1. DecodesTo(d, units, Len(units), g)
  BY DecodesExist
<1>2. Decoded(d, units) = g[Len(units)]
  BY DEF Decoded, DecodesTo
<1> HIDE DEF g
<1>3. g = [n \in 0..Len(units) |-> IF n = 0 THEN d ELSE Pushed(g[n - 1], units[n])]
  BY <1>1 DEF DecodesTo
<1>4. \A n \in 0..Len(units) : g[n] = IF n = 0 THEN d ELSE Pushed(g[n - 1], units[n])
  BY <1>3, Zenon
<1>5. 0 \in 0..Len(units) /\ \A n \in 1..Len(units) : n \in 0..Len(units) /\ n # 0
  OBVIOUS
<1>6. Pushes(d, units, Len(units), g)
  BY <1>4, <1>5, Zenon DEF Pushes
<1> QED BY <1>2, <1>6

\* A unit that ends no frame completes none: the window slides over it.
LEMMA PushedInside ==
  ASSUME FrameLen \in Nat \ {0}, NEW d, DecoderOK(d), NEW u, u.at # FrameLen,
         NEW e, e = Pushed(d, u), NEW n, n = Len(d.buf)
  PROVE  /\ DecoderOK(e) /\ e.out = d.out
         /\ \/ /\ n + 1 < FrameLen /\ Len(e.buf) = n + 1
               /\ e.buf[n + 1] = u /\ \A i \in 1..n : e.buf[i] = d.buf[i]
            \/ /\ n + 1 = FrameLen /\ Len(e.buf) = n
               /\ \A i \in 1..n : e.buf[i] = IF i = n THEN u ELSE d.buf[i + 1]
<1> DEFINE b == Append(d.buf, u)
<1>1. /\ b \in Seq(ToSet(b)) /\ Len(b) = n + 1 /\ n \in Nat /\ b[n + 1] = u
      /\ \A i \in 1..n : b[i] = d.buf[i]
  BY AppendFacts DEF DecoderOK
<1>2. n < FrameLen /\ d = [buf |-> d.buf, out |-> d.out]
  BY DEF DecoderOK
<1>3. e = IF Len(b) < FrameLen THEN [d EXCEPT !.buf = b]
          ELSE IF IsFrame(SubSeq(b, 1, FrameLen))
               THEN [buf |-> SubSeq(b, FrameLen + 1, Len(b)), out |-> Append(d.out, b[1].frame)]
               ELSE [d EXCEPT !.buf = Tail(b)]
  BY DEF Pushed
<1> HIDE DEF b
<1>4. CASE n + 1 < FrameLen
  <2>1. e = [buf |-> b, out |-> d.out]
    BY <1>1, <1>2, <1>3, <1>4
  <2> QED BY <1>1, <1>2, <1>4, <2>1 DEF DecoderOK
<1>5. CASE n + 1 = FrameLen
  <2>1. SubSeq(b, 1, FrameLen) = b
    BY <1>1, <1>5
  <2>2. ~ IsFrame(b)
    <3> SUFFICES ASSUME IsFrame(b) PROVE FALSE
      OBVIOUS
    <3>1. b[FrameLen] = FrameUnits(b[1].frame)[FrameLen]
      BY DEF IsFrame
    <3>2. FrameUnits(b[1].frame)[FrameLen].at = FrameLen
      BY DEF FrameUnits
    <3> QED BY <1>1, <1>5, <3>1, <3>2
  <2>3. e = [buf |-> Tail(b), out |-> d.out]
    <3>1. ~ (Len(b) < FrameLen)
      BY <1>1, <1>5
    <3>2. ~ IsFrame(SubSeq(b, 1, FrameLen))
      BY <2>1, <2>2
    <3>3. e = [d EXCEPT !.buf = Tail(b)]
      BY <1>3, <3>1, <3>2, Zenon
    <3> QED BY <1>2, <3>3
  <2>4. /\ Tail(b) \in Seq(ToSet(b)) /\ Len(Tail(b)) = n
        /\ \A i \in 1..n : Tail(b)[i] = b[i + 1]
    BY <1>1
  <2>5. Tail(b) \in Seq(ToSet(Tail(b)))
    BY <2>4, SeqOfOwn
  <2>6. ASSUME NEW i \in 1..n PROVE Tail(b)[i] = IF i = n THEN u ELSE d.buf[i + 1]
    <3>1. n \in Nat /\ Tail(b)[i] = b[i + 1]
      BY <1>1, <2>4
    <3>2. i = n \/ i + 1 \in 1..n
      BY <3>1
    <3> QED BY <1>1, <3>1, <3>2
  <2>7. DecoderOK(e) /\ e.out = d.out /\ e.buf = Tail(b)
    BY <1>1, <1>5, <2>3, <2>4, <2>5 DEF DecoderOK
  <2> QED BY <1>5, <2>4, <2>6, <2>7
<1> QED BY <1>1, <1>2, <1>4, <1>5

\* While no unit ends a frame nothing is handed out, and the latest are kept.
LEMMA Buffered ==
  ASSUME FrameLen \in Nat \ {0}, NEW d, DecoderOK(d), NEW units, NEW g, NEW N \in Nat,
         Pushes(d, units, N, g), Inside(units, N)
  PROVE  DecoderOK(g[N]) /\ g[N].out = d.out /\ Latest(g[N].buf, units, N)
<1> DEFINE S == {n \in Nat : n <= N =>
                   DecoderOK(g[n]) /\ g[n].out = d.out /\ Latest(g[n].buf, units, n)}
<1>0. /\ g[0] = d /\ \A n \in 1..N : g[n] = Pushed(g[n - 1], units[n])
      /\ \A n \in 1..N : units[n].at # FrameLen
  BY DEF Pushes, Inside
<1>1. 0 \in S
  <2>1. Len(d.buf) \in Nat
    BY DEF DecoderOK
  <2>2. Latest(d.buf, units, 0)
    BY <2>1 DEF Latest
  <2> QED BY <1>0, <2>2
<1>2. ASSUME NEW n \in S PROVE n + 1 \in S
  <2> SUFFICES ASSUME n + 1 <= N
               PROVE  /\ DecoderOK(g[n + 1]) /\ g[n + 1].out = d.out
                      /\ Latest(g[n + 1].buf, units, n + 1)
    OBVIOUS
  <2>1. n \in Nat /\ n + 1 \in 1..N /\ (n + 1) - 1 = n
    OBVIOUS
  <2>2. DecoderOK(g[n]) /\ g[n].out = d.out /\ Latest(g[n].buf, units, n)
    BY <2>1
  <2>3. PICK c : c = g[n]
    OBVIOUS
  <2>4. PICK u : u = units[n + 1]
    OBVIOUS
  <2>5. PICK e : e = g[n + 1]
    OBVIOUS
  <2>6. PICK b : b = c.buf
    OBVIOUS
  <2>7. PICK w : w = e.buf
    OBVIOUS
  <2>8. e = Pushed(c, u) /\ u.at # FrameLen
    BY <1>0, <2>1, <2>3, <2>4, <2>5
  <2>9. PICK k : k = Len(b)
    OBVIOUS
  <2>10. /\ DecoderOK(e) /\ e.out = c.out
         /\ \/ /\ k + 1 < FrameLen /\ Len(w) = k + 1
               /\ w[k + 1] = u /\ \A i \in 1..k : w[i] = b[i]
            \/ /\ k + 1 = FrameLen /\ Len(w) = k
               /\ \A i \in 1..k : w[i] = IF i = k THEN u ELSE b[i + 1]
    <3>1. DecoderOK(c) /\ k = Len(c.buf)
      BY <2>2, <2>3, <2>6, <2>9
    <3>2. /\ DecoderOK(e) /\ e.out = c.out
          /\ \/ /\ k + 1 < FrameLen /\ Len(e.buf) = k + 1
                /\ e.buf[k + 1] = u /\ \A i \in 1..k : e.buf[i] = c.buf[i]
             \/ /\ k + 1 = FrameLen /\ Len(e.buf) = k
                /\ \A i \in 1..k : e.buf[i] = IF i = k THEN u ELSE c.buf[i + 1]
      BY <2>8, <3>1, PushedInside
    <3> QED BY <2>6, <2>7, <3>2
  <2>11. k \in Nat /\ (k >= n \/ k = FrameLen - 1)
         /\ \A i \in 1..k : k - i < n => b[i] = units[n - (k - i)]
    BY <2>2, <2>3, <2>6, <2>9 DEF Latest, DecoderOK
  <2>12. Latest(w, units, n + 1)
    <3>1. CASE /\ k + 1 < FrameLen /\ Len(w) = k + 1
               /\ w[k + 1] = u /\ \A i \in 1..k : w[i] = b[i]
      <4>1. ASSUME NEW i \in 1..(k + 1), (k + 1) - i < n + 1
            PROVE  w[i] = units[(n + 1) - ((k + 1) - i)]
        <5>1. CASE i = k + 1
          BY <2>1, <2>4, <2>11, <3>1, <5>1
        <5>2. CASE i # k + 1
          <6>1. i \in 1..k /\ k - i < n /\ (n + 1) - ((k + 1) - i) = n - (k - i)
            BY <2>1, <2>11, <4>1, <5>2
          <6>2. w[i] = b[i] /\ b[i] = units[n - (k - i)]
            BY <2>11, <3>1, <6>1
          <6> QED BY <6>1, <6>2
        <5> QED BY <5>1, <5>2
      <4>2. k + 1 >= n + 1 \/ k + 1 = FrameLen - 1
        BY <2>1, <2>11, <3>1
      <4> QED BY <3>1, <4>1, <4>2 DEF Latest
    <3>2. CASE /\ k + 1 = FrameLen /\ Len(w) = k
               /\ \A i \in 1..k : w[i] = IF i = k THEN u ELSE b[i + 1]
      <4>1. ASSUME NEW i \in 1..k, k - i < n + 1 PROVE w[i] = units[(n + 1) - (k - i)]
        <5>1. CASE i = k
          BY <2>1, <2>4, <2>11, <3>2, <5>1
        <5>2. CASE i # k
          <6>1. i + 1 \in 1..k /\ k - (i + 1) < n /\ (n + 1) - (k - i) = n - (k - (i + 1))
            BY <2>1, <2>11, <4>1, <5>2
          <6>2. w[i] = b[i + 1] /\ b[i + 1] = units[n - (k - (i + 1))]
            BY <2>11, <3>2, <5>2, <6>1
          <6> QED BY <6>1, <6>2
        <5> QED BY <5>1, <5>2
      <4>2. k = FrameLen - 1
        BY <2>11, <3>2
      <4> QED BY <3>2, <4>1, <4>2 DEF Latest
    <3> QED BY <2>10, <3>1, <3>2
  <2> QED BY <2>2, <2>3, <2>5, <2>7, <2>10, <2>12
<1>3. S = Nat
  <2>1. S \in SUBSET Nat
    OBVIOUS
  <2> HIDE DEF S
  <2> QED BY <1>1, <1>2, <2>1, Induct
<1>4. N \in S /\ N <= N
  BY <1>3
<1> QED BY <1>4

\* Units none of which ends a frame change nothing handed out.
LEMMA DecodedInside ==
  ASSUME FrameLen \in Nat \ {0}, NEW d, DecoderOK(d), NEW units, Len(units) \in Nat,
         Inside(units, Len(units))
  PROVE  DecoderOK(Decoded(d, units)) /\ Decoded(d, units).out = d.out
<1>1. PICK g : Pushes(d, units, Len(units), g) /\ g[Len(units)] = Decoded(d, units)
  BY DecodedBy
<1>2. PICK N : N = Len(units)
  OBVIOUS
<1>3. N \in Nat /\ Pushes(d, units, N, g) /\ Inside(units, N)
  BY <1>1, <1>2
<1>4. DecoderOK(g[N]) /\ g[N].out = d.out
  BY <1>3, Buffered
<1> QED BY <1>1, <1>2, <1>4

\* The last unit of a frame that came whole completes it, whatever came before.
LEMMA DecodedWhole ==
  ASSUME FrameLen \in Nat \ {0}, NEW d, DecoderOK(d), NEW f, NEW units, NEW p \in Nat,
         Len(units) = p + FrameLen,
         Inside(units, p),
         \A k \in 1..FrameLen : units[p + k] = FrameUnits(f)[k]
  PROVE  DecoderOK(Decoded(d, units)) /\ Decoded(d, units).out = Append(d.out, f)
<1>1. PICK N : N = p + FrameLen - 1
  OBVIOUS
<1>2. N \in Nat /\ Len(units) = N + 1 /\ N + 1 \in Nat /\ FrameLen - 1 \in Nat
  BY <1>1
<1>0. PICK g : Pushes(d, units, Len(units), g) /\ g[Len(units)] = Decoded(d, units)
  <2>1. Len(units) \in Nat
    OBVIOUS
  <2> QED BY <2>1, DecodedBy
<1>3. /\ g[0] = d /\ g[N + 1] = Decoded(d, units)
      /\ \A n \in 1..(N + 1) : g[n] = Pushed(g[n - 1], units[n])
  BY <1>0, <1>2 DEF Pushes
<1>4. \A k \in 1..FrameLen : FrameUnits(f)[k] = [frame |-> f, at |-> k]
  BY DEF FrameUnits
<1>5. ASSUME NEW n \in 1..N PROVE units[n].at # FrameLen
  <2>1. CASE n \in 1..p
    BY <2>1 DEF Inside
  <2>2. CASE n \notin 1..p
    <3>1. n - p \in 1..FrameLen /\ n - p # FrameLen /\ p + (n - p) = n
      BY <1>1, <2>2
    <3>2. units[p + (n - p)] = FrameUnits(f)[n - p]
      BY <3>1
    <3>3. units[n] = [frame |-> f, at |-> n - p]
      BY <1>4, <3>1, <3>2
    <3> QED BY <3>1, <3>3
  <2> QED BY <2>1, <2>2
<1>6. Pushes(d, units, N, g) /\ Inside(units, N)
  BY <1>2, <1>3, <1>5 DEF Pushes, Inside
<1>7. DecoderOK(g[N]) /\ g[N].out = d.out /\ Latest(g[N].buf, units, N)
  BY <1>2, <1>6, Buffered
<1>8. PICK c : c = g[N]
  OBVIOUS
<1>9. PICK b : b = c.buf
  OBVIOUS
<1>10. /\ b \in Seq(ToSet(b)) /\ Len(b) = FrameLen - 1 /\ c = [buf |-> b, out |-> d.out]
  BY <1>1, <1>2, <1>7, <1>8, <1>9 DEF DecoderOK, Latest
<1>11. ASSUME NEW i \in 1..(FrameLen - 1) PROVE b[i] = FrameUnits(f)[i]
  <2>1. /\ i \in 1..Len(b) /\ Len(b) - i < N /\ N - (Len(b) - i) = p + i
        /\ i \in 1..FrameLen
    BY <1>1, <1>10
  <2>2. b[i] = units[N - (Len(b) - i)]
    BY <1>7, <1>8, <1>9, <2>1 DEF Latest
  <2> QED BY <2>1, <2>2
<1>12. units[N + 1] = FrameUnits(f)[FrameLen]
  <2>1. N + 1 = p + FrameLen /\ FrameLen \in 1..FrameLen
    BY <1>1
  <2> QED BY <2>1
<1>13. PICK u : u = FrameUnits(f)[FrameLen]
  OBVIOUS
<1>14. g[N + 1] = Pushed(c, u)
  <2>1. N + 1 \in 1..(N + 1) /\ (N + 1) - 1 = N
    BY <1>2
  <2>2. g[N + 1] = Pushed(g[(N + 1) - 1], units[N + 1])
    BY <1>3, <2>1
  <2> QED BY <1>8, <1>12, <1>13, <2>1, <2>2
<1>15. PICK w : w = Append(b, u)
  OBVIOUS
<1>16. /\ w \in Seq(ToSet(w)) /\ Len(w) = FrameLen
       /\ \A i \in 1..FrameLen : w[i] = FrameUnits(f)[i]
  <2>1. /\ w \in Seq(ToSet(w)) /\ Len(w) = Len(b) + 1 /\ w[Len(b) + 1] = u
        /\ \A i \in 1..Len(b) : w[i] = b[i]
    BY <1>10, <1>15, AppendFacts
  <2>2. Len(b) + 1 = FrameLen
    BY <1>10
  <2> QED BY <1>10, <1>11, <1>13, <2>1, <2>2
<1>17. w = FrameUnits(f)
  <2>1. FrameUnits(f) = [i \in 1..FrameLen |-> FrameUnits(f)[i]]
    BY DEF FrameUnits
  <2>2. FrameUnits(f) \in Seq(ToSet(FrameUnits(f))) /\ Len(FrameUnits(f)) = FrameLen
    BY <2>1, SeqOfFcn
  <2> QED BY <1>16, <2>2, SameSeq
<1>18. w[1].frame = f /\ SubSeq(w, 1, FrameLen) = w /\ IsFrame(w)
  <2>1. 1 \in 1..FrameLen
    OBVIOUS
  <2>2. w[1].frame = f
    <3>1. w[1] = FrameUnits(f)[1]
      BY <1>16, <2>1
    <3>2. FrameUnits(f)[1] = [frame |-> f, at |-> 1]
      BY <1>4, <2>1
    <3> QED BY <3>1, <3>2
  <2>3. SubSeq(w, 1, FrameLen) = w
    BY <1>16
  <2> QED BY <1>17, <2>2, <2>3 DEF IsFrame
<1>19. SubSeq(w, FrameLen + 1, Len(w)) = << >>
  BY <1>16
<1>20. Pushed(c, u) = [buf |-> << >>, out |-> Append(d.out, f)]
  <2>1. c.buf = b /\ c.out = d.out
    BY <1>10
  <2>2. ~ (Len(w) < FrameLen)
    BY <1>16
  <2> QED BY <1>15, <1>18, <1>19, <2>1, <2>2 DEF Pushed
<1>21. DecoderOK([buf |-> << >>, out |-> Append(d.out, f)])
  BY DEF DecoderOK
<1> QED BY <1>3, <1>14, <1>20, <1>21

-----------------------------------------------------------------------------
(***************************************************************************)
(* What a try to send writes.                                              *)
(***************************************************************************)

LEMMA ConcatFacts ==
  ASSUME NEW s, s \in Seq(ToSet(s)), NEW t, t \in Seq(ToSet(t))
  PROVE  /\ s \o t \in Seq(ToSet(s \o t))
         /\ Len(s \o t) = Len(s) + Len(t) /\ Len(s) \in Nat /\ Len(t) \in Nat
         /\ \A i \in 1..Len(s) : (s \o t)[i] = s[i]
         /\ \A i \in 1..Len(t) : (s \o t)[Len(s) + i] = t[i]
<1> DEFINE T == ToSet(s) \cup ToSet(t)
<1>1. s \in Seq(T) /\ t \in Seq(T)
  OBVIOUS
<1> HIDE DEF T
<1>2. /\ s \o t \in Seq(T) /\ Len(s \o t) = Len(s) + Len(t)
      /\ \A i \in 1..(Len(s) + Len(t)) :
           (s \o t)[i] = IF i <= Len(s) THEN s[i] ELSE t[i - Len(s)]
  BY <1>1, ConcatProperties
<1>3. Len(s) \in Nat /\ Len(t) \in Nat
  BY <1>1
<1>4. \A i \in 1..Len(t) : (Len(s) + i) - Len(s) = i /\ Len(s) + i \in 1..(Len(s) + Len(t))
  BY <1>3
<1>5. \A i \in 1..Len(t) : (s \o t)[Len(s) + i] = t[i]
  <2> SUFFICES ASSUME NEW i \in 1..Len(t) PROVE (s \o t)[Len(s) + i] = t[i]
    OBVIOUS
  <2>1. ~ (Len(s) + i <= Len(s))
    BY <1>3
  <2>2. (s \o t)[Len(s) + i] = t[(Len(s) + i) - Len(s)]
    BY <1>2, <1>4, <2>1
  <2> QED BY <1>4, <2>2
<1>6. \A i \in 1..Len(s) : (s \o t)[i] = s[i]
  BY <1>2, <1>3
<1> QED BY <1>2, <1>3, <1>5, <1>6, SeqOfOwn

\* g holds what is out after each of the first m cut writes.
CutsTo(f, cuts, m, g) ==
  g = [n \in 0..m |-> IF n = 0 THEN << >> ELSE g[n - 1] \o SubSeq(FrameUnits(f), 1, cuts[n])]

LEMMA CutsExist ==
  ASSUME NEW f, NEW cuts, NEW m \in Nat
  PROVE  \E g : CutsTo(f, cuts, m, g)
<1> DEFINE S == {n \in Nat : \E g : CutsTo(f, cuts, n, g)}
<1>1. 0 \in S
  <2> DEFINE g == [n \in 0..0 |-> << >>]
  <2>1. g = [n \in 0..0 |-> IF n = 0 THEN << >> ELSE g[n - 1] \o SubSeq(FrameUnits(f), 1, cuts[n])]
    OBVIOUS
  <2> QED BY <2>1 DEF CutsTo
<1>2. ASSUME NEW n \in S PROVE n + 1 \in S
  <2>1. PICK g : CutsTo(f, cuts, n, g)
    OBVIOUS
  <2> DEFINE last == g[n] \o SubSeq(FrameUnits(f), 1, cuts[n + 1])
             h == [k \in 0..(n + 1) |-> IF k = n + 1 THEN last ELSE g[k]]
  <2>2. ASSUME NEW k \in 0..(n + 1)
        PROVE  h[k] = IF k = 0 THEN << >> ELSE h[k - 1] \o SubSeq(FrameUnits(f), 1, cuts[k])
    <3>1. CASE k = n + 1
      <4>1. k \in 0..(n + 1) /\ k # 0 /\ k - 1 = n /\ n \in 0..(n + 1) /\ n # n + 1
        BY <3>1
      <4>2. h[k] = last /\ h[k - 1] = g[n]
        BY <3>1, <4>1
      <4> QED BY <3>1, <4>1, <4>2
    <3>2. CASE k # n + 1
      <4>1. k \in 0..n /\ h[k] = g[k] /\ (k # 0 => h[k - 1] = g[k - 1])
        BY <3>2
      <4> HIDE DEF h
      <4>2. g[k] = IF k = 0 THEN << >> ELSE g[k - 1] \o SubSeq(FrameUnits(f), 1, cuts[k])
        BY <2>1, <4>1 DEF CutsTo
      <4> QED BY <4>1, <4>2
    <3> QED BY <3>1, <3>2
  <2>3. h = [k \in 0..(n + 1) |->
               IF k = 0 THEN << >> ELSE h[k - 1] \o SubSeq(FrameUnits(f), 1, cuts[k])]
    <3>1. h = [k \in 0..(n + 1) |-> h[k]]
      OBVIOUS
    <3> HIDE DEF h
    <3> QED BY <2>2, <3>1
  <2>4. CutsTo(f, cuts, n + 1, h)
    <3> HIDE DEF h
    <3> QED BY <2>3 DEF CutsTo
  <2> QED BY <2>4
<1> HIDE DEF S
<1>3. S = Nat
  <2>1. S \in SUBSET Nat
    BY DEF S
  <2> QED BY <1>1, <1>2, <2>1, Induct
<1> QED BY <1>3 DEF S

\* Cut writes put out no frame's last unit.
LEMMA CutsInside ==
  ASSUME FrameLen \in Nat \ {0}, NEW f, NEW cuts, NEW m \in Nat,
         cuts \in [1..m -> 0..(FrameLen - 1)], NEW g, CutsTo(f, cuts, m, g)
  PROVE  g[m] \in Seq(ToSet(g[m])) /\ Inside(g[m], Len(g[m]))
<1> DEFINE S == {n \in Nat : n <= m => g[n] \in Seq(ToSet(g[n])) /\ Inside(g[n], Len(g[n]))}
           U == FrameUnits(f)
<1>1. g = [n \in 0..m |-> IF n = 0 THEN << >> ELSE g[n - 1] \o SubSeq(U, 1, cuts[n])]
  BY DEF CutsTo
<1>2. U \in Seq(ToSet(U)) /\ Len(U) = FrameLen /\ \A k \in 1..FrameLen : U[k].at = k
  <2>1. U = [i \in 1..FrameLen |-> U[i]] /\ FrameLen \in Nat
    BY DEF FrameUnits
  <2>2. \A k \in 1..FrameLen : U[k].at = k
    BY DEF FrameUnits
  <2> HIDE DEF U
  <2> QED BY <2>1, <2>2, SeqOfFcn
<1> HIDE DEF U
<1>3. \A n \in 0..m : g[n] = IF n = 0 THEN << >> ELSE g[n - 1] \o SubSeq(U, 1, cuts[n])
  BY <1>1, Zenon
<1>4. 0 \in S
  <2>1. g[0] = << >>
    BY <1>3
  <2>2. Inside(<< >>, Len(<< >>))
    BY DEF Inside
  <2>3. << >> \in Seq(ToSet(<< >>))
    OBVIOUS
  <2> QED BY <2>1, <2>2, <2>3
<1>5. ASSUME NEW n \in S PROVE n + 1 \in S
  <2> SUFFICES ASSUME n + 1 <= m
               PROVE  g[n + 1] \in Seq(ToSet(g[n + 1])) /\ Inside(g[n + 1], Len(g[n + 1]))
    OBVIOUS
  <2>1. PICK a : a = g[n]
    OBVIOUS
  <2>2. PICK c : c = cuts[n + 1]
    OBVIOUS
  <2>3. PICK b : b = SubSeq(U, 1, c)
    OBVIOUS
  <2>4. n + 1 \in 0..m /\ n + 1 # 0 /\ (n + 1) - 1 = n /\ n + 1 \in 1..m /\ n \in Nat /\ n <= m
    OBVIOUS
  <2>5. c \in 0..(FrameLen - 1)
    BY <2>2, <2>4
  <2>6. g[n + 1] = a \o b
    <3>1. g[n + 1] = g[(n + 1) - 1] \o SubSeq(U, 1, cuts[n + 1])
      BY <1>3, <2>4
    <3> QED BY <2>1, <2>2, <2>3, <2>4, <3>1
  <2>7. a \in Seq(ToSet(a)) /\ Inside(a, Len(a))
    BY <2>1, <2>4
  <2>8. b \in Seq(ToSet(b)) /\ Len(b) = c /\ \A k \in 1..c : b[k] = U[k]
    <3>1. c \in 0..Len(U)
      BY <1>2, <2>5
    <3>2. b \in Seq(ToSet(U)) /\ Len(b) = c /\ \A k \in 1..c : b[k] = U[k]
      BY <1>2, <2>3, <3>1, PrefixFacts
    <3> QED BY <3>2, SeqOfOwn
  <2>9. /\ a \o b \in Seq(ToSet(a \o b)) /\ Len(a \o b) = Len(a) + c /\ Len(a) \in Nat
        /\ \A i \in 1..Len(a) : (a \o b)[i] = a[i]
        /\ \A i \in 1..c : (a \o b)[Len(a) + i] = b[i]
    <3>1. /\ a \o b \in Seq(ToSet(a \o b)) /\ Len(a \o b) = Len(a) + Len(b) /\ Len(a) \in Nat
          /\ \A i \in 1..Len(a) : (a \o b)[i] = a[i]
          /\ \A i \in 1..Len(b) : (a \o b)[Len(a) + i] = b[i]
      <4>1. a \in Seq(ToSet(a))
        BY <2>7
      <4>2. b \in Seq(ToSet(b))
        BY <2>8
      <4>3. a \o b \in Seq(ToSet(a \o b))
        BY <4>1, <4>2, ConcatFacts
      <4>4. Len(a \o b) = Len(a) + Len(b) /\ Len(a) \in Nat
        BY <4>1, <4>2, ConcatFacts
      <4>5. \A i \in 1..Len(a) : (a \o b)[i] = a[i]
        BY <4>1, <4>2, ConcatFacts
      <4>6. \A i \in 1..Len(b) : (a \o b)[Len(a) + i] = b[i]
        BY <4>1, <4>2, ConcatFacts
      <4> QED BY <4>3, <4>4, <4>5, <4>6
    <3> QED BY <2>8, <3>1
  <2>10. ASSUME NEW i \in 1..(Len(a) + c) PROVE (a \o b)[i].at # FrameLen
    <3>1. CASE i \in 1..Len(a)
      BY <2>7, <2>9, <3>1 DEF Inside
    <3>2. CASE i \notin 1..Len(a)
      <4>1. i - Len(a) \in 1..c /\ Len(a) + (i - Len(a)) = i
        BY <2>5, <2>9, <3>2
      <4>2. (a \o b)[i] = b[i - Len(a)]
        BY <2>9, <4>1
      <4>3. i - Len(a) \in 1..FrameLen /\ i - Len(a) # FrameLen
        BY <2>5, <4>1
      <4> QED BY <1>2, <2>8, <4>1, <4>2, <4>3
    <3> QED BY <3>1, <3>2
  <2> QED BY <2>6, <2>9, <2>10 DEF Inside
<1>6. S = Nat
  <2>1. S \in SUBSET Nat
    OBVIOUS
  <2> HIDE DEF S
  <2> QED BY <1>4, <1>5, <2>1, Induct
<1>7. m \in S /\ m <= m
  BY <1>6
<1> QED BY <1>7

\* A try hands out its frame if it was written in full, and else nothing.
LEMMA TriedDecodes ==
  ASSUME QuiltWireAssumption, CellFirmwareAssumption, NEW d, DecoderOK(d), NEW f,
         NEW attempt \in Attempts
  PROVE  /\ DecoderOK(Decoded(d, WireUnits(f, attempt)))
         /\ Decoded(d, WireUnits(f, attempt)).out = IF attempt[2] THEN Append(d.out, f) ELSE d.out
<1>0. PICK cuts : cuts = attempt[1]
  OBVIOUS
<1>1. PICK m \in Nat : cuts \in [1..m -> 0..(FrameLen - 1)]
  <2>1. /\ \A c \in SeqOf(ShortWrite, SendAttempts - 1) : \E m \in Nat : c \in [1..m -> ShortWrite]
        /\ \A c \in TupleOf(ShortWrite, SendAttempts) : \E m \in Nat : c \in [1..m -> ShortWrite]
    <3>1. SendAttempts \in Nat /\ \A n \in 0..(SendAttempts - 1) : n \in Nat
      BY DEF SendAttempts
    <3>2. TupleOf(ShortWrite, SendAttempts) = [1..SendAttempts -> ShortWrite]
      BY DEF TupleOf
    <3>3. SeqOf(ShortWrite, SendAttempts - 1) = UNION {[1..n -> ShortWrite] : n \in 0..(SendAttempts - 1)}
      BY DEF SeqOf
    <3> QED BY <3>1, <3>2, <3>3
  <2>2. \A m \in Nat : \A c \in [1..m -> ShortWrite] : c \in [1..m -> 0..(FrameLen - 1)]
    BY DEF CellFirmwareAssumption
  <2>3. cuts \in SeqOf(ShortWrite, SendAttempts - 1) \cup TupleOf(ShortWrite, SendAttempts)
    <3>1. attempt \in {<< c, TRUE >> : c \in SeqOf(ShortWrite, SendAttempts - 1)}
            \/ attempt \in {<< c, FALSE >> : c \in TupleOf(ShortWrite, SendAttempts)}
      BY DEF Attempts
    <3>2. CASE attempt \in {<< c, TRUE >> : c \in SeqOf(ShortWrite, SendAttempts - 1)}
      <4>1. PICK c \in SeqOf(ShortWrite, SendAttempts - 1) : attempt = << c, TRUE >>
        BY <3>2, Zenon
      <4>2. attempt[1] = c
        BY <4>1
      <4> QED BY <1>0, <4>2
    <3>3. CASE attempt \in {<< c, FALSE >> : c \in TupleOf(ShortWrite, SendAttempts)}
      <4>1. PICK c \in TupleOf(ShortWrite, SendAttempts) : attempt = << c, FALSE >>
        BY <3>3, Zenon
      <4>2. attempt[1] = c
        BY <4>1
      <4> QED BY <1>0, <4>2
    <3> QED BY <3>1, <3>2, <3>3
  <2> QED BY <2>1, <2>2, <2>3
<1>2. Len(cuts) = m /\ FrameLen \in Nat \ {0}
  <2>1. cuts \in Seq(0..(FrameLen - 1))
    BY <1>1
  <2> QED BY <1>1, <2>1 DEF QuiltWireAssumption
<1> DEFINE g == CHOOSE g : CutsTo(f, cuts, Len(cuts), g)
<1>3. CutsTo(f, cuts, Len(cuts), g)
  BY <1>1, <1>2, CutsExist
<1>4. WireUnits(f, attempt) = g[Len(cuts)] \o (IF attempt[2] THEN FrameUnits(f) ELSE << >>)
  BY <1>0 DEF WireUnits, CutsTo
<1> HIDE DEF g
<1>5. PICK a : a = g[Len(cuts)]
  OBVIOUS
<1>6. a \in Seq(ToSet(a)) /\ Inside(a, Len(a)) /\ Len(a) \in Nat
  <2>1. a \in Seq(ToSet(a)) /\ Inside(a, Len(a))
    BY <1>1, <1>2, <1>3, <1>5, CutsInside
  <2> QED BY <2>1
<1>7. CASE attempt[2]
  <2>1. WireUnits(f, attempt) = a \o FrameUnits(f)
    BY <1>4, <1>5, <1>7
  <2>2. FrameUnits(f) \in Seq(ToSet(FrameUnits(f))) /\ Len(FrameUnits(f)) = FrameLen
    <3>1. FrameUnits(f) = [i \in 1..FrameLen |-> FrameUnits(f)[i]] /\ FrameLen \in Nat
      BY <1>2 DEF FrameUnits
    <3> QED BY <3>1, SeqOfFcn
  <2>3. PICK w : w = a \o FrameUnits(f)
    OBVIOUS
  <2>4. PICK p : p = Len(a)
    OBVIOUS
  <2>5. /\ Len(w) = p + FrameLen /\ p \in Nat
        /\ \A i \in 1..p : w[i] = a[i]
        /\ \A i \in 1..FrameLen : w[p + i] = FrameUnits(f)[i]
    <3>1. PICK u : u = FrameUnits(f)
      OBVIOUS
    <3>2. /\ Len(a \o u) = Len(a) + Len(u) /\ Len(a) \in Nat
          /\ \A i \in 1..Len(a) : (a \o u)[i] = a[i]
          /\ \A i \in 1..Len(u) : (a \o u)[Len(a) + i] = u[i]
      BY <1>6, <2>2, <3>1, ConcatFacts
    <3> QED BY <2>2, <2>3, <2>4, <3>1, <3>2
  <2>6. Inside(w, p)
    BY <1>6, <2>4, <2>5 DEF Inside
  <2>7. DecoderOK(Decoded(d, w)) /\ Decoded(d, w).out = Append(d.out, f)
    BY <1>2, <2>5, <2>6, DecodedWhole
  <2> QED BY <1>7, <2>1, <2>3, <2>7
<1>8. CASE ~ attempt[2]
  <2>1. WireUnits(f, attempt) = a
    BY <1>4, <1>5, <1>6, <1>8
  <2>2. DecoderOK(Decoded(d, a)) /\ Decoded(d, a).out = d.out
    BY <1>2, <1>6, DecodedInside
  <2> QED BY <1>8, <2>1, <2>2
<1> QED BY <1>7, <1>8

-----------------------------------------------------------------------------
(***************************************************************************)
(* What has been sent.                                                     *)
(***************************************************************************)

\* g holds the frames sent by each of the first m tries.
SendsTo(ts, m, g) ==
  g = [n \in 0..m |-> IF n = 0 THEN << >>
                      ELSE IF ts[n].sent THEN Append(g[n - 1], ts[n].frame) ELSE g[n - 1]]

SendStep(ts, n, s) == IF ts[n].sent THEN Append(s, ts[n].frame) ELSE s

LEMMA SendsExist ==
  ASSUME NEW ts, NEW m \in Nat
  PROVE  \E g : SendsTo(ts, m, g)
<1> DEFINE S == {n \in Nat : \E g : SendsTo(ts, n, g)}
<1>0. \A n, g : SendsTo(ts, n, g) <=>
        g = [k \in 0..n |-> IF k = 0 THEN << >> ELSE SendStep(ts, k, g[k - 1])]
  BY DEF SendsTo, SendStep
<1>1. 0 \in S
  <2> DEFINE g == [n \in 0..0 |-> << >>]
  <2>1. g = [k \in 0..0 |-> IF k = 0 THEN << >> ELSE SendStep(ts, k, g[k - 1])]
    OBVIOUS
  <2> HIDE DEF g
  <2> QED BY <1>0, <2>1
<1>2. ASSUME NEW n \in S PROVE n + 1 \in S
  <2>1. PICK g : SendsTo(ts, n, g)
    OBVIOUS
  <2>2. g = [k \in 0..n |-> IF k = 0 THEN << >> ELSE SendStep(ts, k, g[k - 1])]
    BY <1>0, <2>1
  <2> DEFINE last == SendStep(ts, n + 1, g[n])
             h == [k \in 0..(n + 1) |-> IF k = n + 1 THEN last ELSE g[k]]
  <2>3. ASSUME NEW k \in 0..(n + 1)
        PROVE  h[k] = IF k = 0 THEN << >> ELSE SendStep(ts, k, h[k - 1])
    <3>1. CASE k = n + 1
      <4>1. k \in 0..(n + 1) /\ k # 0 /\ k - 1 = n /\ n \in 0..(n + 1) /\ n # n + 1
        BY <3>1
      <4>2. h[k] = last /\ h[k - 1] = g[n]
        BY <3>1, <4>1
      <4> QED BY <3>1, <4>1, <4>2
    <3>2. CASE k # n + 1
      <4>1. k \in 0..n /\ h[k] = g[k] /\ (k # 0 => h[k - 1] = g[k - 1])
        BY <3>2
      <4> HIDE DEF h
      <4>2. g[k] = IF k = 0 THEN << >> ELSE SendStep(ts, k, g[k - 1])
        BY <2>2, <4>1
      <4> QED BY <4>1, <4>2
    <3> QED BY <3>1, <3>2
  <2>4. h = [k \in 0..(n + 1) |-> IF k = 0 THEN << >> ELSE SendStep(ts, k, h[k - 1])]
    <3>1. h = [k \in 0..(n + 1) |-> h[k]]
      OBVIOUS
    <3> HIDE DEF h
    <3> QED BY <2>3, <3>1
  <2> HIDE DEF h
  <2>5. SendsTo(ts, n + 1, h)
    BY <1>0, <2>4
  <2> QED BY <2>5
<1> HIDE DEF S
<1>3. S = Nat
  <2>1. S \in SUBSET Nat
    BY DEF S
  <2> QED BY <1>1, <1>2, <2>1, Induct
<1> QED BY <1>3 DEF S

LEMMA SentOfBy ==
  ASSUME NEW ts, Len(ts) \in Nat
  PROVE  \E g : /\ g[0] = << >> /\ g[Len(ts)] = SentOf(ts)
                /\ \A n \in 1..Len(ts) : g[n] = SendStep(ts, n, g[n - 1])
<1> DEFINE g == CHOOSE g : SendsTo(ts, Len(ts), g)
<1>1. SendsTo(ts, Len(ts), g)
  BY SendsExist
<1>2. SentOf(ts) = g[Len(ts)]
  BY DEF SentOf, SendsTo
<1> HIDE DEF g
<1>3. g = [n \in 0..Len(ts) |-> IF n = 0 THEN << >> ELSE SendStep(ts, n, g[n - 1])]
  BY <1>1 DEF SendsTo, SendStep
<1>4. \A n \in 0..Len(ts) : g[n] = IF n = 0 THEN << >> ELSE SendStep(ts, n, g[n - 1])
  BY <1>3, Zenon
<1>5. 0 \in 0..Len(ts) /\ \A n \in 1..Len(ts) : n \in 0..Len(ts) /\ n # 0
  OBVIOUS
<1>6. g[0] = << >> /\ \A n \in 1..Len(ts) : g[n] = SendStep(ts, n, g[n - 1])
  BY <1>4, <1>5, Zenon
<1> QED BY <1>2, <1>6

\* One more try, sent or not.
LEMMA SentOfAppend ==
  ASSUME NEW ts, ts \in Seq(ToSet(ts)), NEW e
  PROVE  SentOf(Append(ts, e)) = IF e.sent THEN Append(SentOf(ts), e.frame) ELSE SentOf(ts)
<1>1. PICK N : N = Len(ts)
  OBVIOUS
<1>2. PICK us : us = Append(ts, e)
  OBVIOUS
<1>3. /\ N \in Nat /\ Len(us) = N + 1 /\ us[N + 1] = e
      /\ \A i \in 1..N : us[i] = ts[i]
  BY <1>1, <1>2, AppendFacts
<1>4. PICK g : /\ g[0] = << >> /\ g[N] = SentOf(ts)
               /\ \A n \in 1..N : g[n] = SendStep(ts, n, g[n - 1])
  BY <1>1, <1>3, SentOfBy
<1>5. PICK h : /\ h[0] = << >> /\ h[N + 1] = SentOf(us)
               /\ \A n \in 1..(N + 1) : h[n] = SendStep(us, n, h[n - 1])
  <2>1. Len(us) \in Nat
    BY <1>3
  <2>2. PICK h : /\ h[0] = << >> /\ h[Len(us)] = SentOf(us)
                 /\ \A n \in 1..Len(us) : h[n] = SendStep(us, n, h[n - 1])
    BY <2>1, SentOfBy
  <2> QED BY <1>3, <2>2
<1> DEFINE S == {n \in Nat : n <= N => h[n] = g[n]}
<1>6. 0 \in S
  BY <1>4, <1>5
<1>7. ASSUME NEW n \in S PROVE n + 1 \in S
  <2> SUFFICES ASSUME n + 1 <= N PROVE h[n + 1] = g[n + 1]
    OBVIOUS
  <2>1. n + 1 \in 1..N /\ n + 1 \in 1..(N + 1) /\ (n + 1) - 1 = n /\ h[n] = g[n]
    BY <1>3
  <2>2. g[n + 1] = SendStep(ts, n + 1, g[n]) /\ h[n + 1] = SendStep(us, n + 1, h[n])
    BY <1>4, <1>5, <2>1
  <2>3. us[n + 1] = ts[n + 1]
    BY <1>3, <2>1
  <2> QED BY <2>1, <2>2, <2>3 DEF SendStep
<1>8. S = Nat
  <2>1. S \in SUBSET Nat
    OBVIOUS
  <2> HIDE DEF S
  <2> QED BY <1>6, <1>7, <2>1, Induct
<1>9. h[N] = g[N]
  <2>1. N \in S /\ N <= N
    BY <1>3, <1>8
  <2> QED BY <2>1
<1>10. h[N + 1] = SendStep(us, N + 1, h[N])
  <2>1. N + 1 \in 1..(N + 1) /\ (N + 1) - 1 = N
    BY <1>3
  <2> QED BY <1>5, <2>1
<1>11. SentOf(us) = SendStep(us, N + 1, SentOf(ts))
  BY <1>4, <1>5, <1>9, <1>10
<1> QED BY <1>2, <1>3, <1>11 DEF SendStep

DecodeInv ==
  /\ tried \in Seq(ToSet(tried))
  /\ DecoderOK(decoder) /\ decoder.out = SentOf(tried)

LEMMA TriedKeepsDecoded ==
  ASSUME QuiltWireAssumption, CellFirmwareAssumption, DecodeInv,
         NEW m, NEW f, NEW attempt \in Attempts, SendFrame(m, f, attempt)
  PROVE  DecodeInv'
<1>1. PICK e : e = [frame |-> f, sent |-> attempt[2]]
  OBVIOUS
<1>2. tried' = Append(tried, e) /\ decoder' = Decoded(decoder, WireUnits(f, attempt))
  BY <1>1 DEF SendFrame
<1>3. e.frame = f /\ e.sent = attempt[2]
  BY <1>1
<1>4. /\ DecoderOK(decoder')
      /\ decoder'.out = IF attempt[2] THEN Append(decoder.out, f) ELSE decoder.out
  BY <1>2, TriedDecodes DEF DecodeInv
<1>5. tried' \in Seq(ToSet(tried'))
  BY <1>2, AppendFacts DEF DecodeInv
<1>6. SentOf(tried') = IF e.sent THEN Append(SentOf(tried), e.frame) ELSE SentOf(tried)
  BY <1>2, SentOfAppend DEF DecodeInv
<1>7. decoder'.out = SentOf(tried')
  BY <1>3, <1>4, <1>6, Zenon DEF DecodeInv
<1> QED BY <1>4, <1>5, <1>7 DEF DecodeInv

LEMMA DecodeInit == QuiltWireAssumption /\ FirmwareInit => DecodeInv
<1> SUFFICES ASSUME QuiltWireAssumption, FirmwareInit PROVE DecodeInv
  OBVIOUS
<1>1. tried = << >> /\ decoder = [buf |-> << >>, out |-> << >>]
  BY DEF FirmwareInit, NewDecoder
<1>2. DecoderOK([buf |-> << >>, out |-> << >>])
  BY DEF DecoderOK, QuiltWireAssumption
<1>3. SentOf(<< >>) = << >>
  <2>1. Len(<< >>) = 0 /\ 0 \in Nat
    OBVIOUS
  <2>2. PICK g : g[0] = << >> /\ g[Len(<< >>)] = SentOf(<< >>)
    BY <2>1, SentOfBy
  <2> QED BY <2>1, <2>2
<1> QED BY <1>1, <1>2, <1>3 DEF DecodeInv

LEMMA DecodeStep ==
  ASSUME QuiltWireAssumption, CellFirmwareAssumption, DecodeInv,
         [FirmwareNext]_firmwareVars
  PROVE  DecodeInv'
<1>1. CASE Setup
  <2>1. PICK attempt \in Attempts : SendFrame(fw, CellFrame(fw, "linkmeta", 0), attempt)
    BY <1>1 DEF Setup
  <2> QED BY <2>1, TriedKeepsDecoded
<1>2. ASSUME NEW v \in Reading, Loop(v) PROVE DecodeInv'
  <2>1. CASE UNCHANGED << tried, decoder >>
    BY <2>1 DEF DecodeInv
  <2>2. CASE \E m, f : \E attempt \in Attempts : SendFrame(m, f, attempt)
    BY <2>2, TriedKeepsDecoded
  <2> QED BY <1>2, <2>1, <2>2 DEF Loop
<1>3. CASE LineNoise
  <2>1. PICK units : units = << Noise >>
    OBVIOUS
  <2>2. Len(units) = 1 /\ units[1] = Noise /\ Noise.at = 0
    BY <2>1 DEF Noise
  <2>3. Len(units) \in Nat /\ Inside(units, Len(units))
    BY <2>2 DEF Inside, QuiltWireAssumption
  <2>4. decoder' = Decoded(decoder, units) /\ tried' = tried
    BY <1>3, <2>1 DEF LineNoise
  <2>5. DecoderOK(decoder') /\ decoder'.out = decoder.out
    BY <2>3, <2>4, DecodedInside DEF DecodeInv, QuiltWireAssumption
  <2> QED BY <2>4, <2>5 DEF DecodeInv
<1>4. CASE UNCHANGED firmwareVars
  BY <1>4 DEF firmwareVars, DecodeInv
<1> QED BY <1>1, <1>2, <1>3, <1>4 DEF FirmwareNext

\* However long a frame is, wherever writes are cut short and whatever noise is
\* on the line, the decoder has handed out every frame written in full, in
\* order, as soon as its last byte is in, and nothing else (FrameDecoder::push).
THEOREM EverySentFrameAlwaysDecoded ==
  ASSUME QuiltWireAssumption, CellFirmwareAssumption
  PROVE  FirmwareInit /\ [][FirmwareNext]_firmwareVars => []EverySentFrameDecoded
<1>1. FirmwareInit => DecodeInv
  BY DecodeInit
<1>2. DecodeInv /\ [FirmwareNext]_firmwareVars => DecodeInv'
  BY DecodeStep
<1>3. DecodeInv => EverySentFrameDecoded
  BY DEF DecodeInv, EverySentFrameDecoded
<1> QED BY <1>1, <1>2, <1>3, PTL

-----------------------------------------------------------------------------
(***************************************************************************)
(* Dropped frames.                                                         *)
(***************************************************************************)

\* Numbers modulo SeqSpace go on from one another.
LEMMA NextNumber ==
  ASSUME QuiltWireAssumption, NEW n \in Nat
  PROVE  /\ n % SeqSpace \in 0..(SeqSpace - 1)
         /\ ((n % SeqSpace) + 1) % SeqSpace = (n + 1) % SeqSpace
<1> DEFINE x == n % SeqSpace
<1>1. SeqSpace \in Nat \ {0}
  BY DEF QuiltWireAssumption
<1>2. /\ x \in 0..(SeqSpace - 1)
      /\ (n + 1) % SeqSpace = IF x = SeqSpace - 1 THEN 0 ELSE x + 1
  BY <1>1, ModSucc
<1> HIDE DEF x
<1>3. x + 1 \in 0..(2 * SeqSpace - 1)
  BY <1>1, <1>2
<1>4. PICK y : y = x + 1
  OBVIOUS
<1>5. y % SeqSpace = IF y < SeqSpace THEN y ELSE y - SeqSpace
  BY <1>1, <1>3, <1>4, ModOnce
<1>6. y % SeqSpace = (n + 1) % SeqSpace
  BY <1>1, <1>2, <1>4, <1>5
<1>7. (x + 1) % SeqSpace = (n + 1) % SeqSpace
  BY <1>4, <1>6, Zenon
<1> QED BY <1>2, <1>7 DEF x

\* k numbers on is k forward.
LEMMA NumbersApart ==
  ASSUME QuiltWireAssumption, NEW a \in Nat, NEW k \in Nat
  PROVE  Forward(a % SeqSpace, (a + k) % SeqSpace) = k % SeqSpace
<1> DEFINE x == a % SeqSpace
           S == {n \in Nat : Forward(x, (a + n) % SeqSpace) = n % SeqSpace}
<1>1. SeqSpace \in Nat \ {0} /\ x \in 0..(SeqSpace - 1)
  BY NextNumber DEF QuiltWireAssumption
<1>2. 0 \in S
  <2>1. a + 0 = a
    OBVIOUS
  <2>2. Forward(x, x) = 0
    <3> HIDE DEF x
    <3>1. (x + SeqSpace - x) % SeqSpace = IF x < x THEN x + SeqSpace - x ELSE x - x
      BY <1>1, ForwardIs
    <3> QED BY <1>1, <3>1 DEF Forward
  <2>3. 0 % SeqSpace = 0
    BY <1>1
  <2>4. Forward(x, (a + 0) % SeqSpace) = 0 % SeqSpace
    BY <2>1, <2>2, <2>3
  <2> QED BY <2>4
<1>3. ASSUME NEW n \in S PROVE n + 1 \in S
  <2>1. PICK s : s = (a + n) % SeqSpace
    OBVIOUS
  <2>2. n \in Nat /\ a + n \in Nat /\ Forward(x, s) = n % SeqSpace
    BY <2>1
  <2>3. s \in 0..(SeqSpace - 1) /\ (s + 1) % SeqSpace = (a + n + 1) % SeqSpace
    BY <2>1, <2>2, NextNumber
  <2> HIDE DEF x
  <2>4. Forward(x, (s + 1) % SeqSpace) = (n + 1) % SeqSpace
    BY <1>1, <2>2, <2>3, ForwardSucc
  <2>5. a + (n + 1) = a + n + 1
    BY <2>2
  <2>6. Forward(x, (a + (n + 1)) % SeqSpace) = (n + 1) % SeqSpace
    BY <2>3, <2>4, <2>5
  <2> QED BY <2>2, <2>6
<1>4. S = Nat
  <2>1. S \in SUBSET Nat
    OBVIOUS
  <2> HIDE DEF S
  <2> QED BY <1>2, <1>3, <2>1, Induct
<1>5. k \in S
  BY <1>4
<1> QED BY <1>5

\* What the receiver counts between two frames less than half of all numbers apart.
LEMMA MissingBetween ==
  ASSUME QuiltWireAssumption, NEW a \in Nat, NEW k \in Nat \ {0}, k < SeqSpace \div 2
  PROVE  Missing(a % SeqSpace, (a + k) % SeqSpace) = k - 1
<1>1. a % SeqSpace \in 0..(SeqSpace - 1)
  BY NextNumber
<1>2. SeqSpace \in Nat \ {0} /\ SeqSpace \div 2 <= SeqSpace
  BY DEF QuiltWireAssumption
<1>3. k \in 0..(SeqSpace - 1)
  BY <1>2
<1>4. k % SeqSpace = k
  <2>1. k \in 0..(2 * SeqSpace - 1) /\ k < SeqSpace
    BY <1>2, <1>3
  <2> QED BY <1>2, <2>1, ModOnce
<1>5. Forward(a % SeqSpace, (a + k) % SeqSpace) = k
  BY <1>4, NumbersApart
<1>6. k \in 0..(SeqSpace \div 2 - 1)
  BY <1>2
<1>7. Missing(a % SeqSpace, (a + k) % SeqSpace) = IF k = 0 THEN 0 ELSE k - 1
  BY <1>1, <1>5, <1>6, GapOf
<1> QED BY <1>7

CountStep(out, n, c) == IF n <= 1 THEN 0 ELSE c + Missing(out[n - 1].seq, out[n].seq)

\* g holds what is counted over each of the first m frames.
CountsTo(out, m, g) ==
  g = [n \in 0..m |-> IF n <= 1 THEN 0 ELSE g[n - 1] + Missing(out[n - 1].seq, out[n].seq)]

LEMMA CountsExist ==
  ASSUME NEW out, NEW m \in Nat
  PROVE  \E g : CountsTo(out, m, g)
<1> DEFINE S == {n \in Nat : \E g : CountsTo(out, n, g)}
<1>0. \A n, g : CountsTo(out, n, g) <=> g = [k \in 0..n |-> CountStep(out, k, g[k - 1])]
  BY DEF CountsTo, CountStep
<1>1. 0 \in S
  <2> DEFINE g == [n \in 0..0 |-> 0]
  <2>1. g = [k \in 0..0 |-> CountStep(out, k, g[k - 1])]
    BY DEF CountStep
  <2> HIDE DEF g
  <2> QED BY <1>0, <2>1
<1>2. ASSUME NEW n \in S PROVE n + 1 \in S
  <2>1. PICK g : CountsTo(out, n, g)
    OBVIOUS
  <2>2. g = [k \in 0..n |-> CountStep(out, k, g[k - 1])]
    BY <1>0, <2>1
  <2> DEFINE last == CountStep(out, n + 1, g[n])
             h == [k \in 0..(n + 1) |-> IF k = n + 1 THEN last ELSE g[k]]
  <2>3. ASSUME NEW k \in 0..(n + 1) PROVE h[k] = CountStep(out, k, h[k - 1])
    <3>1. CASE k = n + 1
      <4>1. k \in 0..(n + 1) /\ k - 1 = n /\ n \in 0..(n + 1) /\ n # n + 1
        BY <3>1
      <4>2. h[k] = last /\ h[k - 1] = g[n]
        BY <3>1, <4>1
      <4> QED BY <3>1, <4>2
    <3>2. CASE k # n + 1
      <4>1. k \in 0..n /\ h[k] = g[k] /\ (k # 0 => h[k - 1] = g[k - 1])
        BY <3>2
      <4> HIDE DEF h
      <4>2. g[k] = CountStep(out, k, g[k - 1])
        BY <2>2, <4>1
      <4> QED BY <4>1, <4>2 DEF CountStep
    <3> QED BY <3>1, <3>2
  <2>4. h = [k \in 0..(n + 1) |-> CountStep(out, k, h[k - 1])]
    <3>1. h = [k \in 0..(n + 1) |-> h[k]]
      OBVIOUS
    <3> HIDE DEF h
    <3> QED BY <2>3, <3>1
  <2> HIDE DEF h
  <2>5. CountsTo(out, n + 1, h)
    BY <1>0, <2>4
  <2> QED BY <2>5
<1> HIDE DEF S
<1>3. S = Nat
  <2>1. S \in SUBSET Nat
    BY DEF S
  <2> QED BY <1>1, <1>2, <2>1, Induct
<1> QED BY <1>3 DEF S

LEMMA CountedBy ==
  ASSUME NEW out, Len(out) \in Nat
  PROVE  \E g : /\ g[Len(out)] = CountedMissing(out)
                /\ \A n \in 0..Len(out) : g[n] = CountStep(out, n, g[n - 1])
<1> DEFINE g == CHOOSE g : CountsTo(out, Len(out), g)
<1>1. CountsTo(out, Len(out), g)
  BY CountsExist
<1>2. CountedMissing(out) = g[Len(out)]
  BY DEF CountedMissing, CountsTo
<1> HIDE DEF g
<1>3. g = [n \in 0..Len(out) |-> CountStep(out, n, g[n - 1])]
  BY <1>1 DEF CountsTo, CountStep
<1>4. \A n \in 0..Len(out) : g[n] = CountStep(out, n, g[n - 1])
  BY <1>3, Zenon
<1> QED BY <1>2, <1>4

\* One more frame decoded.
LEMMA CountedAppend ==
  ASSUME NEW out, out \in Seq(ToSet(out)), NEW f
  PROVE  CountedMissing(Append(out, f)) =
           IF Len(out) = 0 THEN 0 ELSE CountedMissing(out) + Missing(out[Len(out)].seq, f.seq)
<1>1. PICK N : N = Len(out)
  OBVIOUS
<1>2. PICK us : us = Append(out, f)
  OBVIOUS
<1>3. /\ N \in Nat /\ Len(us) = N + 1 /\ us[N + 1] = f
      /\ \A i \in 1..N : us[i] = out[i]
  BY <1>1, <1>2, AppendFacts
<1>4. PICK g : /\ g[N] = CountedMissing(out)
               /\ \A n \in 0..N : g[n] = CountStep(out, n, g[n - 1])
  BY <1>1, <1>3, CountedBy
<1>5. PICK h : /\ h[N + 1] = CountedMissing(us)
               /\ \A n \in 0..(N + 1) : h[n] = CountStep(us, n, h[n - 1])
  <2>1. Len(us) \in Nat
    BY <1>3
  <2>2. PICK h : /\ h[Len(us)] = CountedMissing(us)
                 /\ \A n \in 0..Len(us) : h[n] = CountStep(us, n, h[n - 1])
    BY <2>1, CountedBy
  <2> QED BY <1>3, <2>2
<1> DEFINE S == {n \in Nat : n <= N => h[n] = g[n]}
<1>6. 0 \in S
  <2>1. 0 \in 0..N /\ 0 \in 0..(N + 1)
    BY <1>3
  <2>2. g[0] = 0 /\ h[0] = 0
    BY <1>4, <1>5, <2>1 DEF CountStep
  <2> QED BY <2>2
<1>7. ASSUME NEW n \in S PROVE n + 1 \in S
  <2> SUFFICES ASSUME n + 1 <= N PROVE h[n + 1] = g[n + 1]
    OBVIOUS
  <2>1. n \in Nat /\ n + 1 \in 0..N /\ n + 1 \in 0..(N + 1) /\ (n + 1) - 1 = n /\ h[n] = g[n]
    BY <1>3
  <2>2. g[n + 1] = CountStep(out, n + 1, g[n]) /\ h[n + 1] = CountStep(us, n + 1, h[n])
    BY <1>4, <1>5, <2>1
  <2>3. n + 1 > 1 => us[n + 1] = out[n + 1] /\ us[n] = out[n]
    BY <1>3, <2>1
  <2> QED BY <2>1, <2>2, <2>3 DEF CountStep
<1>8. S = Nat
  <2>1. S \in SUBSET Nat
    OBVIOUS
  <2> HIDE DEF S
  <2> QED BY <1>6, <1>7, <2>1, Induct
<1>9. h[N] = g[N]
  <2>1. N \in S /\ N <= N
    BY <1>3, <1>8
  <2> QED BY <2>1
<1>10. h[N + 1] = CountStep(us, N + 1, h[N])
  <2>1. N + 1 \in 0..(N + 1) /\ (N + 1) - 1 = N
    BY <1>3
  <2> QED BY <1>5, <2>1
<1>11. CountedMissing(us) = CountStep(us, N + 1, CountedMissing(out))
  BY <1>4, <1>5, <1>9, <1>10
<1>12. CASE N = 0
  BY <1>1, <1>2, <1>11, <1>12 DEF CountStep
<1>13. CASE N # 0
  <2>1. ~ (N + 1 <= 1) /\ (N + 1) - 1 = N /\ us[N] = out[N] /\ us[N + 1] = f
    BY <1>3, <1>13
  <2> QED BY <1>1, <1>2, <1>11, <1>13, <2>1 DEF CountStep
<1> QED BY <1>12, <1>13

\* Tries first and last are the first and the last that sent.
SentFrom(ts, first, last) ==
  /\ first \in 1..Len(ts) /\ last \in 1..Len(ts)
  /\ ts[first].sent /\ ts[last].sent
  /\ \A j \in 1..(first - 1) : ~ ts[j].sent
  /\ \A j \in (last + 1)..Len(ts) : ~ ts[j].sent

\* Try i is numbered i - 1, sent or not; all tries after the last sent and
\* before the first are counted as dropped, and those between them are gaps.
GapInv ==
  /\ fw.seq = Len(tried) % SeqSpace /\ fw.sent \in Nat /\ fw.dropped \in Nat
  /\ \A i \in 1..Len(tried) : tried[i].frame.seq = (i - 1) % SeqSpace
  /\ SentOf(tried) \in Seq(ToSet(SentOf(tried)))
  /\ \/ /\ \A i \in 1..Len(tried) : ~ tried[i].sent
        /\ Len(SentOf(tried)) = 0 /\ fw.sent = 0 /\ fw.dropped = Len(tried)
     \/ /\ fw.sent > 0 /\ Len(SentOf(tried)) > 0
        /\ \E first, last \in 1..Len(tried) :
             /\ SentFrom(tried, first, last)
             /\ SentOf(tried)[Len(SentOf(tried))] = tried[last].frame
             /\ WithinHalf =>
                  /\ CountedMissing(SentOf(tried)) \in Nat
                  /\ fw.dropped = CountedMissing(SentOf(tried)) + (first - 1) + (Len(tried) - last)

\* The numbers and counts of a try.
LEMMA TriedCounts ==
  ASSUME NEW m, Clockwork(m), NEW f, NEW attempt, SendFrame(m, f, attempt)
  PROVE  /\ fw'.seq = (m.seq + 1) % SeqSpace
         /\ fw'.sent = IF attempt[2] THEN m.sent + 1 ELSE m.sent
         /\ fw'.dropped = IF attempt[2] THEN m.dropped ELSE m.dropped + 1
<1> DEFINE q == (m.seq + 1) % SeqSpace
           a == IF attempt[2] THEN m.sent + 1 ELSE m.sent
           b == IF attempt[2] THEN m.dropped ELSE m.dropped + 1
           h == [m EXCEPT !.seq = q]
           i == [h EXCEPT !.sent = a]
           j == [i EXCEPT !.dropped = b]
<1>1. fw' = j
  BY DEF SendFrame
<1> HIDE DEF q, a, b
<1>2. Clockwork(h) /\ h.seq = q
  BY DEF Clockwork
<1> HIDE DEF h
<1>3. Clockwork(i) /\ i.seq = q /\ i.sent = a
  BY <1>2 DEF Clockwork
<1> HIDE DEF i
<1>4. j.seq = q /\ j.sent = a /\ j.dropped = b
  BY <1>3 DEF Clockwork
<1> QED BY <1>1, <1>4 DEF q, a, b

LEMMA TriedKeepsGaps ==
  ASSUME QuiltWireAssumption, GapInv, DecodeInv,
         NEW m, Clockwork(m), m.seq = fw.seq, m.sent = fw.sent, m.dropped = fw.dropped,
         NEW f, f.seq = m.seq, NEW attempt, SendFrame(m, f, attempt)
  PROVE  GapInv'
<1>1. PICK e : e = [frame |-> f, sent |-> attempt[2]]
  OBVIOUS
<1>2. PICK N : N = Len(tried)
  OBVIOUS
<1>3. PICK A : A = SentOf(tried)
  OBVIOUS
<1>4. PICK B : B = SentOf(tried')
  OBVIOUS
<1>5. e.frame = f /\ e.sent = attempt[2] /\ tried' = Append(tried, e)
  BY <1>1 DEF SendFrame
<1>6. /\ Len(tried') = N + 1 /\ N \in Nat /\ tried'[N + 1] = e
      /\ \A i \in 1..N : tried'[i] = tried[i]
  BY <1>2, <1>5, AppendFacts DEF DecodeInv
<1>7. B = IF e.sent THEN Append(A, f) ELSE A
  <2>1. SentOf(tried') = IF e.sent THEN Append(SentOf(tried), e.frame) ELSE SentOf(tried)
    BY <1>5, SentOfAppend DEF DecodeInv
  <2> QED BY <1>3, <1>4, <1>5, <2>1
<1>8. /\ A \in Seq(ToSet(A)) /\ Len(A) \in Nat
      /\ Len(Append(A, f)) = Len(A) + 1 /\ Append(A, f)[Len(A) + 1] = f
      /\ Append(A, f) \in Seq(ToSet(Append(A, f)))
  <2>1. A \in Seq(ToSet(A))
    BY <1>3 DEF GapInv
  <2> QED BY <2>1, AppendFacts
<1>9. fw.seq = N % SeqSpace /\ fw.sent \in Nat /\ fw.dropped \in Nat
  BY <1>2 DEF GapInv
<1>10. fw'.seq = (N + 1) % SeqSpace
  BY <1>6, <1>9, TriedCounts, NextNumber
<1>11. \A i \in 1..(N + 1) : tried'[i].frame.seq = (i - 1) % SeqSpace
  <2>1. \A i \in 1..N : tried'[i].frame.seq = (i - 1) % SeqSpace
    BY <1>2, <1>6 DEF GapInv
  <2>2. tried'[N + 1].frame.seq = N % SeqSpace /\ (N + 1) - 1 = N
    BY <1>5, <1>6, <1>9
  <2>3. \A i \in 1..(N + 1) : i \in 1..N \/ i = N + 1
    BY <1>6
  <2> QED BY <2>1, <2>2, <2>3
<1>12. B \in Seq(ToSet(B))
  BY <1>7, <1>8
<1>13. WithinHalf' => WithinHalf
  <2> SUFFICES ASSUME WithinHalf', NEW j \in 1..N, NEW i \in 1..(j - 1),
                      tried[i].sent, tried[j].sent, \A k \in (i + 1)..(j - 1) : ~ tried[k].sent
               PROVE  j - i < SeqSpace \div 2
    BY <1>2 DEF WithinHalf
  <2>1. i \in 1..N /\ j \in 1..(N + 1) /\ \A k \in (i + 1)..(j - 1) : k \in 1..N
    BY <1>6
  <2>2. /\ tried'[i].sent /\ tried'[j].sent
        /\ \A k \in (i + 1)..(j - 1) : ~ tried'[k].sent
    BY <1>6, <2>1
  <2> QED BY <1>6, <2>1, <2>2 DEF WithinHalf
<1>14. CASE ~ attempt[2]
  <2>1. B = A /\ fw'.sent = fw.sent /\ fw'.dropped = fw.dropped + 1 /\ ~ e.sent
    BY <1>5, <1>7, <1>14, TriedCounts
  <2>2. fw'.sent \in Nat /\ fw'.dropped \in Nat
    BY <1>9, <2>1
  <2>3. CASE /\ \A i \in 1..N : ~ tried[i].sent
             /\ Len(A) = 0 /\ fw.sent = 0 /\ fw.dropped = N
    <3>1. \A i \in 1..(N + 1) : ~ tried'[i].sent
      BY <1>6, <2>1, <2>3
    <3>2. Len(B) = 0 /\ fw'.sent = 0 /\ fw'.dropped = N + 1
      BY <2>1, <2>3
    <3> QED BY <1>4, <1>6, <1>10, <1>11, <1>12, <2>2, <3>1, <3>2 DEF GapInv
  <2>4. CASE /\ fw.sent > 0 /\ Len(A) > 0
             /\ \E first, last \in 1..N :
                  /\ SentFrom(tried, first, last)
                  /\ A[Len(A)] = tried[last].frame
                  /\ WithinHalf =>
                       /\ CountedMissing(A) \in Nat
                       /\ fw.dropped = CountedMissing(A) + (first - 1) + (N - last)
    <3>1. PICK first \in 1..N, last \in 1..N :
                  /\ SentFrom(tried, first, last)
                  /\ A[Len(A)] = tried[last].frame
                  /\ WithinHalf =>
                       /\ CountedMissing(A) \in Nat
                       /\ fw.dropped = CountedMissing(A) + (first - 1) + (N - last)
      BY <2>4
    <3>2. first \in 1..(N + 1) /\ last \in 1..(N + 1)
      BY <1>6
    <3>3. SentFrom(tried', first, last)
      <4>1. \A j \in (last + 1)..(N + 1) : j \in (last + 1)..N \/ j = N + 1
        BY <1>6
      <4>2. \A j \in (last + 1)..N : j \in 1..N
        BY <1>6
      <4>3. \A j \in 1..(first - 1) : j \in 1..N
        BY <1>6
      <4> QED BY <1>2, <1>6, <2>1, <3>1, <3>2, <4>1, <4>2, <4>3 DEF SentFrom
    <3>4. B[Len(B)] = tried'[last].frame
      BY <1>6, <2>1, <3>1
    <3>5. WithinHalf' => /\ CountedMissing(B) \in Nat
                         /\ fw'.dropped = CountedMissing(B) + (first - 1) + ((N + 1) - last)
      BY <1>6, <1>9, <1>13, <2>1, <3>1
    <3>6. fw'.sent > 0 /\ Len(B) > 0
      BY <2>1, <2>4
    <3> QED BY <1>4, <1>6, <1>10, <1>11, <1>12, <2>2, <3>2, <3>3, <3>4, <3>5, <3>6 DEF GapInv
  <2> QED BY <1>2, <1>3, <2>3, <2>4 DEF GapInv
<1>15. CASE attempt[2]
  <2>1. B = Append(A, f) /\ fw'.sent = fw.sent + 1 /\ fw'.dropped = fw.dropped /\ e.sent
    BY <1>5, <1>7, <1>15, TriedCounts
  <2>2. fw'.sent \in Nat /\ fw'.sent > 0 /\ fw'.dropped \in Nat
    BY <1>9, <2>1
  <2>3. /\ Len(B) > 0 /\ B[Len(B)] = tried'[N + 1].frame
        /\ N + 1 \in 1..(N + 1) /\ tried'[N + 1].sent
    BY <1>5, <1>6, <1>8, <2>1
  <2>4. \A j \in ((N + 1) + 1)..(N + 1) : ~ tried'[j].sent
    BY <1>6
  <2>5. CASE /\ \A i \in 1..N : ~ tried[i].sent
             /\ Len(A) = 0 /\ fw.sent = 0 /\ fw.dropped = N
    <3>1. SentFrom(tried', N + 1, N + 1)
      <4>1. \A j \in 1..((N + 1) - 1) : j \in 1..N
        BY <1>6
      <4> QED BY <1>6, <2>3, <2>4, <2>5, <4>1 DEF SentFrom
    <3>2. CountedMissing(B) = 0
      BY <1>8, <2>1, <2>5, CountedAppend
    <3>3. /\ CountedMissing(B) \in Nat
          /\ fw'.dropped = CountedMissing(B) + ((N + 1) - 1) + ((N + 1) - (N + 1))
      BY <1>6, <2>1, <2>5, <3>2
    <3> QED BY <1>4, <1>6, <1>10, <1>11, <1>12, <2>2, <2>3, <3>1, <3>3 DEF GapInv
  <2>6. CASE /\ fw.sent > 0 /\ Len(A) > 0
             /\ \E first, last \in 1..N :
                  /\ SentFrom(tried, first, last)
                  /\ A[Len(A)] = tried[last].frame
                  /\ WithinHalf =>
                       /\ CountedMissing(A) \in Nat
                       /\ fw.dropped = CountedMissing(A) + (first - 1) + (N - last)
    <3>1. PICK first \in 1..N, last \in 1..N :
                  /\ SentFrom(tried, first, last)
                  /\ A[Len(A)] = tried[last].frame
                  /\ WithinHalf =>
                       /\ CountedMissing(A) \in Nat
                       /\ fw.dropped = CountedMissing(A) + (first - 1) + (N - last)
      BY <2>6
    <3>2. first \in 1..(N + 1) /\ last \in 1..N /\ last \in 1..(N + 1)
      BY <1>6
    <3>3. SentFrom(tried', first, N + 1)
      <4>1. \A j \in 1..(first - 1) : j \in 1..N
        BY <1>6
      <4> QED BY <1>2, <1>6, <2>3, <2>4, <3>1, <3>2, <4>1 DEF SentFrom
    <3>4. ASSUME WithinHalf'
          PROVE  /\ CountedMissing(B) \in Nat
                 /\ fw'.dropped = CountedMissing(B) + (first - 1) + ((N + 1) - (N + 1))
      <4>1. PICK k : k = N + 1 - last
        OBVIOUS
      <4>2. k \in Nat \ {0} /\ last - 1 \in Nat /\ (last - 1) + k = N
        <5>1. N \in Nat /\ last \in Nat /\ 1 <= last /\ last <= N
          BY <1>6, <3>2
        <5> QED BY <4>1, <5>1
      <4>3. k < SeqSpace \div 2
        <5>1. last \in 1..((N + 1) - 1)
          BY <1>6, <3>2
        <5>2. \A j \in (last + 1)..((N + 1) - 1) : j \in (last + 1)..N /\ j \in 1..N
          BY <1>6, <3>2
        <5>3. /\ tried'[last].sent /\ tried'[N + 1].sent
              /\ \A j \in (last + 1)..((N + 1) - 1) : ~ tried'[j].sent
          BY <1>2, <1>6, <2>3, <3>1, <3>2, <5>2 DEF SentFrom
        <5> QED BY <1>6, <2>3, <3>4, <4>1, <5>1, <5>3 DEF WithinHalf
      <4>4. Missing((last - 1) % SeqSpace, N % SeqSpace) = k - 1
        BY <4>2, <4>3, MissingBetween
      <4>5. A[Len(A)].seq = (last - 1) % SeqSpace
        <5>1. tried[last].frame.seq = (last - 1) % SeqSpace
          BY <1>2 DEF GapInv
        <5> QED BY <3>1, <5>1
      <4>6. CountedMissing(B) = CountedMissing(A) + Missing(A[Len(A)].seq, f.seq)
        BY <1>8, <2>1, <2>6, CountedAppend
      <4>7. f.seq = N % SeqSpace
        BY <1>9
      <4>8. CountedMissing(B) = CountedMissing(A) + (k - 1)
        BY <4>4, <4>5, <4>6, <4>7
      <4>9. CountedMissing(A) \in Nat /\ fw.dropped = CountedMissing(A) + (first - 1) + (N - last)
        BY <1>13, <3>1, <3>4
      <4>10. PICK c : c = CountedMissing(A)
        OBVIOUS
      <4> QED BY <1>6, <2>1, <3>2, <4>1, <4>2, <4>8, <4>9, <4>10
    <3> QED BY <1>4, <1>6, <1>10, <1>11, <1>12, <2>2, <2>3, <3>2, <3>3, <3>4 DEF GapInv
  <2> QED BY <1>2, <1>3, <2>5, <2>6 DEF GapInv
<1> QED BY <1>14, <1>15

\* A tick moves neither number nor counts until a frame is tried.
LEMMA TickedCounts ==
  ASSUME Clockwork(fw), NEW v \in Int
  PROVE  LET m == Ticked(fw)
             r == Reported(m, v)
         IN  /\ Clockwork(m) /\ m.seq = fw.seq /\ m.sent = fw.sent /\ m.dropped = fw.dropped
             /\ Clockwork(r) /\ r.seq = fw.seq /\ r.sent = fw.sent /\ r.dropped = fw.dropped
<1> DEFINE m == Ticked(fw)
           r == Reported(m, v)
           a == [fw EXCEPT !.tick = fw.tick + 1]
           b == [a EXCEPT !.since = fw.since + 1]
           h == [m EXCEPT !.last = << v >>]
           i == [h EXCEPT !.since = 0]
<1>1. m = b
  BY DEF Ticked
<1>2. Clockwork(a) /\ a.seq = fw.seq /\ a.sent = fw.sent /\ a.dropped = fw.dropped
      /\ a.since = fw.since
  BY DEF Clockwork
<1> HIDE DEF a
<1>3. Clockwork(b) /\ b.seq = fw.seq /\ b.sent = fw.sent /\ b.dropped = fw.dropped
  BY <1>2 DEF Clockwork
<1> HIDE DEF b
<1>4. Clockwork(m) /\ m.seq = fw.seq /\ m.sent = fw.sent /\ m.dropped = fw.dropped
  BY <1>1, <1>3
<1>5. r = m \/ r = i
  BY DEF Reported, Sent
<1> HIDE DEF m, r
<1>6. Clockwork(h) /\ h.seq = fw.seq /\ h.sent = fw.sent /\ h.dropped = fw.dropped
  BY <1>4 DEF Clockwork
<1> HIDE DEF h
<1>7. Clockwork(i) /\ i.seq = fw.seq /\ i.sent = fw.sent /\ i.dropped = fw.dropped
  BY <1>6 DEF Clockwork
<1> HIDE DEF i
<1> QED BY <1>4, <1>5, <1>7 DEF m, r

LEMMA GapInit == QuiltWireAssumption /\ FirmwareInit => GapInv
<1> SUFFICES ASSUME QuiltWireAssumption, FirmwareInit PROVE GapInv
  OBVIOUS
<1>1. tried = << >> /\ decoder = [buf |-> << >>, out |-> << >>]
  BY DEF FirmwareInit, NewDecoder
<1>2. SentOf(tried) = << >>
  BY <1>1, DecodeInit DEF DecodeInv
<1>3. fw = [tick |-> 0, last |-> NotSent, since |-> 0, seq |-> 0, sent |-> 0, dropped |-> 0]
  BY DEF FirmwareInit
<1>4. 0 % SeqSpace = 0
  BY DEF QuiltWireAssumption
<1>5. Len(tried) = 0 /\ fw.seq = 0 /\ fw.sent = 0 /\ fw.dropped = 0 /\ Len(SentOf(tried)) = 0
      /\ SentOf(tried) \in Seq(ToSet(SentOf(tried)))
  <2>1. fw.seq = 0 /\ fw.sent = 0 /\ fw.dropped = 0
    BY <1>3
  <2>2. Len(<< >>) = 0 /\ << >> \in Seq(ToSet(<< >>))
    OBVIOUS
  <2> QED BY <1>1, <1>2, <2>1, <2>2
<1> QED BY <1>4, <1>5 DEF GapInv

LEMMA GapStep ==
  ASSUME QuiltWireAssumption, CellFirmwareAssumption, SilenceInv, DecodeInv, GapInv,
         [FirmwareNext]_firmwareVars
  PROVE  GapInv'
<1>1. CASE Setup
  <2>1. PICK attempt \in Attempts : SendFrame(fw, CellFrame(fw, "linkmeta", 0), attempt)
    BY <1>1 DEF Setup
  <2>2. CellFrame(fw, "linkmeta", 0).seq = fw.seq
    BY DEF CellFrame
  <2> QED BY <2>1, <2>2, TriedKeepsGaps DEF SilenceInv
<1>2. ASSUME NEW v \in Reading, Loop(v) PROVE GapInv'
  <2>1. PICK m : m = Ticked(fw)
    OBVIOUS
  <2>2. PICK r : r = Reported(m, v)
    OBVIOUS
  <2>3. /\ Clockwork(m) /\ m.seq = fw.seq /\ m.sent = fw.sent /\ m.dropped = fw.dropped
        /\ Clockwork(r) /\ r.seq = fw.seq /\ r.sent = fw.sent /\ r.dropped = fw.dropped
    BY <2>1, <2>2, TickedCounts DEF SilenceInv, CellFirmwareAssumption
  <2>4. CASE fw' = m /\ UNCHANGED << tried, decoder >>
    BY <2>3, <2>4 DEF GapInv, WithinHalf
  <2>5. ASSUME NEW kind, NEW attempt, SendFrame(r, CellFrame(m, kind, v), attempt)
        PROVE  GapInv'
    <3>1. CellFrame(m, kind, v).seq = r.seq
      BY <2>3 DEF CellFrame
    <3> QED BY <2>3, <2>5, <3>1, TriedKeepsGaps
  <2> QED BY <1>2, <2>1, <2>2, <2>4, <2>5 DEF Loop
<1>3. CASE LineNoise \/ UNCHANGED firmwareVars
  BY <1>3 DEF LineNoise, firmwareVars, GapInv, WithinHalf
<1> QED BY <1>1, <1>2, <1>3 DEF FirmwareNext

\* However long a cell runs, whatever its sensor reads and wherever its writes
\* are cut: while no two frames sent one after the other are half of all numbers
\* apart, what the receiver counts as missing is what the cell has counted as
\* dropped between its first and its last frame sent (send_frame).
THEOREM DroppedFramesAlwaysGaps ==
  ASSUME QuiltWireAssumption, CellFirmwareAssumption
  PROVE  FirmwareInit /\ [][FirmwareNext]_firmwareVars => []DroppedFramesAreGaps
<1> DEFINE Inv == SilenceInv /\ DecodeInv /\ GapInv
<1>1. FirmwareInit => Inv
  BY SilenceInit, DecodeInit, GapInit
<1>2. Inv /\ [FirmwareNext]_firmwareVars => Inv'
  BY SilenceStep, DecodeStep, GapStep
<1>3. Inv => DroppedFramesAreGaps
  <2> SUFFICES ASSUME Inv, WithinHalf, fw.sent > 0
               PROVE  fw.dropped = CountedMissing(decoder.out) + (FirstSent - 1) + (Len(tried) - LastSentAt)
    BY DEF DroppedFramesAreGaps
  <2>1. PICK N : N = Len(tried)
    OBVIOUS
  <2>2. PICK first \in 1..N, last \in 1..N :
          /\ SentFrom(tried, first, last)
          /\ fw.dropped = CountedMissing(SentOf(tried)) + (first - 1) + (N - last)
    BY <2>1 DEF GapInv
  <2>3. N \in Nat
    BY <2>1 DEF DecodeInv
  <2>4. FirstSent = first
    <3>1. /\ first \in 1..N /\ tried[first].sent /\ \A j \in 1..(first - 1) : ~ tried[j].sent
      BY <2>2 DEF SentFrom
    <3>2. ASSUME NEW i \in 1..N, tried[i].sent, \A j \in 1..(i - 1) : ~ tried[j].sent
          PROVE  i = first
      <4>1. ~ (i < first) /\ ~ (first < i)
        BY <3>1, <3>2
      <4> QED BY <4>1
    <3> QED BY <2>1, <3>1, <3>2 DEF FirstSent
  <2>5. LastSentAt = last
    <3>1. /\ last \in 1..N /\ tried[last].sent /\ \A j \in (last + 1)..N : ~ tried[j].sent
      BY <2>1, <2>2 DEF SentFrom
    <3>2. ASSUME NEW i \in 1..N, tried[i].sent, \A j \in (i + 1)..N : ~ tried[j].sent
          PROVE  i = last
      <4>1. ~ (i < last) /\ ~ (last < i)
        BY <2>3, <3>1, <3>2
      <4> QED BY <4>1
    <3> QED BY <2>1, <3>1, <3>2 DEF LastSentAt
  <2>6. decoder.out = SentOf(tried)
    BY DEF DecodeInv
  <2> QED BY <2>1, <2>2, <2>4, <2>5, <2>6
<1> QED BY <1>1, <1>2, <1>3, PTL
=============================================================================
