---------------------------- MODULE JournalProofs ---------------------------
(***************************************************************************)
(* Theorems about the journal, for every value of its constants.           *)
(***************************************************************************)
EXTENDS JournalLog, Lemmas, FiniteSetTheorems

-----------------------------------------------------------------------------
(***************************************************************************)
(* Replay.                                                                 *)
(***************************************************************************)

ReplayStart == [ledgers |-> NoLedgers, rejected |-> FALSE]

\* g is what ReplayFrames has after each of the first N frames of fs.
Run(fs, N, g) ==
  g = [n \in 0..N |-> IF n = 0 THEN ReplayStart
                      ELSE ReplayFrame(g[n - 1], fs[n])]

\* The recursion has a solution, so ReplayFrames is what its equations say.
LEMMA RunExists ==
  ASSUME NEW fs, NEW N \in Nat
  PROVE  \E g : Run(fs, N, g)
<1> DEFINE S == {n \in Nat : \E g : Run(fs, n, g)}
<1>1. 0 \in S
  <2> DEFINE g == [n \in 0..0 |-> ReplayStart]
  <2>1. g = [n \in 0..0 |-> IF n = 0 THEN ReplayStart ELSE ReplayFrame(g[n - 1], fs[n])]
    OBVIOUS
  <2> QED BY <2>1 DEF Run
<1>2. ASSUME NEW n \in S PROVE n + 1 \in S
  <2>1. PICK g : Run(fs, n, g)
    OBVIOUS
  <2> DEFINE h == [k \in 0..(n + 1) |-> IF k = n + 1 THEN ReplayFrame(g[n], fs[n + 1]) ELSE g[k]]
  <2>3. ASSUME NEW k \in 0..(n+1) PROVE h[k] = IF k = 0 THEN ReplayStart ELSE ReplayFrame(h[k - 1], fs[k])
    BY <2>1 DEF Run
  <2>4. h = [k \in 0..(n + 1) |-> IF k = 0 THEN ReplayStart ELSE ReplayFrame(h[k - 1], fs[k])]
    <3>1. h = [k \in 0..(n + 1) |-> h[k]]
      OBVIOUS
    <3> HIDE DEF h
    <3> QED BY <2>3, <3>1
  <2>5. Run(fs, n + 1, h)
    <3> HIDE DEF h
    <3> QED BY <2>4 DEF Run
  <2> QED BY <2>5
<1> HIDE DEF S
<1>3. S = Nat
  <2>1. S \in SUBSET Nat
    BY DEF S
  <2> QED BY <1>1, <1>2, <2>1, Induct
<1> QED BY <1>3 DEF S

LEMMA RunIs ==
  ASSUME NEW fs, Len(fs) \in Nat
  PROVE  \E g : Run(fs, Len(fs), g) /\ ReplayFrames(fs) = g[Len(fs)]
<1> DEFINE g == CHOOSE g : Run(fs, Len(fs), g)
<1>1. Run(fs, Len(fs), g)
  BY RunExists
<1>2. ReplayFrames(fs) = g[Len(fs)]
  BY DEF ReplayFrames, Run, ReplayStart
<1> QED BY <1>1, <1>2

\* Replaying nothing gives new ledgers.
LEMMA ReplayOfNone == ReplayFrames(<< >>) = ReplayStart
<1>1. Len(<< >>) = 0
  OBVIOUS
<1>2. PICK g : Run(<< >>, 0, g) /\ ReplayFrames(<< >>) = g[0]
  BY <1>1, RunIs
<1> QED BY <1>2 DEF Run

\* Replaying one frame more is replaying that frame on top.
LEMMA ReplayOfOneMore ==
  ASSUME NEW fs, NEW gs, Len(fs) \in Nat, Len(gs) = Len(fs) + 1,
         \A i \in 1..Len(fs) : gs[i] = fs[i]
  PROVE  ReplayFrames(gs) = ReplayFrame(ReplayFrames(fs), gs[Len(gs)])
<1> DEFINE n == Len(fs)
<1>1. PICK g : Run(fs, n, g) /\ ReplayFrames(fs) = g[n]
  BY RunIs
<1>2. PICK h : Run(gs, n + 1, h) /\ ReplayFrames(gs) = h[n + 1]
  BY RunIs
<1> DEFINE S == {k \in Nat : k <= n => h[k] = g[k]}
<1>3. 0 \in S
  BY <1>1, <1>2 DEF Run
<1>4. ASSUME NEW k \in S PROVE k + 1 \in S
  <2> SUFFICES ASSUME k + 1 <= n PROVE h[k + 1] = g[k + 1]
    OBVIOUS
  <2>1. /\ k \in Nat /\ k + 1 \in 1..n /\ k + 1 \in 0..(n + 1) /\ k + 1 \in 0..n
        /\ k + 1 # 0 /\ (k + 1) - 1 = k /\ h[k] = g[k]
    OBVIOUS
  <2>2. h[k + 1] = ReplayFrame(h[k], gs[k + 1])
    BY <1>2, <2>1 DEF Run
  <2>3. g[k + 1] = ReplayFrame(g[k], fs[k + 1])
    BY <1>1, <2>1 DEF Run
  <2> QED BY <2>1, <2>2, <2>3
<1>5. S = Nat
  <2>1. S \in SUBSET Nat
    OBVIOUS
  <2> HIDE DEF S
  <2> QED BY <1>3, <1>4, <2>1, Induct
<1>6. h[n] = g[n]
  BY <1>5
<1>7. h[n + 1] = ReplayFrame(h[n], gs[n + 1])
  BY <1>2 DEF Run
<1> QED BY <1>1, <1>2, <1>6, <1>7

-----------------------------------------------------------------------------
(***************************************************************************)
(* Ledgers that a replay rebuilds.                                         *)
(***************************************************************************)

\* A ledger's chain and history are whole and its state is where they end.
Whole(l) ==
  /\ l = [cell |-> l.cell, genesis |-> l.genesis, genesisTs |-> l.genesisTs,
          state |-> l.state, nextSeq |-> l.nextSeq,
          nextTicket |-> l.nextTicket, entries |-> l.entries,
          pending |-> l.pending]
  /\ l.entries \in Seq(ToSet(l.entries))
  /\ ChainIntact(l)
  /\ ContinuityIntact(l)
  /\ l.state = ExpectedBefore(l, Len(l.entries) + 1)

LEMMA NewIsWhole ==
  ASSUME NEW cell
  PROVE  Whole(NewLedger(cell))
<1> DEFINE l == NewLedger(cell)
<1>1. /\ l.entries = << >> /\ l.state = Null /\ l.genesis = None
      /\ l = [cell |-> l.cell, genesis |-> l.genesis, genesisTs |-> l.genesisTs,
              state |-> l.state, nextSeq |-> l.nextSeq,
              nextTicket |-> l.nextTicket, entries |-> l.entries,
              pending |-> l.pending]
  BY DEF NewLedger
<1> HIDE DEF l
<1>2. Len(l.entries) = 0 /\ l.entries \in Seq(ToSet(l.entries))
  BY <1>1
<1>3. l.state = ExpectedBefore(l, Len(l.entries) + 1)
  BY <1>1, <1>2 DEF ExpectedBefore, UnwrapOr
<1>4. ChainIntact(l) /\ ContinuityIntact(l)
  BY <1>2 DEF ChainIntact, ContinuityIntact
<1> QED BY <1>1, <1>2, <1>3, <1>4 DEF Whole, l

\* What restore_entry does to the fields when it accepts.
LEMMA RestoreFields ==
  ASSUME NEW l, Whole(l), NEW e, Restorable(l, e)
  PROVE  /\ RestoreEntry(l, e).entries = Append(l.entries, e)
         /\ RestoreEntry(l, e).state = e.after
         /\ RestoreEntry(l, e).nextSeq = l.nextSeq + 1
         /\ RestoreEntry(l, e)
              = [cell |-> l.cell, genesis |-> l.genesis,
                 genesisTs |-> l.genesisTs, state |-> e.after,
                 nextSeq |-> l.nextSeq + 1, nextTicket |-> l.nextTicket,
                 entries |-> Append(l.entries, e), pending |-> l.pending]
<1> DEFINE E == Append(l.entries, e)
<1>1. RestoreEntry(l, e) = [l EXCEPT !.state = e.after, !.nextSeq = l.nextSeq + 1,
                                     !.entries = E]
  BY DEF RestoreEntry
<1>2. l = [cell |-> l.cell, genesis |-> l.genesis, genesisTs |-> l.genesisTs,
           state |-> l.state, nextSeq |-> l.nextSeq,
           nextTicket |-> l.nextTicket, entries |-> l.entries,
           pending |-> l.pending]
  BY DEF Whole
<1> HIDE DEF E
<1>3. RestoreEntry(l, e)
        = [cell |-> l.cell, genesis |-> l.genesis, genesisTs |-> l.genesisTs,
           state |-> e.after, nextSeq |-> l.nextSeq + 1,
           nextTicket |-> l.nextTicket, entries |-> E, pending |-> l.pending]
  BY <1>1, <1>2
<1> QED BY <1>3 DEF E

\* An accepted entry keeps a ledger whole.
LEMMA RestoreKeepsWhole ==
  ASSUME NEW l, Whole(l), NEW e, Restorable(l, e)
  PROVE  Whole(RestoreEntry(l, e))
<1> DEFINE m == RestoreEntry(l, e)
           n == Len(l.entries)
<1>1. /\ m.entries = Append(l.entries, e) /\ m.state = e.after
      /\ m.cell = l.cell /\ m.genesis = l.genesis /\ m.genesisTs = l.genesisTs
      /\ m = [cell |-> m.cell, genesis |-> m.genesis, genesisTs |-> m.genesisTs,
              state |-> m.state, nextSeq |-> m.nextSeq,
              nextTicket |-> m.nextTicket, entries |-> m.entries,
              pending |-> m.pending]
  <2> DEFINE E == Append(l.entries, e)
  <2>1. m = [cell |-> l.cell, genesis |-> l.genesis,
             genesisTs |-> l.genesisTs, state |-> e.after,
             nextSeq |-> l.nextSeq + 1, nextTicket |-> l.nextTicket,
             entries |-> E, pending |-> l.pending]
    BY RestoreFields
  <2> HIDE DEF E, m
  <2>2. /\ m.entries = E /\ m.state = e.after
        /\ m.cell = l.cell /\ m.genesis = l.genesis /\ m.genesisTs = l.genesisTs
        /\ m = [cell |-> m.cell, genesis |-> m.genesis,
                genesisTs |-> m.genesisTs, state |-> m.state,
                nextSeq |-> m.nextSeq, nextTicket |-> m.nextTicket,
                entries |-> m.entries, pending |-> m.pending]
    BY <2>1
  <2> QED BY <2>2 DEF E
<1> HIDE DEF m
<1>2. /\ m.entries \in Seq(ToSet(m.entries)) /\ Len(m.entries) = n + 1
      /\ n \in Nat /\ m.entries[n + 1] = e
      /\ \A i \in 1..n : m.entries[i] = l.entries[i]
      /\ (l.entries = << >>) <=> (n = 0)
  <2>1. l.entries \in Seq(ToSet(l.entries))
    BY DEF Whole
  <2> QED BY <1>1, <2>1, AppendFacts
<1>3. GenesisCommit(m) = GenesisCommit(l)
  BY <1>1 DEF GenesisCommit
<1>4. /\ ExpectedPrev(m, n + 1) = ChainHash(l)
      /\ \A i \in 1..n : ExpectedPrev(m, i) = ExpectedPrev(l, i)
  BY <1>2, <1>3 DEF ExpectedPrev, ChainHash, Last
<1>5. /\ ExpectedBefore(m, n + 1) = l.state
      /\ \A i \in 1..n : ExpectedBefore(m, i) = ExpectedBefore(l, i)
      /\ ExpectedBefore(m, n + 2) = m.state
  <2>1. l.state = ExpectedBefore(l, n + 1)
    BY DEF Whole
  <2> QED BY <2>1, <1>1, <1>2 DEF ExpectedBefore
<1>6. e.prev = ChainHash(l) /\ e.hash = Seal(e) /\ e.before = l.state
  BY DEF Restorable
<1>7. ChainIntact(m)
  <2> SUFFICES ASSUME NEW i \in 1..(n + 1) PROVE ~ BreaksAt(m, i)
    BY <1>2 DEF ChainIntact
  <2>1. CASE i = n + 1
    BY <2>1, <1>2, <1>4, <1>6 DEF BreaksAt
  <2>2. CASE i \in 1..n
    BY <2>2, <1>2, <1>4 DEF Whole, ChainIntact, BreaksAt
  <2> QED BY <2>1, <2>2, <1>2
<1>8. ContinuityIntact(m)
  <2> SUFFICES ASSUME NEW i \in 1..(n + 1)
               PROVE  m.entries[i].before = ExpectedBefore(m, i)
    BY <1>2 DEF ContinuityIntact
  <2>1. CASE i = n + 1
    BY <2>1, <1>2, <1>5, <1>6
  <2>2. CASE i \in 1..n
    BY <2>2, <1>2, <1>5 DEF Whole, ContinuityIntact
  <2> QED BY <2>1, <2>2, <1>2
<1> QED BY <1>1, <1>2, <1>5, <1>7, <1>8 DEF Whole, m

\* What a replay has at hand: a whole ledger for every cell.
WholeReplay(r) ==
  /\ r = [ledgers |-> r.ledgers, rejected |-> r.rejected]
  /\ r.rejected \in BOOLEAN
  /\ r.ledgers = [c \in JCell |-> r.ledgers[c]]
  /\ \A c \in JCell : Whole(r.ledgers[c])

LEMMA StartIsWhole == WholeReplay(ReplayStart)
<1>1. /\ ReplayStart = [ledgers |-> NoLedgers, rejected |-> FALSE]
      /\ ReplayStart.ledgers = NoLedgers
  BY DEF ReplayStart
<1>2. /\ NoLedgers = [c \in JCell |-> NoLedgers[c]]
      /\ \A c \in JCell : NoLedgers[c] = NewLedger(c)
  BY DEF NoLedgers
<1> QED BY <1>1, <1>2, NewIsWhole DEF WholeReplay, ReplayStart

\* What one accepted entry does to a replay: its cell's ledger restores it.
LEMMA ReplayFrameAccepts ==
  ASSUME NEW r, WholeReplay(r), NEW fr, ~ r.rejected, fr.type = "entry",
         Restorable(r.ledgers[fr.payload.cell], EntryOf(fr))
  PROVE  /\ ReplayFrame(r, fr).rejected = r.rejected
         /\ ReplayFrame(r, fr)
              = [ledgers |-> ReplayFrame(r, fr).ledgers, rejected |-> r.rejected]
         /\ ReplayFrame(r, fr).ledgers
              = [c \in JCell |->
                   IF c = fr.payload.cell
                   THEN RestoreEntry(r.ledgers[c], EntryOf(fr))
                   ELSE r.ledgers[c]]
<1> DEFINE cell == fr.payload.cell
           e == EntryOf(fr)
           m == RestoreEntry(r.ledgers[cell], e)
<1>1. ReplayFrame(r, fr) = [r EXCEPT !.ledgers[cell] = m]
  BY DEF ReplayFrame
<1>2. /\ r = [ledgers |-> r.ledgers, rejected |-> r.rejected]
      /\ r.ledgers = [c \in JCell |-> r.ledgers[c]]
  BY DEF WholeReplay
<1> DEFINE L == r.ledgers
<1>3. [r EXCEPT !.ledgers[cell] = m]
        = [ledgers |-> [L EXCEPT ![cell] = m], rejected |-> r.rejected]
  <2> HIDE DEF m
  <2> QED BY <1>2
<1>4. [L EXCEPT ![cell] = m]
        = [c \in JCell |-> IF c = cell THEN RestoreEntry(r.ledgers[c], e)
                           ELSE r.ledgers[c]]
  <2>1. \A c \in JCell : c = cell => m = RestoreEntry(r.ledgers[c], e)
    OBVIOUS
  <2> HIDE DEF m, e, cell
  <2> QED BY <1>2, <2>1
<1> HIDE DEF m, e
<1> QED BY <1>1, <1>3, <1>4 DEF e

LEMMA ReplayFrameKeepsWhole ==
  ASSUME NEW r, WholeReplay(r), NEW fr
  PROVE  WholeReplay(ReplayFrame(r, fr))
<1> DEFINE s == ReplayFrame(r, fr)
           cell == fr.payload.cell
<1>1. CASE r.rejected \/ fr.type # "entry"
  BY <1>1 DEF ReplayFrame
<1>2. CASE /\ ~ r.rejected /\ fr.type = "entry"
           /\ Restorable(r.ledgers[cell], EntryOf(fr))
  <2>1. /\ s = [ledgers |-> s.ledgers, rejected |-> r.rejected]
        /\ s.ledgers = [c \in JCell |->
                          IF c = cell THEN RestoreEntry(r.ledgers[c], EntryOf(fr))
                          ELSE r.ledgers[c]]
    BY <1>2, ReplayFrameAccepts
  <2> HIDE DEF s
  <2>2. ASSUME NEW c \in JCell PROVE Whole(s.ledgers[c])
    <3>1. Whole(r.ledgers[c])
      BY DEF WholeReplay
    <3>2. CASE c = cell
      <4>1. s.ledgers[c] = RestoreEntry(r.ledgers[c], EntryOf(fr))
        BY <2>1, <3>2
      <4> QED BY <3>1, <3>2, <4>1, <1>2, RestoreKeepsWhole
    <3>3. CASE c # cell
      BY <2>1, <3>1, <3>3
    <3> QED BY <3>2, <3>3
  <2>3. /\ s = [ledgers |-> s.ledgers, rejected |-> s.rejected]
        /\ s.ledgers = [c \in JCell |-> s.ledgers[c]]
        /\ s.rejected \in BOOLEAN
    BY <2>1 DEF WholeReplay
  <2>4. WholeReplay(s)
    BY <2>2, <2>3 DEF WholeReplay
  <2> QED BY <2>4 DEF s
<1>3. CASE /\ ~ r.rejected /\ fr.type = "entry"
           /\ ~ Restorable(r.ledgers[cell], EntryOf(fr))
  <2>1. s = [r EXCEPT !.rejected = TRUE]
    BY <1>3 DEF ReplayFrame
  <2> HIDE DEF s
  <2>2. s = [ledgers |-> r.ledgers, rejected |-> TRUE]
    BY <2>1 DEF WholeReplay
  <2>3. WholeReplay(s)
    BY <2>2 DEF WholeReplay
  <2> QED BY <2>3 DEF s
<1> QED BY <1>1, <1>2, <1>3

\* Whatever frames a replay is fed, its ledgers are whole.
LEMMA ReplayIsWhole ==
  ASSUME NEW A, NEW fs \in Seq(A)
  PROVE  WholeReplay(ReplayFrames(fs))
<1> DEFINE S == {n \in Nat : \A gs \in Seq(A) :
                   Len(gs) = n => WholeReplay(ReplayFrames(gs))}
<1>1. 0 \in S
  <2>1. \A gs \in Seq(A) : Len(gs) = 0 => gs = << >>
    OBVIOUS
  <2> QED BY <2>1, ReplayOfNone, StartIsWhole
<1>2. ASSUME NEW n \in S PROVE n + 1 \in S
  <2> SUFFICES ASSUME NEW gs \in Seq(A), Len(gs) = n + 1
               PROVE  WholeReplay(ReplayFrames(gs))
    OBVIOUS
  <2> DEFINE p == SubSeq(gs, 1, n)
  <2>1. n \in Nat /\ n \in 0..Len(gs)
    OBVIOUS
  <2>2. p \in Seq(A) /\ Len(p) = n /\ \A i \in 1..n : p[i] = gs[i]
    BY <2>1, PrefixFacts
  <2>3. WholeReplay(ReplayFrames(p))
    BY <2>2
  <2> HIDE DEF p, S
  <2>4. ReplayFrames(gs) = ReplayFrame(ReplayFrames(p), gs[Len(gs)])
    BY <2>1, <2>2, ReplayOfOneMore
  <2> QED BY <2>3, <2>4, ReplayFrameKeepsWhole
<1>3. S = Nat
  <2>1. S \in SUBSET Nat
    OBVIOUS
  <2> HIDE DEF S
  <2> QED BY <1>1, <1>2, <2>1, Induct
<1> QED BY <1>3

-----------------------------------------------------------------------------
(***************************************************************************)
(* Files and their readers, whatever the file went through.                *)
(***************************************************************************)

ChunksOver(A) == [frame : A, written : Nat \ {0}, rot : {"none", "body", "length"}]

\* The files whose chunks carry frames of A.
FilesOver(A) == [exists : BOOLEAN, header : 0..HeaderUnits, chunks : Seq(ChunksOver(A))]

\* The first n frames of a file, as they were written.
Read(f, n) == [i \in 1..n |-> f.chunks[i].frame]

LEMMA MoreFrames ==
  ASSUME NEW A, NEW B, A \subseteq B, NEW f \in FilesOver(A)
  PROVE  f \in FilesOver(B)
<1>1. ChunksOver(A) \subseteq ChunksOver(B)
  BY DEF ChunksOver
<1>2. f.chunks \in Seq(ChunksOver(B))
  BY <1>1 DEF FilesOver
<1> QED BY <1>2 DEF FilesOver

LEMMA FileFields ==
  ASSUME NEW x, NEW y, NEW z, NEW f, f = [exists |-> x, header |-> y, chunks |-> z],
         NEW w
  PROVE  /\ [f EXCEPT !.exists = w] = [exists |-> w, header |-> y, chunks |-> z]
         /\ [f EXCEPT !.header = w] = [exists |-> x, header |-> w, chunks |-> z]
         /\ [f EXCEPT !.chunks = w] = [exists |-> x, header |-> y, chunks |-> w]
OBVIOUS

LEMMA FreshFiles ==
  ASSUME NEW A
  PROVE  /\ NoFile \in FilesOver(A) /\ FreshFile \in FilesOver(A)
         /\ EmptyFile \in FilesOver(A)
         /\ \A h \in 0..HeaderUnits : [EmptyFile EXCEPT !.header = h] \in FilesOver(A)
         /\ \A h \in 0..HeaderUnits :
              [EmptyFile EXCEPT !.header = h]
                = [exists |-> TRUE, header |-> h, chunks |-> << >>]
         /\ NoFile = [exists |-> FALSE, header |-> 0, chunks |-> << >>]
         /\ FreshFile = [exists |-> TRUE, header |-> 2, chunks |-> << >>]
         /\ EmptyFile = [exists |-> TRUE, header |-> 0, chunks |-> << >>]
<1> DEFINE cs == << >>
           no == FALSE
           yes == TRUE
<1>1. /\ NoFile = [exists |-> no, header |-> 0, chunks |-> cs]
      /\ FreshFile = [exists |-> yes, header |-> 2, chunks |-> cs]
      /\ EmptyFile = [exists |-> yes, header |-> 0, chunks |-> cs]
      /\ \A h \in 0..HeaderUnits :
           [EmptyFile EXCEPT !.header = h]
             = [exists |-> yes, header |-> h, chunks |-> cs]
  <2>1. NoFile = [exists |-> no, header |-> 0, chunks |-> cs]
    BY DEF NoFile
  <2>2. EmptyFile = [NoFile EXCEPT !.exists = yes]
    BY DEF EmptyFile
  <2> HIDE DEF cs, no, yes
  <2>3. EmptyFile = [exists |-> yes, header |-> 0, chunks |-> cs]
    BY <2>1, <2>2, FileFields
  <2>4. FreshFile = [exists |-> yes, header |-> 2, chunks |-> cs]
    BY <2>3, FileFields DEF FreshFile, HeaderUnits
  <2>5. \A h \in 0..HeaderUnits :
          [EmptyFile EXCEPT !.header = h]
            = [exists |-> yes, header |-> h, chunks |-> cs]
    BY <2>3, FileFields
  <2> QED BY <2>1, <2>3, <2>4, <2>5
<1>2. cs \in Seq(ChunksOver(A))
  OBVIOUS
<1>3. 0 \in 0..HeaderUnits /\ 2 \in 0..HeaderUnits
  BY DEF HeaderUnits
<1> HIDE DEF cs
<1>4. \A b \in BOOLEAN, h \in 0..HeaderUnits :
        [exists |-> b, header |-> h, chunks |-> cs] \in FilesOver(A)
  BY <1>2 DEF FilesOver
<1> QED BY <1>1, <1>3, <1>4 DEF cs

\* A file with other chunks, field by field.
LEMMA OtherChunks ==
  ASSUME NEW A, NEW f \in FilesOver(A), NEW B, NEW cs \in Seq(ChunksOver(B))
  PROVE  /\ [f EXCEPT !.chunks = cs] \in FilesOver(B)
         /\ [f EXCEPT !.chunks = cs].chunks = cs
         /\ [f EXCEPT !.chunks = cs].header = f.header
         /\ [f EXCEPT !.chunks = cs].exists = f.exists
         /\ [f EXCEPT !.chunks = cs]
              = [exists |-> f.exists, header |-> f.header, chunks |-> cs]
BY DEF FilesOver

\* One more chunk.
LEMMA OneMoreChunk ==
  ASSUME NEW A, NEW f \in FilesOver(A), NEW c \in ChunksOver(A),
         NEW g, g = [f EXCEPT !.chunks = Append(f.chunks, c)]
  PROVE  /\ g \in FilesOver(A)
         /\ g.header = f.header /\ g.exists = f.exists
         /\ g.chunks = Append(f.chunks, c)
         /\ Len(f.chunks) \in Nat
         /\ Len(g.chunks) = Len(f.chunks) + 1
         /\ g.chunks[Len(f.chunks) + 1] = c
         /\ \A i \in 1..Len(f.chunks) : g.chunks[i] = f.chunks[i]
<1> DEFINE cs == Append(f.chunks, c)
<1>1. f.chunks \in Seq(ChunksOver(A))
  BY DEF FilesOver
<1>2. /\ cs \in Seq(ChunksOver(A)) /\ Len(f.chunks) \in Nat
      /\ Len(cs) = Len(f.chunks) + 1 /\ cs[Len(f.chunks) + 1] = c
      /\ \A i \in 1..Len(f.chunks) : cs[i] = f.chunks[i]
  BY <1>1
<1> HIDE DEF cs
<1> QED BY <1>2, OtherChunks DEF cs

\* What a cut is: no file, a piece of the header, or the chunks up to one whose
\* last units are gone.
LEMMA CutIs ==
  ASSUME NEW A, NEW f \in FilesOver(A), NEW c \in Cuts(f)
  PROVE  \/ c = NoFile
         \/ f.exists /\ \E h \in 0..f.header : c = [EmptyFile EXCEPT !.header = h]
         \/ \E i \in 1..Len(f.chunks) : \E k \in 1..f.chunks[i].written :
              /\ c \in FilesOver(A)
              /\ c.header = f.header /\ c.exists = f.exists
              /\ Len(c.chunks) = i
              /\ \A j \in 1..(i - 1) : c.chunks[j] = f.chunks[j]
              /\ c.chunks[i].frame = f.chunks[i].frame
              /\ c.chunks[i].written = k
              /\ c.chunks[i].rot = f.chunks[i].rot
<1>1. CASE c = NoFile
  BY <1>1
<1>2. CASE f.exists /\ c \in {[EmptyFile EXCEPT !.header = h] : h \in 0..f.header}
  BY <1>2
<1>3. ASSUME NEW i \in 1..Len(f.chunks), NEW k \in 1..f.chunks[i].written,
             c = [f EXCEPT !.chunks = SubSeq(@, 1, i - 1)
                            \o << [@[i] EXCEPT !.written = k] >>]
      PROVE  /\ c \in FilesOver(A)
             /\ c.header = f.header /\ c.exists = f.exists
             /\ Len(c.chunks) = i
             /\ \A j \in 1..(i - 1) : c.chunks[j] = f.chunks[j]
             /\ c.chunks[i].frame = f.chunks[i].frame
             /\ c.chunks[i].written = k
             /\ c.chunks[i].rot = f.chunks[i].rot
  <2> DEFINE e == [f.chunks[i] EXCEPT !.written = k]
             cs == SubSeq(f.chunks, 1, i - 1) \o << e >>
  <2>1. f.chunks \in Seq(ChunksOver(A)) /\ i - 1 \in 0..Len(f.chunks)
        /\ i \in Nat /\ (i - 1) + 1 = i /\ Len(f.chunks) \in Nat
    BY DEF FilesOver
  <2>2. f.chunks[i] \in ChunksOver(A)
    BY <2>1
  <2>3. k \in Nat \ {0}
    BY <2>2 DEF ChunksOver
  <2>4. /\ e \in ChunksOver(A) /\ e.written = k
        /\ e.frame = f.chunks[i].frame /\ e.rot = f.chunks[i].rot
    BY <2>2, <2>3 DEF ChunksOver
  <2>5. c = [f EXCEPT !.chunks = cs]
    BY <1>3
  <2> HIDE DEF e
  <2>6. /\ cs \in Seq(ChunksOver(A)) /\ Len(cs) = i /\ cs[i] = e
        /\ \A j \in 1..(i - 1) : cs[j] = f.chunks[j]
    <3> DEFINE n == i - 1
    <3>1. n \in 0..Len(f.chunks) /\ n + 1 = i
      BY <2>1
    <3> HIDE DEF n
    <3>2. /\ SubSeq(f.chunks, 1, n) \o << e >> \in Seq(ChunksOver(A))
          /\ Len(SubSeq(f.chunks, 1, n) \o << e >>) = n + 1
          /\ \A j \in 1..n : (SubSeq(f.chunks, 1, n) \o << e >>)[j] = f.chunks[j]
          /\ (SubSeq(f.chunks, 1, n) \o << e >>)[n + 1] = e
      BY <2>1, <2>4, <3>1, PrefixAndOne
    <3> QED BY <3>1, <3>2 DEF n
  <2> HIDE DEF cs
  <2>7. c \in FilesOver(A) /\ c.chunks = cs /\ c.header = f.header /\ c.exists = f.exists
    BY <2>5, <2>6, OtherChunks
  <2> QED BY <2>4, <2>6, <2>7
<1>4. \/ c = NoFile
      \/ f.exists /\ c \in {[EmptyFile EXCEPT !.header = h] : h \in 0..f.header}
      \/ \E i \in 1..Len(f.chunks) : \E k \in 1..f.chunks[i].written :
           c = [f EXCEPT !.chunks = SubSeq(@, 1, i - 1)
                            \o << [@[i] EXCEPT !.written = k] >>]
  BY DEF Cuts
<1> QED BY <1>1, <1>2, <1>3, <1>4

LEMMA CutAt ==
  ASSUME NEW f, NEW i \in 1..Len(f.chunks), NEW k \in 1..f.chunks[i].written
  PROVE  [f EXCEPT !.chunks = SubSeq(@, 1, i - 1) \o << [@[i] EXCEPT !.written = k] >>]
           \in Cuts(f)
<1> DEFINE x(j, m) == [f EXCEPT !.chunks = SubSeq(@, 1, j - 1)
                                            \o << [@[j] EXCEPT !.written = m] >>]
<1>1. x(i, k) \in {x(i, m) : m \in 1..f.chunks[i].written}
  OBVIOUS
<1>2. {x(i, m) : m \in 1..f.chunks[i].written}
        \in {{x(j, m) : m \in 1..f.chunks[j].written} : j \in 1..Len(f.chunks)}
  OBVIOUS
<1>3. UNION {{x(j, m) : m \in 1..f.chunks[j].written} : j \in 1..Len(f.chunks)}
        \subseteq Cuts(f)
  BY DEF Cuts
<1> HIDE DEF x
<1>4. x(i, k) \in Cuts(f)
  BY <1>1, <1>2, <1>3
<1> QED BY <1>4 DEF x

LEMMA CutsStayOver ==
  ASSUME NEW A, NEW f \in FilesOver(A), NEW c \in Cuts(f)
  PROVE  c \in FilesOver(A)
<1>1. \A h \in 0..f.header : h \in 0..HeaderUnits
  BY DEF FilesOver, HeaderUnits
<1> QED BY <1>1, CutIs, FreshFiles

\* A prefix of the chunks.
LEMMA FewerChunks ==
  ASSUME NEW A, NEW f \in FilesOver(A), NEW n \in 0..Len(f.chunks)
  PROVE  LET g == [f EXCEPT !.chunks = SubSeq(@, 1, n)] IN
         /\ g \in FilesOver(A)
         /\ g.header = f.header /\ g.exists = f.exists
         /\ Len(g.chunks) = n
         /\ \A i \in 1..n : g.chunks[i] = f.chunks[i]
         /\ n = Len(f.chunks) => g = f
<1> DEFINE cs == SubSeq(f.chunks, 1, n)
<1>1. f.chunks \in Seq(ChunksOver(A))
  BY DEF FilesOver
<1>2. /\ cs \in Seq(ChunksOver(A)) /\ Len(cs) = n
      /\ \A i \in 1..n : cs[i] = f.chunks[i]
      /\ n = Len(f.chunks) => cs = f.chunks
  BY <1>1, PrefixFacts
<1> HIDE DEF cs
<1>3. cs = f.chunks => [f EXCEPT !.chunks = cs] = f
  BY DEF FilesOver
<1> QED BY <1>2, <1>3, OtherChunks DEF cs

LEMMA ReadFacts ==
  ASSUME NEW A, NEW f \in FilesOver(A), NEW n \in 0..Len(f.chunks)
  PROVE  /\ Read(f, n) \in Seq(A)
         /\ Len(Read(f, n)) = n
         /\ \A i \in 1..n : Read(f, n)[i] = f.chunks[i].frame
<1>1. f.chunks \in Seq(ChunksOver(A))
  BY DEF FilesOver
<1>2. \A i \in 1..n : f.chunks[i].frame \in A
  <2> SUFFICES ASSUME NEW i \in 1..n PROVE f.chunks[i].frame \in A
    OBVIOUS
  <2>1. f.chunks[i] \in ChunksOver(A)
    BY <1>1
  <2> QED BY <2>1 DEF ChunksOver
<1>3. n \in Nat
  BY <1>1
<1> QED BY <1>2, <1>3 DEF Read

\* scan_frames stops at the first frame that is not good.
LEMMA ScannedFacts ==
  ASSUME NEW C, NEW cs \in Seq(C)
  PROVE  /\ Scanned(cs) \in 0..Len(cs)
         /\ \A i \in 1..Scanned(cs) : Verdict(cs, i) = "good"
         /\ Scanned(cs) < Len(cs) => Verdict(cs, Scanned(cs) + 1) # "good"
<1> DEFINE Stops(n) == /\ \A i \in 1..n : Verdict(cs, i) = "good"
                       /\ n < Len(cs) => Verdict(cs, n + 1) # "good"
           B == {i \in 1..Len(cs) : Verdict(cs, i) # "good"}
<1>1. Len(cs) \in Nat
  OBVIOUS
<1>2. \E n \in 0..Len(cs) : Stops(n)
  <2>1. CASE B = {}
    <3>1. Stops(Len(cs))
      BY <2>1, <1>1
    <3> QED BY <3>1, <1>1
  <2>2. CASE B # {}
    <3>1. PICK m \in B : \A k \in B : m <= k
      <4>1. B \in SUBSET Nat
        BY <1>1
      <4> HIDE DEF B
      <4> QED BY <4>1, <2>2, LeastOf
    <3>2. m - 1 \in 0..Len(cs) /\ m \in Nat /\ (m - 1) + 1 = m
      BY <1>1
    <3>3. ASSUME NEW i \in 1..(m - 1) PROVE Verdict(cs, i) = "good"
      <4>1. i \in 1..Len(cs) /\ ~ (m <= i)
        BY <3>2, <1>1
      <4> QED BY <4>1, <3>1
    <3>4. Stops(m - 1)
      BY <3>2, <3>3
    <3> QED BY <3>2, <3>4
  <2> QED BY <2>1, <2>2
<1>3. Scanned(cs) = CHOOSE n \in 0..Len(cs) : Stops(n)
  BY DEF Scanned
<1> HIDE DEF Stops
<1>4. Scanned(cs) \in 0..Len(cs) /\ Stops(Scanned(cs))
  BY <1>2, <1>3
<1> QED BY <1>4 DEF Stops

\* A good frame is read as it was written.
LEMMA GoodIsRead ==
  ASSUME NEW cs, NEW i, Verdict(cs, i) = "good"
  PROVE  ReadFrame(cs[i]) = cs[i].frame /\ Complete(cs[i]) /\ cs[i].rot = "none"
<1>1. cs[i].rot = "none" /\ Complete(cs[i])
  BY DEF Verdict
<1> QED BY <1>1 DEF ReadFrame

\* The frames a scan returns are those of the chunks it got through.
LEMMA ScanReads ==
  ASSUME NEW A, NEW f \in FilesOver(A)
  PROVE  /\ f.header < HeaderUnits =>
              ScanFrames(f) = [frames |-> << >>, outcome |-> "tornHeader"]
         /\ f.header >= HeaderUnits =>
              ScanFrames(f)
                = [frames  |-> Read(f, Scanned(f.chunks)),
                   outcome |-> IF Scanned(f.chunks) = Len(f.chunks) THEN "clean"
                               ELSE Verdict(f.chunks, Scanned(f.chunks) + 1)]
<1>1. f.chunks \in Seq(ChunksOver(A)) /\ f.header \in Nat
  BY DEF FilesOver
<1> DEFINE n == Scanned(f.chunks)
<1>2. \A i \in 1..n : ReadFrame(f.chunks[i]) = f.chunks[i].frame
  BY <1>1, ScannedFacts, GoodIsRead
<1>3. [i \in 1..n |-> ReadFrame(f.chunks[i])] = Read(f, n)
  <2> HIDE DEF n
  <2> QED BY <1>2 DEF Read
<1>4. f.header >= HeaderUnits <=> ~ (f.header < HeaderUnits)
  BY <1>1 DEF HeaderUnits
<1> HIDE DEF n
<1>5. ~ (f.header < HeaderUnits) =>
        ScanFrames(f)
          = [frames  |-> [i \in 1..n |-> ReadFrame(f.chunks[i])],
             outcome |-> IF n = Len(f.chunks) THEN "clean"
                         ELSE Verdict(f.chunks, n + 1)]
  BY DEF ScanFrames, n
<1> QED BY <1>3, <1>4, <1>5 DEF n, ScanFrames

LEMMA ScanTyped ==
  ASSUME NEW A, NEW f \in FilesOver(A)
  PROVE  \E n \in 0..Len(f.chunks) : ScanFrames(f).frames = Read(f, n)
<1>1. f.chunks \in Seq(ChunksOver(A)) /\ f.header \in Nat
  BY DEF FilesOver
<1>2. CASE f.header < HeaderUnits
  <2>1. ScanFrames(f).frames = << >>
    BY <1>2, ScanReads
  <2>2. Read(f, 0) = << >>
    BY DEF Read
  <2> QED BY <2>1, <2>2, <1>1
<1>3. CASE f.header >= HeaderUnits
  BY <1>1, <1>3, ScanReads, ScannedFacts
<1> QED BY <1>1, <1>2, <1>3 DEF HeaderUnits

LEMMA VerifyIsReport ==
  ASSUME NEW f
  PROVE  JournalVerify(f) = Report(ScanFrames(f))
BY DEF JournalVerify

\* journal_verify reports the frames of the scan and vouches for a part.
LEMMA ReportFacts ==
  ASSUME NEW A, NEW scan, scan.frames \in Seq(A)
  PROVE  /\ Report(scan).frames = scan.frames
         /\ Report(scan).good \in 0..Len(scan.frames)
         /\ Divergences(scan.frames) = {} =>
              /\ Report(scan).good = Len(scan.frames)
              /\ Report(scan).outcome = scan.outcome
<1> DEFINE bad == Divergences(scan.frames)
<1>1. Len(scan.frames) \in Nat
  OBVIOUS
<1>2. bad \in SUBSET (1..Len(scan.frames))
  BY DEF Divergences
<1>3. bad # {} => Min(bad) \in bad
  <2> SUFFICES ASSUME bad # {} PROVE Min(bad) \in bad
    OBVIOUS
  <2> HIDE DEF bad
  <2>1. \E m \in bad : \A k \in bad : m <= k
    BY <1>1, <1>2, LeastOf
  <2> QED BY <2>1 DEF Min
<1> HIDE DEF bad
<1>4. bad # {} => Min(bad) - 1 \in 0..Len(scan.frames)
  <2> DEFINE m == Min(bad)
             n == Len(scan.frames)
  <2>1. bad # {} => m \in 1..n
    BY <1>2, <1>3
  <2> HIDE DEF m, n
  <2>2. m \in 1..n => m - 1 \in 0..n
    BY <1>1 DEF n
  <2> QED BY <2>1, <2>2 DEF m, n
<1> QED BY <1>1, <1>4 DEF Report, bad

\* The frames vouched for are the first of the file, as they were written.
LEMMA VouchedIsRead ==
  ASSUME NEW A, NEW f \in FilesOver(A)
  PROVE  \E n \in 0..Len(f.chunks) : Vouched(f) = Read(f, n)
<1> DEFINE r == JournalVerify(f)
<1>1. PICK n \in 0..Len(f.chunks) : ScanFrames(f).frames = Read(f, n)
  BY ScanTyped
<1>2. Read(f, n) \in Seq(A) /\ Len(Read(f, n)) = n
  BY ReadFacts
<1>3. r.frames = Read(f, n) /\ r.good \in 0..n
  BY <1>1, <1>2, VerifyIsReport, ReportFacts
<1> DEFINE g == r.good
           s == SubSeq(Read(f, n), 1, g)
<1>4. Vouched(f) = s
  BY <1>3 DEF Vouched
<1>5. Len(f.chunks) \in Nat
  BY DEF FilesOver
<1>6. g \in 0..Len(f.chunks) /\ g \in 0..n
  BY <1>3, <1>5
<1> HIDE DEF r, g
<1>7. s = Read(f, g)
  <2>1. Read(f, g) \in Seq(A) /\ Len(Read(f, g)) = g
        /\ \A i \in 1..g : Read(f, g)[i] = f.chunks[i].frame
    BY <1>6, ReadFacts
  <2>2. s \in Seq(A) /\ Len(s) = g /\ \A i \in 1..g : s[i] = Read(f, n)[i]
    BY <1>2, <1>6, PrefixFacts
  <2>3. \A i \in 1..g : Read(f, n)[i] = f.chunks[i].frame
    BY <1>6, ReadFacts
  <2> HIDE DEF s
  <2>4. s \in Seq(ToSet(s)) /\ Read(f, g) \in Seq(ToSet(Read(f, g)))
    BY <2>1, <2>2, SeqOfOwn
  <2> QED BY <2>1, <2>2, <2>3, <2>4, SameSeq
<1> QED BY <1>4, <1>6, <1>7

LEMMA ReplayIsOfFrames ==
  ASSUME NEW f
  PROVE  JournalReplay(f) = Replayed(JournalVerify(f))
BY DEF JournalReplay

\* Whatever became of a file, the ledgers rebuilt from it are whole.
LEMMA JournalReplayIsWhole ==
  ASSUME NEW A, NEW f \in FilesOver(A)
  PROVE  WholeReplay(JournalReplay(f))
<1> DEFINE r == JournalVerify(f)
<1>1. PICK n \in 0..Len(f.chunks) : ScanFrames(f).frames = Read(f, n)
  BY ScanTyped
<1>2. r.frames \in Seq(A)
  <2>1. ScanFrames(f).frames \in Seq(A)
    BY <1>1, ReadFacts
  <2> QED BY <2>1, VerifyIsReport, ReportFacts
<1> HIDE DEF r
<1>3. (IF r.outcome = "divergence" THEN << >> ELSE r.frames) \in Seq(A)
  BY <1>2
<1>4. WholeReplay(Replayed(r))
  BY <1>3, ReplayIsWhole DEF Replayed
<1> QED BY <1>4, ReplayIsOfFrames DEF r

-----------------------------------------------------------------------------
(***************************************************************************)
(* NeverSilentlyWrong: every caller, every fault.                          *)
(***************************************************************************)

\* The entry record_event seals.
Recorded(l, v) == NextEntry(l, v, 0, v, 0, None)

\* Recording an event is restoring the entry it seals.
LEMMA RecordIsRestore ==
  ASSUME NEW l, NEW v
  PROVE  /\ Restorable(l, Recorded(l, v))
         /\ RecordWith(l, v, v, 0, None) = RestoreEntry(l, Recorded(l, v))
         /\ Recorded(l, v).after = v
         /\ Recorded(l, v).expected = Scored(l, None)
<1> DEFINE e == Recorded(l, v)
<1>1. /\ e.seq = l.nextSeq /\ e.prev = ChainHash(l) /\ e.before = l.state
      /\ e.after = v /\ e.hash = Seal(e) /\ e.expected = Scored(l, None)
  BY DEF NextEntry, Seal, CanonicalJson, Recorded
<1>2. Restorable(l, e)
  <2> HIDE DEF e
  <2> QED BY <1>1 DEF Restorable
<1>3. RecordWith(l, v, v, 0, None)
        = [l EXCEPT !.nextSeq = l.nextSeq + 1, !.state = v,
                    !.entries = Append(l.entries, e)]
  BY DEF RecordWith, AppendEntry, Recorded
<1>4. RestoreEntry(l, e)
        = [l EXCEPT !.state = e.after, !.nextSeq = l.nextSeq + 1,
                    !.entries = Append(l.entries, e)]
  BY <1>2 DEF RestoreEntry
<1> HIDE DEF e
<1>5. [l EXCEPT !.state = v, !.nextSeq = l.nextSeq + 1,
                !.entries = Append(l.entries, e)]
        = [l EXCEPT !.nextSeq = l.nextSeq + 1, !.state = v,
                    !.entries = Append(l.entries, e)]
  OBVIOUS
<1> QED BY <1>1, <1>2, <1>3, <1>4, <1>5 DEF e

WholeLedgers(L) ==
  /\ L = [c \in JCell |-> L[c]]
  /\ \A c \in JCell : Whole(L[c])

\* record_event's ledgers, and the entry it frames.
LEMMA RecordedFacts ==
  ASSUME WholeLedgers(ledgers), NEW c \in JCell, NEW v
  PROVE  /\ WholeLedgers(RecordedIn(c, v))
         /\ RecordedIn(c, v)
              = [d \in JCell |-> IF d = c THEN RestoreEntry(ledgers[d], Recorded(ledgers[d], v))
                                 ELSE ledgers[d]]
         /\ Last(RecordedIn(c, v)[c].entries) = Recorded(ledgers[c], v)
<1> DEFINE R == RecordedIn(c, v)
           m == RestoreEntry(ledgers[c], Recorded(ledgers[c], v))
           e == Recorded(ledgers[c], v)
<1>1. R = [ledgers EXCEPT ![c] = m]
  BY RecordIsRestore DEF RecordedIn
<1>2. Whole(ledgers[c]) /\ Restorable(ledgers[c], e)
  BY RecordIsRestore DEF WholeLedgers
<1>3. Whole(m) /\ m.entries = Append(ledgers[c].entries, e)
  BY <1>2, RestoreKeepsWhole, RestoreFields
<1>4. Last(m.entries) = e
  <2>1. ledgers[c].entries \in Seq(ToSet(ledgers[c].entries))
    BY <1>2 DEF Whole
  <2> HIDE DEF e, m
  <2>2. Len(m.entries) = Len(ledgers[c].entries) + 1
        /\ m.entries[Len(ledgers[c].entries) + 1] = e
    BY <1>3, <2>1, AppendFacts
  <2> QED BY <2>2 DEF Last
<1>5. /\ R[c] = m
      /\ R = [d \in JCell |-> IF d = c THEN RestoreEntry(ledgers[d], Recorded(ledgers[d], v))
                              ELSE ledgers[d]]
  <2>1. ledgers = [d \in JCell |-> ledgers[d]]
    BY DEF WholeLedgers
  <2>2. \A d \in JCell : d = c => m = RestoreEntry(ledgers[d], Recorded(ledgers[d], v))
    OBVIOUS
  <2> HIDE DEF m, R
  <2> QED BY <1>1, <2>1, <2>2
<1>6. WholeLedgers(R)
  <2> HIDE DEF m, R
  <2>1. R = [d \in JCell |-> R[d]]
    BY <1>5
  <2>2. \A d \in JCell : Whole(R[d])
    BY <1>3, <1>5 DEF WholeLedgers, m
  <2> QED BY <2>1, <2>2 DEF WholeLedgers
<1> QED BY <1>4, <1>5, <1>6

\* Frames that take at least a unit for their body.
Sized(f) == f.body \in Nat \ {0}

LEMMA FrameFields ==
  ASSUME NEW type, NEW seq, NEW prev, NEW payload
  PROVE  /\ Frame(type, seq, prev, payload).type = type
         /\ Frame(type, seq, prev, payload).seq = seq
         /\ Frame(type, seq, prev, payload).payload = payload
         /\ Frame(type, seq, prev, payload).head = NextHead(prev, type, seq, payload)
         /\ Frame(type, seq, prev, payload).body
              = IF type = "entry" THEN BodyOf[payload.entry.after] ELSE 1
BY DEF Frame

\* The frames the recorder makes.
LEMMA NewFramesSized ==
  ASSUME WholeLedgers(ledgers)
  PROVE  /\ Sized(NewFrame("sheet", SheetPayload))
         /\ Sized(NewFrame("checkpoint", [note |-> "heartbeat"]))
         /\ \A c \in JCell, v \in Event : Sized(EventFrame(c, v))
<1>1. ASSUME NEW type, type # "entry", NEW payload
      PROVE  Sized(NewFrame(type, payload))
  BY <1>1, FrameFields DEF NewFrame, Sized
<1>2. ASSUME NEW c \in JCell, NEW v \in Event
      PROVE  Sized(EventFrame(c, v))
  <2>1. Last(RecordedIn(c, v)[c].entries).after = v
    BY RecordedFacts, RecordIsRestore
  <2> DEFINE p == [cell |-> c, entry |-> Last(RecordedIn(c, v)[c].entries)]
  <2>2. EventFrame(c, v).body = BodyOf[p.entry.after]
    BY FrameFields DEF EventFrame, NewFrame
  <2>3. p.entry.after = v
    BY <2>1
  <2>4. v \in Value
    BY JournalAssumption
  <2>5. BodyOf[v] \in Nat \ {0}
    BY <2>4, JournalFileAssumption
  <2> HIDE DEF p
  <2> QED BY <2>2, <2>3, <2>5 DEF Sized
<1> QED BY <1>1, <1>2

\* Both files carry only frames that were handed to write_all.
OnlyAppended ==
  /\ file \in FilesOver(appended)
  /\ durable \in FilesOver(appended)
  /\ \A f \in appended : Sized(f)
  /\ WholeLedgers(ledgers)

LEMMA InitOnlyAppended == Init => OnlyAppended
<1> SUFFICES ASSUME Init PROVE OnlyAppended
  OBVIOUS
<1>1. file \in FilesOver(appended) /\ durable \in FilesOver(appended)
  BY FreshFiles DEF Init
<1>2. WholeReplay(ReplayStart) /\ ReplayStart.ledgers = ledgers
  BY StartIsWhole DEF ReplayStart, Init
<1> QED BY <1>1, <1>2 DEF Init, OnlyAppended, WholeReplay, WholeLedgers

\* What a write does to the file, whether it succeeds or fails part way.
LEMMA WriteKeepsOnlyAppended ==
  ASSUME OnlyAppended, NEW f, Sized(f), NEW k \in 1..FrameUnits(f),
         appended' = appended \cup {f}, durable' = durable,
         file' = [file EXCEPT !.chunks = Append(@, Chunk(f, k))]
  PROVE  /\ file' \in FilesOver(appended')
         /\ durable' \in FilesOver(appended')
         /\ \A g \in appended' : Sized(g)
<1> USE DEF OnlyAppended
<1>1. file \in FilesOver(appended') /\ durable' \in FilesOver(appended')
  <2>1. appended \subseteq appended'
    OBVIOUS
  <2> QED BY <2>1, MoreFrames
<1>2. Chunk(f, k) \in ChunksOver(appended')
  <2>1. k \in Nat \ {0} /\ f \in appended'
    BY DEF FrameUnits, Sized
  <2> QED BY <2>1 DEF Chunk, ChunksOver
<1> QED BY <1>1, <1>2, OneMoreChunk

LEMMA WriteFrameOnlyAppended ==
  ASSUME OnlyAppended, NEW f, Sized(f), WriteFrame(f)
  PROVE  /\ file' \in FilesOver(appended')
         /\ durable' \in FilesOver(appended')
         /\ \A g \in appended' : Sized(g)
<1>1. FrameUnits(f) \in 1..FrameUnits(f)
  BY DEF FrameUnits, Sized
<1> QED BY <1>1, WriteKeepsOnlyAppended DEF WriteFrame, Chunk

LEMMA WriteFrameFailsOnlyAppended ==
  ASSUME OnlyAppended, NEW f, Sized(f), NEW L, WholeLedgers(L),
         WriteFrameFails(f, L)
  PROVE  OnlyAppended'
<1>1. PICK k \in 0..(FrameUnits(f) - 1) :
        file' = IF k = 0 THEN file
                ELSE [file EXCEPT !.chunks = Append(@, Chunk(f, k))]
  BY DEF WriteFrameFails
<1>2. appended' = appended \cup {f} /\ durable' = durable
  BY DEF WriteFrameFails
<1>3. WholeLedgers(ledgers')
  <2>1. WholeReplay(ReplayStart) /\ ReplayStart.ledgers = NoLedgers
    BY StartIsWhole DEF ReplayStart
  <2> QED BY <2>1 DEF WriteFrameFails, ProcessDies, WholeReplay, WholeLedgers
<1>4. CASE k = 0
  <2>1. appended \subseteq appended'
    BY <1>2
  <2>2. file' \in FilesOver(appended') /\ durable' \in FilesOver(appended')
    BY <1>1, <1>2, <1>4, <2>1, MoreFrames DEF OnlyAppended
  <2> QED BY <1>2, <1>3, <2>2 DEF OnlyAppended
<1>5. CASE k # 0
  <2>1. k \in 1..FrameUnits(f)
    BY <1>5 DEF FrameUnits, Sized
  <2> QED BY <1>1, <1>2, <1>3, <1>5, <2>1, WriteKeepsOnlyAppended DEF OnlyAppended
<1> QED BY <1>4, <1>5

LEMMA TruncatedOver ==
  ASSUME NEW A, NEW f \in FilesOver(A)
  PROVE  Truncated(f, JournalVerify(f)) \in FilesOver(A)
<1> DEFINE r == JournalVerify(f)
<1>1. PICK n \in 0..Len(f.chunks) : ScanFrames(f).frames = Read(f, n)
  BY ScanTyped
<1>2. Len(f.chunks) \in Nat
  BY DEF FilesOver
<1>3. r.good \in 0..n
  <2>1. ScanFrames(f).frames \in Seq(A) /\ Len(ScanFrames(f).frames) = n
    BY <1>1, ReadFacts
  <2> QED BY <2>1, VerifyIsReport, ReportFacts
<1>4. r.good \in 0..Len(f.chunks)
  BY <1>2, <1>3
<1> HIDE DEF r
<1>5. [f EXCEPT !.chunks = SubSeq(@, 1, r.good)] \in FilesOver(A)
  BY <1>4, FewerChunks
<1>6. Truncated(f, r) \in FilesOver(A)
  BY <1>5 DEF Truncated
<1> QED BY <1>6 DEF r

LEMMA NextOnlyAppended == OnlyAppended /\ [Next]_vars => OnlyAppended'
<1> SUFFICES ASSUME OnlyAppended, [Next]_vars PROVE OnlyAppended'
  OBVIOUS
<1> DEFINE Quiet == UNCHANGED << appended, durable >>
<1>1. WholeLedgers(ledgers) /\ WholeLedgers(NoLedgers)
  <2>1. WholeReplay(ReplayStart) /\ ReplayStart.ledgers = NoLedgers
    BY StartIsWhole DEF ReplayStart
  <2> QED BY <2>1 DEF WholeReplay, WholeLedgers, OnlyAppended
<1>2. ASSUME UNCHANGED << appended, durable >>, file' \in FilesOver(appended),
             ledgers' = ledgers \/ ledgers' = NoLedgers
      PROVE  OnlyAppended'
  BY <1>1, <1>2 DEF OnlyAppended
<1>3. CASE Create
  BY <1>2, <1>3, FreshFiles DEF Create, history
<1>4. CASE CreateFails
  <2>1. \A h \in 0..(HeaderUnits - 1) : h \in 0..HeaderUnits
    BY DEF HeaderUnits
  <2> QED BY <1>2, <1>4, <2>1, FreshFiles DEF CreateFails, process, history
<1>5. CASE ReopenEmpty
  BY <1>2, <1>5, FreshFiles DEF ReopenEmpty, history
<1>6. CASE Resume
  <2>1. file' = Truncated(file, JournalVerify(file))
    BY <1>6 DEF Resume
  <2>2. file' \in FilesOver(appended)
    BY <2>1, TruncatedOver DEF OnlyAppended
  <2> QED BY <1>2, <1>6, <2>2 DEF Resume, history
<1>7. CASE RebuildLedgers
  <2>1. WholeReplay(JournalReplay(file))
    BY JournalReplayIsWhole DEF OnlyAppended
  <2>2. WholeLedgers(ledgers')
    BY <1>7, <2>1 DEF RebuildLedgers, WholeReplay, WholeLedgers
  <2> QED BY <1>7, <2>2 DEF RebuildLedgers, disk, history, OnlyAppended
<1>8. CASE RecoverFile
  <2>1. file' = Truncated(file, JournalVerify(file))
    BY <1>8 DEF RecoverFile, Recovered
  <2>2. file' \in FilesOver(appended)
    BY <2>1, TruncatedOver DEF OnlyAppended
  <2> QED BY <1>2, <1>8, <2>2 DEF RecoverFile, process, history
<1>9. CASE Start
  <2>1. Sized(NewFrame("sheet", SheetPayload))
    BY <1>1, NewFramesSized
  <2> QED BY <1>1, <1>9, <2>1, WriteFrameOnlyAppended DEF Start, OnlyAppended
<1>10. CASE StartFails
  BY <1>1, <1>10, NewFramesSized, WriteFrameFailsOnlyAppended DEF StartFails
<1>11. CASE Checkpoint
  <2>1. Sized(NewFrame("checkpoint", [note |-> "heartbeat"]))
    BY <1>1, NewFramesSized
  <2> QED BY <1>1, <1>11, <2>1, WriteFrameOnlyAppended DEF Checkpoint, OnlyAppended
<1>12. ASSUME NEW c \in JCell, NEW v \in Event, RecordEvent(c, v)
       PROVE  OnlyAppended'
  <2>1. Sized(EventFrame(c, v)) /\ WholeLedgers(RecordedIn(c, v))
    BY <1>1, NewFramesSized, RecordedFacts
  <2> QED BY <1>12, <2>1, WriteFrameOnlyAppended DEF RecordEvent, OnlyAppended
<1>13. ASSUME NEW c \in JCell, NEW v \in Event, RecordEventFails(c, v)
       PROVE  OnlyAppended'
  <2>1. Sized(EventFrame(c, v)) /\ WholeLedgers(RecordedIn(c, v))
    BY <1>1, NewFramesSized, RecordedFacts
  <2> QED BY <1>13, <2>1, WriteFrameFailsOnlyAppended DEF RecordEventFails
<1>14. CASE Ack
  BY <1>14 DEF Ack, OnlyAppended
<1>15. CASE SyncFails
  BY <1>1, <1>15 DEF SyncFails, ProcessDies, disk, history, OnlyAppended
<1>16. CASE Exit
  BY <1>1, <1>16 DEF Exit, ProcessDies, disk, history, OnlyAppended
<1>17. CASE PowerLoss
  <2>1. file' = durable \/ file' \in Cuts(file)
    BY <1>17 DEF PowerLoss
  <2>2. file' \in FilesOver(appended)
    BY <2>1, CutsStayOver DEF OnlyAppended
  <2>3. durable' = file' /\ ledgers' = NoLedgers /\ appended' = appended
    BY <1>17 DEF PowerLoss, ProcessDies, history
  <2> QED BY <1>1, <2>2, <2>3 DEF OnlyAppended
<1>18. CASE BitRot
  <2>1. PICK i \in 1..Len(file.chunks), kind \in RotKinds :
          file' = [file EXCEPT !.chunks[i].rot = kind]
    BY <1>18 DEF BitRot
  <2>2. kind \in {"none", "body", "length"}
    BY JournalAssumption
  <2>3. file.chunks \in Seq(ChunksOver(appended))
    BY DEF OnlyAppended, FilesOver
  <2> DEFINE d == [file.chunks[i] EXCEPT !.rot = kind]
             cs == [file.chunks EXCEPT ![i] = d]
  <2>4. d \in ChunksOver(appended)
    <3>1. file.chunks[i] \in ChunksOver(appended)
      BY <2>3
    <3> QED BY <2>2, <3>1 DEF ChunksOver
  <2>5. file' = [file EXCEPT !.chunks = cs]
    BY <2>1
  <2> HIDE DEF d
  <2>6. cs \in Seq(ChunksOver(appended))
    BY <2>3, <2>4
  <2> HIDE DEF cs
  <2>7. file' \in FilesOver(appended)
    BY <2>5, <2>6, OtherChunks DEF OnlyAppended
  <2> QED BY <1>18, <2>7 DEF BitRot, process, history, OnlyAppended
<1>19. CASE UNCHANGED vars
  BY <1>19 DEF vars, OnlyAppended
<1> QED BY <1>3, <1>4, <1>5, <1>6, <1>7, <1>8, <1>9, <1>10, <1>11, <1>12,
           <1>13, <1>14, <1>15, <1>16, <1>17, <1>18, <1>19 DEF Next

\* What it takes: the readers vouch for what was appended, and rebuild whole
\* ledgers from whatever they read.
LEMMA OnlyAppendedIsHonest == OnlyAppended => NeverSilentlyWrong
<1> SUFFICES ASSUME OnlyAppended PROVE NeverSilentlyWrong
  OBVIOUS
<1>1. PICK n \in 0..Len(file.chunks) : Vouched(file) = Read(file, n)
  BY VouchedIsRead DEF OnlyAppended
<1>2. Read(file, n) \in Seq(appended)
  BY ReadFacts DEF OnlyAppended
<1>3. \A i \in 1..Len(Vouched(file)) : Vouched(file)[i] \in appended
  BY <1>1, <1>2
<1>4. WholeReplay(JournalReplay(file))
  BY JournalReplayIsWhole DEF OnlyAppended
<1> QED BY <1>3, <1>4 DEF NeverSilentlyWrong, WholeReplay, Whole

\* "Never a silent wrong state": under every fault the model has, of every
\* caller, a careless one included, the readers vouch for nothing the writer
\* did not append and rebuild only ledgers whose chains verify.
THEOREM NeverSilentlyWrongAlways == Spec => []NeverSilentlyWrong
<1>1. OnlyAppended /\ [Next]_vars => OnlyAppended'
  BY NextOnlyAppended
<1> QED BY <1>1, InitOnlyAppended, OnlyAppendedIsHonest, PTL DEF Spec

-----------------------------------------------------------------------------
(***************************************************************************)
(* The disciplined caller: what is acknowledged survives.                  *)
(***************************************************************************)

\* The configurations the rest is proved of.  The caller exits on the first
\* error and starts a recorder on new journals only, the medium does not rot,
\* no event is null and none is larger than the reader accepts.  The runs show
\* that none of this can be dropped.
Disciplined ==
  /\ FailStop /\ ~ RestartByStart
  /\ RotKinds = {}
  /\ Null \notin Event
  /\ \A v \in Event : BodyOf[v] <= MaxBody

\* How many frames a file that was only ever cut at its end has complete.
Kept(f) ==
  IF Len(f.chunks) # 0 /\ ~ Complete(f.chunks[Len(f.chunks)])
  THEN Len(f.chunks) - 1 ELSE Len(f.chunks)

\* The head that frame i names as its predecessor.
HeadAt(f, i) == IF i = 1 THEN FrameGenesis ELSE f.chunks[i - 1].frame.head

\* A frame the reader accepts and a replay reads back as it was recorded.
Legible(fr) ==
  /\ fr.body \in 1..MaxBody
  /\ fr.type = "sheet" => fr.payload = SheetPayload
  /\ fr.type = "entry" => EntryOf(fr).after \in Event

\* Frame fr is the i-th, after one whose head is prev.
Linked(fr, i, prev) ==
  /\ fr.seq = i
  /\ fr.head = NextHead(prev, fr.type, fr.seq, fr.payload)
  /\ (fr.type = "sheet") <=> (i = 1)

\* A journal that was only ever cut at its end: legible, linked frames, all of
\* them complete but perhaps the last, that replay without a rejection.
Sound(f) ==
  /\ f.exists \/ f.header = 0
  /\ f.header < HeaderUnits => Len(f.chunks) = 0
  /\ \A i \in 1..Len(f.chunks) :
       /\ f.chunks[i].rot = "none"
       /\ f.chunks[i].written <= FrameUnits(f.chunks[i].frame)
       /\ i < Len(f.chunks) => Complete(f.chunks[i])
       /\ Legible(f.chunks[i].frame)
       /\ Linked(f.chunks[i].frame, i, HeadAt(f, i))
  /\ \A n \in 0..Kept(f) : ~ ReplayFrames(Read(f, n)).rejected

\* What is durable is still in the file.
Agree(d, f) ==
  /\ d.exists => f.exists
  /\ d.header <= f.header
  /\ \A i \in 1..Kept(d) : i <= Len(f.chunks) /\ f.chunks[i] = d.chunks[i]

\* What is acknowledged is durable.
AckedDurable ==
  \A f \in acked : f.seq \in 1..Kept(durable) /\ durable.chunks[f.seq].frame = f

\* An open writer stands at the end of a whole file, or before the last frame
\* while that one is in flight.
Standing ==
  LET n == Len(file.chunks) IN
  /\ file.exists /\ file.header = HeaderUnits /\ Kept(file) = n
  /\ inflight = None => /\ writer.nextSeq = n + 1
                        /\ writer.head = HeadAt(file, n + 1)
  /\ inflight # None => /\ n # 0 /\ inflight = Some(file.chunks[n].frame)
                        /\ writer.nextSeq = n

\* A recorder has what a replay of its file gives.
Live ==
  LET n == Len(file.chunks) IN
  /\ n # 0
  /\ ReplayFrames(Read(file, n)) = [ledgers |-> ledgers, rejected |-> FALSE]

ProcessState ==
  /\ writer \in [open : BOOLEAN, nextSeq : Nat \ {0}, head : {writer.head}, sync : BOOLEAN]
  /\ crashes \in Nat
  /\ writer.open => Standing
  /\ ~ writer.open => inflight = None /\ ~ recording
  /\ inflight # None => recording
  /\ recording => Live

JInv ==
  /\ OnlyAppended
  /\ Sound(file) /\ Sound(durable)
  /\ Agree(durable, file)
  /\ AckedDurable
  /\ ProcessState

\* How many units the last chunks of a file hold, as UnitsFrom computes it.
Units(cs, N, g) ==
  g = [n \in 0..N |-> IF n = 0 THEN 0
                      ELSE g[n - 1] + cs[Len(cs) - n + 1].written]

LEMMA UnitsExist ==
  ASSUME NEW cs, NEW N \in Nat
  PROVE  \E g : Units(cs, N, g)
<1> DEFINE S == {n \in Nat : \E g : Units(cs, n, g)}
<1>1. 0 \in S
  <2> DEFINE g == [n \in 0..0 |-> 0]
  <2>1. g = [n \in 0..0 |-> IF n = 0 THEN 0
                            ELSE g[n - 1] + cs[Len(cs) - n + 1].written]
    OBVIOUS
  <2> QED BY <2>1 DEF Units
<1>2. ASSUME NEW n \in S PROVE n + 1 \in S
  <2>1. PICK g : Units(cs, n, g)
    OBVIOUS
  <2> DEFINE h == [k \in 0..(n + 1) |->
                     IF k = n + 1 THEN g[n] + cs[Len(cs) - (n + 1) + 1].written
                     ELSE g[k]]
  <2>2. ASSUME NEW k \in 0..(n + 1)
        PROVE  h[k] = IF k = 0 THEN 0
                      ELSE h[k - 1] + cs[Len(cs) - k + 1].written
    BY <2>1 DEF Units
  <2>3. h = [k \in 0..(n + 1) |-> IF k = 0 THEN 0
                                  ELSE h[k - 1] + cs[Len(cs) - k + 1].written]
    <3>1. h = [k \in 0..(n + 1) |-> h[k]]
      OBVIOUS
    <3> HIDE DEF h
    <3> QED BY <2>2, <3>1
  <2>4. Units(cs, n + 1, h)
    <3> HIDE DEF h
    <3> QED BY <2>3 DEF Units
  <2> QED BY <2>4
<1> HIDE DEF S
<1>3. S = Nat
  <2>1. S \in SUBSET Nat
    BY DEF S
  <2> QED BY <1>1, <1>2, <2>1, Induct
<1> QED BY <1>3 DEF S

\* The units that follow a frame's start are at least its own, and for the last
\* frame they are its own.
LEMMA UnitsFacts ==
  ASSUME NEW A, NEW cs \in Seq(ChunksOver(A)), NEW i \in 1..Len(cs)
  PROVE  /\ UnitsFrom(cs, i) \in Nat
         /\ UnitsFrom(cs, i) >= cs[i].written
         /\ i = Len(cs) => UnitsFrom(cs, i) = cs[i].written
<1> DEFINE N == Len(cs)
           g == CHOOSE g : Units(cs, N, g)
<1>1. N \in Nat
  OBVIOUS
<1>2. \A j \in 1..N : cs[j].written \in Nat
  <2>1. \A j \in 1..N : cs[j] \in ChunksOver(A)
    OBVIOUS
  <2> QED BY <2>1 DEF ChunksOver
<1>3. Units(cs, N, g)
  BY <1>1, UnitsExist
<1>4. UnitsFrom(cs, i) = g[N - i + 1]
  BY DEF UnitsFrom, Units
<1> HIDE DEF g
<1>5. g[0] = 0 /\ \A n \in 1..N : g[n] = g[n - 1] + cs[N - n + 1].written
  BY <1>1, <1>3 DEF Units
<1> DEFINE S == {n \in Nat : n <= N => g[n] \in Nat}
<1> HIDE DEF N
<1>6. S = Nat
  <2>1. 0 \in S
    BY <1>5
  <2>2. ASSUME NEW n \in S PROVE n + 1 \in S
    <3> SUFFICES ASSUME n + 1 <= N PROVE g[n + 1] \in Nat
      OBVIOUS
    <3>1. n \in Nat /\ n + 1 \in 1..N /\ (n + 1) - 1 = n /\ g[n] \in Nat
      BY <1>1
    <3>2. N - (n + 1) + 1 \in 1..N
      BY <1>1, <3>1
    <3> QED BY <1>2, <1>5, <3>1, <3>2
  <2>3. S \in SUBSET Nat
    OBVIOUS
  <2> HIDE DEF S
  <2> QED BY <2>1, <2>2, <2>3, Induct
<1> DEFINE m == N - i + 1
<1>7. m \in 1..N /\ m - 1 \in Nat /\ m - 1 <= N /\ N - m + 1 = i
  BY <1>1 DEF N
<1>8. g[m] = g[m - 1] + cs[i].written /\ g[m - 1] \in Nat
  BY <1>5, <1>6, <1>7
<1>9. cs[i].written \in Nat
  BY <1>2 DEF N
<1>10. i = N => g[m - 1] = 0
  BY <1>1, <1>5
<1> HIDE DEF m
<1>11. /\ g[m] \in Nat /\ g[m] >= cs[i].written
       /\ i = N => g[m] = cs[i].written
  BY <1>8, <1>9, <1>10
<1> QED BY <1>4, <1>11 DEF m, N

\* What Sound and Kept say of the chunks.
LEMMA KeptFacts ==
  ASSUME NEW A, NEW f \in FilesOver(A), Sound(f)
  PROVE  /\ Len(f.chunks) \in Nat
         /\ Kept(f) \in 0..Len(f.chunks)
         /\ \A i \in 1..Kept(f) : Complete(f.chunks[i])
         /\ Kept(f) < Len(f.chunks) =>
              Len(f.chunks) = Kept(f) + 1 /\ ~ Complete(f.chunks[Kept(f) + 1])
<1> DEFINE n == Len(f.chunks)
<1>1. n \in Nat
  BY DEF FilesOver
<1>2. \A i \in 1..n : i < n => Complete(f.chunks[i])
  BY DEF Sound
<1> HIDE DEF n
<1>3. CASE n # 0 /\ ~ Complete(f.chunks[n])
  <2>1. Kept(f) = n - 1
    BY <1>3 DEF Kept, n
  <2> QED BY <1>1, <1>2, <1>3, <2>1 DEF n
<1>4. CASE ~ (n # 0 /\ ~ Complete(f.chunks[n]))
  <2>1. Kept(f) = n
    BY <1>4 DEF Kept, n
  <2> QED BY <1>1, <1>2, <1>4, <2>1 DEF n
<1> QED BY <1>3, <1>4

LEMMA SoundVerdicts ==
  ASSUME NEW A, NEW f \in FilesOver(A), Sound(f), \A a \in A : Sized(a)
  PROVE  /\ \A i \in 1..Kept(f) : Verdict(f.chunks, i) = "good"
         /\ Kept(f) < Len(f.chunks) => Verdict(f.chunks, Kept(f) + 1) = "torn"
<1> DEFINE cs == f.chunks
<1>1. cs \in Seq(ChunksOver(A))
  BY DEF FilesOver
<1>2. ASSUME NEW i \in 1..Len(cs)
      PROVE  /\ cs[i].rot = "none" /\ ~ OutOfRange(cs[i])
             /\ FrameUnits(cs[i].frame) \in Nat /\ cs[i].written \in Nat
             /\ cs[i].written <= FrameUnits(cs[i].frame)
  <2>1. cs[i] \in ChunksOver(A)
    BY <1>1
  <2>2. Sized(cs[i].frame) /\ cs[i].written \in Nat
    BY <2>1 DEF ChunksOver
  <2>3. /\ cs[i].rot = "none" /\ cs[i].written <= FrameUnits(cs[i].frame)
        /\ cs[i].frame.body \in 1..MaxBody
    BY <1>2 DEF Sound, Legible
  <2>4. ~ OutOfRange(cs[i])
    BY <2>2, <2>3, JournalFileAssumption DEF OutOfRange, Sized
  <2> QED BY <2>2, <2>3, <2>4 DEF FrameUnits, Sized
<1>3. ASSUME NEW i \in 1..Kept(f) PROVE Verdict(cs, i) = "good"
  <2>1. i \in 1..Len(cs) /\ Complete(cs[i])
    BY KeptFacts
  <2>2. ~ Torn(cs, i)
    BY <1>1, <1>2, <2>1, UnitsFacts DEF Torn, Complete
  <2> QED BY <1>2, <2>1, <2>2 DEF Verdict
<1>4. ASSUME Kept(f) < Len(cs) PROVE Verdict(cs, Kept(f) + 1) = "torn"
  <2> DEFINE k == Kept(f) + 1
  <2>1. k = Len(cs) /\ k \in 1..Len(cs) /\ ~ Complete(cs[k])
    BY <1>4, KeptFacts
  <2> HIDE DEF k
  <2>2. UnitsFrom(cs, k) = cs[k].written
    BY <1>1, <2>1, UnitsFacts
  <2>3. cs[k].written < FrameUnits(cs[k].frame)
    BY <1>2, <2>1 DEF Complete
  <2>4. Torn(cs, k)
    BY <2>2, <2>3 DEF Torn
  <2> QED BY <1>2, <2>1, <2>4 DEF Verdict, k
<1> QED BY <1>3, <1>4

LEMMA SoundScan ==
  ASSUME NEW A, NEW f \in FilesOver(A), Sound(f), \A a \in A : Sized(a)
  PROVE  /\ ScanFrames(f).frames = Read(f, Kept(f))
         /\ ScanFrames(f).outcome
              = IF f.header < HeaderUnits THEN "tornHeader"
                ELSE IF Kept(f) = Len(f.chunks) THEN "clean" ELSE "torn"
<1> DEFINE n == Scanned(f.chunks)
           k == Kept(f)
<1>1. f.chunks \in Seq(ChunksOver(A)) /\ f.header \in Nat /\ k \in 0..Len(f.chunks)
      /\ Len(f.chunks) \in Nat
  BY KeptFacts DEF FilesOver
<1>2. n = k
  <2>1. /\ n \in 0..Len(f.chunks) /\ \A i \in 1..n : Verdict(f.chunks, i) = "good"
        /\ n < Len(f.chunks) => Verdict(f.chunks, n + 1) # "good"
    BY <1>1, ScannedFacts
  <2>2. /\ \A i \in 1..k : Verdict(f.chunks, i) = "good"
        /\ k < Len(f.chunks) => Verdict(f.chunks, k + 1) = "torn"
    BY SoundVerdicts
  <2> HIDE DEF n, k
  <2>3. ~ (n < k)
    <3> SUFFICES ASSUME n < k PROVE FALSE
      OBVIOUS
    <3>1. n + 1 \in 1..k /\ n < Len(f.chunks)
      BY <1>1, <2>1
    <3> QED BY <2>1, <2>2, <3>1
  <2>4. ~ (k < n)
    <3> SUFFICES ASSUME k < n PROVE FALSE
      OBVIOUS
    <3>1. k + 1 \in 1..n /\ k < Len(f.chunks)
      BY <1>1, <2>1
    <3> QED BY <2>1, <2>2, <3>1
  <2> QED BY <1>1, <2>1, <2>3, <2>4
<1>3. CASE f.header < HeaderUnits
  <2>1. k = 0
    BY <1>1, <1>3 DEF Sound
  <2>2. Read(f, 0) = << >>
    BY DEF Read
  <2> QED BY <1>3, <2>1, <2>2, ScanReads
<1>4. CASE ~ (f.header < HeaderUnits)
  <2>1. f.header >= HeaderUnits
    BY <1>1, <1>4 DEF HeaderUnits
  <2>2. ScanFrames(f)
          = [frames  |-> Read(f, n),
             outcome |-> IF n = Len(f.chunks) THEN "clean"
                         ELSE Verdict(f.chunks, n + 1)]
    BY <2>1, ScanReads
  <2>3. k # Len(f.chunks) => Verdict(f.chunks, k + 1) = "torn"
    BY <1>1, SoundVerdicts
  <2> HIDE DEF n, k
  <2> QED BY <1>2, <1>4, <2>2, <2>3 DEF k
<1> QED BY <1>3, <1>4

\* The semantic pass finds nothing in a sound file.
LEMMA SoundHasNoDivergence ==
  ASSUME NEW A, NEW f \in FilesOver(A), Sound(f)
  PROVE  Divergences(Read(f, Kept(f))) = {}
<1> DEFINE k == Kept(f)
           fs == Read(f, k)
<1>1. k \in 0..Len(f.chunks) /\ Len(f.chunks) \in Nat
  BY KeptFacts
<1>2. Len(fs) = k /\ \A i \in 1..k : fs[i] = f.chunks[i].frame
  BY <1>1, ReadFacts
<1>3. ASSUME NEW i \in 1..k PROVE ~ Diverges(fs, i)
  <2>1. i \in 1..Len(f.chunks)
    BY <1>1
  <2>2. Linked(f.chunks[i].frame, i, HeadAt(f, i))
    BY <2>1 DEF Sound
  <2>3. ExpectedHead(fs, i) = HeadAt(f, i)
    <3>1. CASE i = 1
      BY <3>1 DEF ExpectedHead, HeadAt
    <3>2. CASE i # 1
      <4>1. i - 1 \in 1..k
        BY <1>1, <3>2
      <4> HIDE DEF fs, k
      <4> QED BY <1>2, <3>2, <4>1 DEF ExpectedHead, HeadAt
    <3> QED BY <3>1, <3>2
  <2>4. fs[i] = f.chunks[i].frame
    BY <1>2
  <2> HIDE DEF fs
  <2> QED BY <2>2, <2>3, <2>4 DEF Diverges, Linked
<1> HIDE DEF fs, k
<1>4. Divergences(fs) = {}
  BY <1>2, <1>3 DEF Divergences
<1> QED BY <1>4 DEF fs, k

\* What the readers make of a sound file: its complete frames, all vouched for.
LEMMA SoundReads ==
  ASSUME NEW A, NEW f \in FilesOver(A), Sound(f), \A a \in A : Sized(a)
  PROVE  /\ JournalVerify(f).frames = Read(f, Kept(f))
         /\ JournalVerify(f).good = Kept(f)
         /\ JournalVerify(f).outcome
              = IF f.header < HeaderUnits THEN "tornHeader"
                ELSE IF Kept(f) = Len(f.chunks) THEN "clean" ELSE "torn"
         /\ Vouched(f) = Read(f, Kept(f))
         /\ Replayed(JournalVerify(f)) = ReplayFrames(Read(f, Kept(f)))
         /\ JournalReplay(f) = ReplayFrames(Read(f, Kept(f)))
         /\ Read(f, Kept(f)) \in Seq(A) /\ Len(Read(f, Kept(f))) = Kept(f)
         /\ \A i \in 1..Kept(f) : Read(f, Kept(f))[i] = f.chunks[i].frame
<1> DEFINE fs == Read(f, Kept(f))
           r == JournalVerify(f)
           scan == ScanFrames(f)
<1>1. fs \in Seq(A) /\ Len(fs) = Kept(f)
      /\ \A i \in 1..Kept(f) : fs[i] = f.chunks[i].frame
  BY KeptFacts, ReadFacts
<1>2. scan.frames = fs /\ Divergences(scan.frames) = {}
  BY SoundScan, SoundHasNoDivergence
<1>3. scan.outcome = IF f.header < HeaderUnits THEN "tornHeader"
                ELSE IF Kept(f) = Len(f.chunks) THEN "clean" ELSE "torn"
  BY SoundScan
<1> HIDE DEF fs, scan
<1>4. r.frames = fs /\ r.good = Len(fs) /\ r.outcome = scan.outcome
  BY <1>1, <1>2, VerifyIsReport, ReportFacts DEF scan
<1>5. Vouched(f) = SubSeq(r.frames, 1, r.good)
  BY DEF Vouched
<1> HIDE DEF r
<1>6. SubSeq(fs, 1, Len(fs)) = fs
  BY <1>1
<1>7. r.outcome # "divergence"
  BY <1>3, <1>4
<1>8. Replayed(r) = ReplayFrames(fs)
  BY <1>4, <1>7 DEF Replayed
<1>9. JournalReplay(f) = ReplayFrames(fs)
  BY <1>8, ReplayIsOfFrames DEF r
<1> QED BY <1>1, <1>3, <1>4, <1>5, <1>6, <1>8, <1>9 DEF fs, r

LEMMA SameReads ==
  ASSUME NEW f, NEW g, NEW n \in Nat,
         \A i \in 1..n : f.chunks[i].frame = g.chunks[i].frame
  PROVE  Read(f, n) = Read(g, n)
BY DEF Read

LEMMA NoChunksSound ==
  ASSUME NEW A, NEW f \in FilesOver(A), Len(f.chunks) = 0, f.exists \/ f.header = 0
  PROVE  Sound(f) /\ Kept(f) = 0
<1>1. Kept(f) = 0
  BY DEF Kept
<1>2. Read(f, 0) = << >>
  BY DEF Read
<1>3. \A n \in 0..Kept(f) : ~ ReplayFrames(Read(f, n)).rejected
  BY <1>1, <1>2, ReplayOfNone DEF ReplayStart
<1> QED BY <1>1, <1>3 DEF Sound

\* A sound file cut short at its end is sound, and what it keeps complete is
\* what the longer one had there.
LEMMA PrefixSound ==
  ASSUME NEW A, NEW f \in FilesOver(A), Sound(f),
         NEW g \in FilesOver(A), g.exists = f.exists, g.header = f.header,
         Len(g.chunks) <= Len(f.chunks),
         \A i \in 1..Len(g.chunks) :
            /\ g.chunks[i].frame = f.chunks[i].frame
            /\ g.chunks[i].rot = f.chunks[i].rot
            /\ g.chunks[i].written <= f.chunks[i].written
            /\ i < Len(g.chunks) => g.chunks[i].written = f.chunks[i].written
  PROVE  /\ Sound(g)
         /\ Kept(g) <= Kept(f)
         /\ \A i \in 1..Kept(g) : g.chunks[i] = f.chunks[i]
         /\ \A n \in 0..Len(g.chunks) : Read(g, n) = Read(f, n)
<1> DEFINE n == Len(g.chunks)
           N == Len(f.chunks)
<1>1. n \in Nat /\ N \in Nat /\ n <= N
  BY DEF FilesOver
<1>2. /\ \A i \in 1..n : g.chunks[i] \in ChunksOver(A)
      /\ \A i \in 1..N : f.chunks[i] \in ChunksOver(A)
  <2>1. f.chunks \in Seq(ChunksOver(A)) /\ g.chunks \in Seq(ChunksOver(A))
    BY DEF FilesOver
  <2> QED BY <2>1
<1>3. \A i \in 1..N :
        /\ f.chunks[i].rot = "none"
        /\ f.chunks[i].written <= FrameUnits(f.chunks[i].frame)
        /\ i < N => Complete(f.chunks[i])
        /\ Legible(f.chunks[i].frame)
        /\ Linked(f.chunks[i].frame, i, HeadAt(f, i))
  BY DEF Sound
<1>4. \A i \in 1..n : f.chunks[i].written \in Nat /\ g.chunks[i].written \in Nat
  BY <1>1, <1>2 DEF ChunksOver
<1>5. ASSUME NEW i \in 1..n, Complete(g.chunks[i])
      PROVE  Complete(f.chunks[i]) /\ g.chunks[i] = f.chunks[i]
  <2>1. /\ i \in 1..N /\ g.chunks[i].written <= f.chunks[i].written
        /\ g.chunks[i].frame = f.chunks[i].frame
        /\ g.chunks[i].rot = f.chunks[i].rot
        /\ g.chunks[i].written = FrameUnits(g.chunks[i].frame)
    BY <1>1, <1>5 DEF Complete
  <2>2. g.chunks[i].written = f.chunks[i].written
    <3>1. f.chunks[i].written <= g.chunks[i].written
      BY <1>3, <2>1
    <3> QED BY <1>4, <2>1, <3>1
  <2>3. g.chunks[i] = f.chunks[i]
    <3>1. g.chunks[i] \in ChunksOver(A) /\ f.chunks[i] \in ChunksOver(A)
      BY <1>2, <2>1
    <3> QED BY <2>1, <2>2, <3>1 DEF ChunksOver
  <2> QED BY <1>5, <2>3
<1>6. ASSUME NEW i \in 1..n, i < n PROVE Complete(g.chunks[i])
  BY <1>1, <1>3, <1>6 DEF Complete
<1>7. ASSUME NEW i \in 1..n
      PROVE  /\ g.chunks[i].rot = "none"
             /\ g.chunks[i].written <= FrameUnits(g.chunks[i].frame)
             /\ Legible(g.chunks[i].frame)
             /\ Linked(g.chunks[i].frame, i, HeadAt(g, i))
  <2>1. i \in 1..N
    BY <1>1
  <2>2. HeadAt(g, i) = HeadAt(f, i)
    <3>1. i # 1 => i - 1 \in 1..n
      BY <1>1
    <3> QED BY <3>1 DEF HeadAt
  <2>3. g.chunks[i].written <= FrameUnits(g.chunks[i].frame)
    <3>1. FrameUnits(f.chunks[i].frame) \in Nat
      BY <1>3, <2>1 DEF FrameUnits, Legible
    <3> QED BY <1>3, <1>4, <2>1, <3>1
  <2> QED BY <1>3, <2>1, <2>2, <2>3
<1>8. \A j \in 0..n : Read(g, j) = Read(f, j)
  BY <1>1, SameReads
<1>9. Kept(g) \in 0..n /\ \A i \in 1..Kept(g) : Complete(g.chunks[i])
  BY <1>1, <1>6 DEF Kept
<1>10. Kept(f) \in 0..N
  BY KeptFacts
<1>11. Kept(g) <= Kept(f)
  <2>1. CASE Kept(f) = N
    BY <1>1, <1>9, <2>1
  <2>2. CASE Kept(f) # N
    <3>1. N = Kept(f) + 1 /\ ~ Complete(f.chunks[N])
      BY <1>1, <1>10, <2>2, KeptFacts
    <3>2. ~ (N \in 1..Kept(g))
      <4> SUFFICES ASSUME N \in 1..Kept(g) PROVE FALSE
        OBVIOUS
      <4>1. N \in 1..n /\ Complete(g.chunks[N])
        BY <1>1, <1>9
      <4> QED BY <1>5, <3>1, <4>1
    <3> QED BY <1>1, <1>9, <1>10, <3>1, <3>2
  <2> QED BY <2>1, <2>2
<1>12. \A j \in 0..Kept(g) : ~ ReplayFrames(Read(g, j)).rejected
  <2> SUFFICES ASSUME NEW j \in 0..Kept(g)
               PROVE  ~ ReplayFrames(Read(g, j)).rejected
    OBVIOUS
  <2>1. j \in 0..Kept(f) /\ Read(g, j) = Read(f, j)
    BY <1>1, <1>8, <1>9, <1>10, <1>11
  <2> QED BY <2>1 DEF Sound
<1>13. /\ f.exists \/ f.header = 0
       /\ f.header < HeaderUnits => N = 0
  BY DEF Sound
<1>14. Sound(g)
  BY <1>1, <1>6, <1>7, <1>12, <1>13 DEF Sound
<1>15. \A i \in 1..Kept(g) : g.chunks[i] = f.chunks[i]
  BY <1>1, <1>5, <1>9
<1> QED BY <1>8, <1>11, <1>14, <1>15

\* A cut of a sound file is sound, and what it keeps the file has.
LEMMA CutSound ==
  ASSUME NEW A, NEW f \in FilesOver(A), Sound(f), NEW c \in Cuts(f)
  PROVE  /\ c \in FilesOver(A)
         /\ Sound(c)
         /\ Kept(c) <= Kept(f)
         /\ \A i \in 1..Kept(c) : c.chunks[i] = f.chunks[i]
         /\ Read(c, Kept(c)) = Read(f, Kept(c))
         /\ c = NoFile \/ f.exists
<1>1. c \in FilesOver(A)
  BY CutsStayOver
<1>2. Kept(f) \in Nat
  BY KeptFacts
<1>3. CASE Len(c.chunks) = 0 /\ (c.exists \/ c.header = 0) /\ (c = NoFile \/ f.exists)
  <2>1. Sound(c) /\ Kept(c) = 0
    BY <1>1, <1>3, NoChunksSound
  <2>2. Read(c, 0) = Read(f, 0)
    BY SameReads
  <2> QED BY <1>1, <1>2, <1>3, <2>1, <2>2
<1>4. CASE c = NoFile
  <2>1. Len(c.chunks) = 0 /\ c.header = 0
    BY <1>4, FreshFiles
  <2> QED BY <1>3, <1>4, <2>1
<1>5. CASE f.exists /\ \E h \in 0..f.header : c = [EmptyFile EXCEPT !.header = h]
  <2>1. \A h \in 0..f.header : h \in 0..HeaderUnits
    BY DEF FilesOver, HeaderUnits
  <2>2. PICK h \in 0..HeaderUnits : c = [EmptyFile EXCEPT !.header = h]
    BY <1>5, <2>1
  <2>3. c = [exists |-> TRUE, header |-> h, chunks |-> << >>]
    BY <2>2, FreshFiles
  <2>4. Len(c.chunks) = 0 /\ c.exists
    BY <2>3
  <2> QED BY <1>3, <1>5, <2>4
<1>6. ASSUME NEW i \in 1..Len(f.chunks), NEW k \in 1..f.chunks[i].written,
             c \in FilesOver(A),
             c.header = f.header, c.exists = f.exists,
             Len(c.chunks) = i,
             \A j \in 1..(i - 1) : c.chunks[j] = f.chunks[j],
             c.chunks[i].frame = f.chunks[i].frame,
             c.chunks[i].written = k,
             c.chunks[i].rot = f.chunks[i].rot
      PROVE  /\ Sound(c)
             /\ Kept(c) <= Kept(f)
             /\ \A j \in 1..Kept(c) : c.chunks[j] = f.chunks[j]
             /\ Read(c, Kept(c)) = Read(f, Kept(c))
             /\ f.exists
  <2>1. Len(f.chunks) \in Nat /\ i \in Nat /\ i <= Len(f.chunks)
    BY KeptFacts
  <2>2. /\ \A j \in 1..(i - 1) : f.chunks[j].written \in Nat
        /\ f.chunks[i].written \in Nat
    <3>1. f.chunks \in Seq(ChunksOver(A))
      BY DEF FilesOver
    <3>2. \A j \in 1..Len(f.chunks) : f.chunks[j] \in ChunksOver(A)
      BY <3>1
    <3> QED BY <2>1, <3>2 DEF ChunksOver
  <2>3. ASSUME NEW j \in 1..i
        PROVE  /\ c.chunks[j].frame = f.chunks[j].frame
               /\ c.chunks[j].rot = f.chunks[j].rot
               /\ c.chunks[j].written <= f.chunks[j].written
               /\ j < i => c.chunks[j].written = f.chunks[j].written
    <3>1. CASE j = i
      BY <1>6, <2>1, <2>2, <3>1
    <3>2. CASE j # i
      <4>1. j \in 1..(i - 1)
        BY <2>1, <3>2
      <4> QED BY <1>6, <2>2, <4>1
    <3> QED BY <3>1, <3>2
  <2>4. /\ Sound(c)
        /\ Kept(c) <= Kept(f)
        /\ \A j \in 1..Kept(c) : c.chunks[j] = f.chunks[j]
        /\ \A n \in 0..Len(c.chunks) : Read(c, n) = Read(f, n)
    BY <1>6, <2>1, <2>3, PrefixSound
  <2>5. Kept(c) \in 0..Len(c.chunks)
    BY <1>6, <2>4, KeptFacts
  <2>6. f.exists
    <3>1. f.exists \/ f.header = 0
      BY DEF Sound
    <3>2. f.header < HeaderUnits => Len(f.chunks) = 0
      BY DEF Sound
    <3> QED BY <2>1, <3>1, <3>2 DEF HeaderUnits
  <2> QED BY <2>4, <2>5, <2>6
<1>7. \/ c = NoFile
      \/ f.exists /\ \E h \in 0..f.header : c = [EmptyFile EXCEPT !.header = h]
      \/ \E i \in 1..Len(f.chunks) : \E k \in 1..f.chunks[i].written :
              /\ c \in FilesOver(A)
              /\ c.header = f.header /\ c.exists = f.exists
              /\ Len(c.chunks) = i
              /\ \A j \in 1..(i - 1) : c.chunks[j] = f.chunks[j]
              /\ c.chunks[i].frame = f.chunks[i].frame
              /\ c.chunks[i].written = k
              /\ c.chunks[i].rot = f.chunks[i].rot
  BY CutIs
<1> QED BY <1>1, <1>4, <1>5, <1>6, <1>7

\* Truncation leaves the complete frames of a sound file.
LEMMA TruncatedSound ==
  ASSUME NEW A, NEW f \in FilesOver(A), Sound(f), \A a \in A : Sized(a),
         NEW g, g = Truncated(f, JournalVerify(f))
  PROVE  /\ g \in FilesOver(A) /\ Sound(g)
         /\ g.exists = f.exists /\ g.header = f.header
         /\ Kept(g) = Kept(f) /\ Kept(g) = Len(g.chunks)
         /\ \A i \in 1..Kept(f) : g.chunks[i] = f.chunks[i]
         /\ Read(g, Kept(f)) = Read(f, Kept(f))
<1> DEFINE k == Kept(f)
           h == [f EXCEPT !.chunks = SubSeq(@, 1, k)]
<1>1. k \in 0..Len(f.chunks) /\ Len(f.chunks) \in Nat
  BY KeptFacts
<1>2. /\ h \in FilesOver(A) /\ h.header = f.header /\ h.exists = f.exists
      /\ Len(h.chunks) = k /\ \A i \in 1..k : h.chunks[i] = f.chunks[i]
      /\ k = Len(f.chunks) => h = f
  BY <1>1, FewerChunks
<1>3. g = h
  <2>1. JournalVerify(f).good = k
    BY SoundReads
  <2>2. CASE JournalVerify(f).outcome = "torn"
    BY <2>1, <2>2 DEF Truncated
  <2>3. CASE JournalVerify(f).outcome # "torn"
    <3>1. k = Len(f.chunks)
      <4>1. CASE f.header < HeaderUnits
        BY <1>1, <4>1 DEF Sound
      <4>2. CASE ~ (f.header < HeaderUnits)
        BY <2>3, <4>2, SoundReads
      <4> QED BY <4>1, <4>2
    <3>2. h = f
      BY <1>2, <3>1
    <3> HIDE DEF h
    <3> QED BY <2>3, <3>2 DEF Truncated
  <2> QED BY <2>2, <2>3
<1> HIDE DEF h, k
<1>4. \A i \in 1..k : f.chunks[i].written \in Nat
  <2>1. \A i \in 1..Len(f.chunks) : f.chunks[i] \in ChunksOver(A)
    BY DEF FilesOver
  <2> QED BY <1>1, <2>1 DEF ChunksOver
<1>5. /\ Sound(h)
      /\ \A n \in 0..Len(h.chunks) : Read(h, n) = Read(f, n)
  BY <1>1, <1>2, <1>4, PrefixSound
<1>6. Kept(h) = k
  <2>1. \A i \in 1..k : Complete(h.chunks[i])
    BY <1>2, KeptFacts DEF k
  <2>2. k # 0 => k \in 1..k
    BY <1>1
  <2> QED BY <1>2, <2>1, <2>2 DEF Kept
<1> QED BY <1>1, <1>2, <1>3, <1>5, <1>6 DEF k

\* g is f with one more chunk, k units of the frame fr.
Appended(f, fr, k, g) ==
  /\ g.exists = f.exists /\ g.header = f.header
  /\ Len(g.chunks) = Len(f.chunks) + 1
  /\ g.chunks[Len(f.chunks) + 1].frame = fr
  /\ g.chunks[Len(f.chunks) + 1].written = k
  /\ g.chunks[Len(f.chunks) + 1].rot = "none"
  /\ \A i \in 1..Len(f.chunks) : g.chunks[i] = f.chunks[i]

LEMMA AppendingAppends ==
  ASSUME NEW A, NEW f \in FilesOver(A), NEW fr \in A, NEW k \in Nat \ {0},
         NEW g, g = [f EXCEPT !.chunks = Append(f.chunks, Chunk(fr, k))]
  PROVE  g \in FilesOver(A) /\ Appended(f, fr, k, g)
<1> DEFINE c == Chunk(fr, k)
<1>1. c \in ChunksOver(A) /\ c.frame = fr /\ c.written = k /\ c.rot = "none"
  BY DEF Chunk, ChunksOver
<1>2. g = [f EXCEPT !.chunks = Append(f.chunks, c)]
  OBVIOUS
<1> HIDE DEF c
<1>3. /\ g \in FilesOver(A) /\ g.header = f.header /\ g.exists = f.exists
      /\ Len(g.chunks) = Len(f.chunks) + 1
      /\ g.chunks[Len(f.chunks) + 1] = c
      /\ \A i \in 1..Len(f.chunks) : g.chunks[i] = f.chunks[i]
  BY <1>1, <1>2, OneMoreChunk
<1> QED BY <1>1, <1>3 DEF Appended

LEMMA AppendReads ==
  ASSUME NEW A, NEW f \in FilesOver(A), NEW fr, NEW k,
         NEW g \in FilesOver(A), Appended(f, fr, k, g)
  PROVE  /\ \A j \in 0..Len(f.chunks) : Read(g, j) = Read(f, j)
         /\ ReplayFrames(Read(g, Len(f.chunks) + 1))
              = ReplayFrame(ReplayFrames(Read(f, Len(f.chunks))), fr)
<1> DEFINE n == Len(f.chunks)
<1>3. /\ n \in Nat /\ Len(g.chunks) = n + 1 /\ g.chunks[n + 1].frame = fr
      /\ \A i \in 1..n : g.chunks[i] = f.chunks[i]
  BY DEF Appended, FilesOver
<1> HIDE DEF n
<1>7. ASSUME NEW j \in 0..n PROVE Read(g, j) = Read(f, j)
  <2>1. j \in Nat /\ \A i \in 1..j : i \in 1..n
    BY <1>3
  <2> QED BY <1>3, <2>1, SameReads
<1>8. ReplayFrames(Read(g, n + 1)) = ReplayFrame(ReplayFrames(Read(f, n)), fr)
  <2>1. n + 1 \in 0..Len(g.chunks) /\ n \in 0..Len(g.chunks)
    BY <1>3
  <2> DEFINE m == n + 1
             R == Read(g, m)
             Q == Read(g, n)
  <2>2. /\ Len(R) = m /\ \A i \in 1..m : R[i] = g.chunks[i].frame
        /\ Len(Q) = n /\ \A i \in 1..n : Q[i] = g.chunks[i].frame
    BY <1>3, <2>1, ReadFacts
  <2>3. Q = Read(f, n)
    <3>1. n \in 0..n
      BY <1>3
    <3> QED BY <1>7, <3>1
  <2>4. m \in 1..m /\ m = n + 1 /\ \A i \in 1..n : i \in 1..m
    BY <1>3
  <2> HIDE DEF m, R, Q
  <2>5. R[Len(R)] = fr
    BY <1>3, <2>2, <2>4
  <2>6. Len(Q) \in Nat /\ Len(R) = Len(Q) + 1 /\ \A i \in 1..Len(Q) : R[i] = Q[i]
    BY <1>3, <2>2, <2>4
  <2>7. ReplayFrames(R) = ReplayFrame(ReplayFrames(Q), R[Len(R)])
    BY <2>6, ReplayOfOneMore
  <2> QED BY <2>3, <2>5, <2>7 DEF m, R
<1> QED BY <1>7, <1>8 DEF n

\* A linked, legible frame appended to a whole sound file, in full or in part.
LEMMA AppendSound ==
  ASSUME NEW A, NEW f \in FilesOver(A), Sound(f), f.exists,
         f.header = HeaderUnits, Kept(f) = Len(f.chunks),
         NEW fr \in A, Sized(fr), Legible(fr),
         Linked(fr, Len(f.chunks) + 1, HeadAt(f, Len(f.chunks) + 1)),
         NEW k \in 1..FrameUnits(fr),
         k = FrameUnits(fr) =>
           ~ ReplayFrame(ReplayFrames(Read(f, Len(f.chunks))), fr).rejected,
         NEW g \in FilesOver(A), Appended(f, fr, k, g)
  PROVE  /\ Sound(g)
         /\ Kept(g) = IF k = FrameUnits(fr) THEN Len(f.chunks) + 1
                      ELSE Len(f.chunks)
<1> DEFINE n == Len(f.chunks)
           c == g.chunks[n + 1]
<1>1. k \in Nat \ {0} /\ FrameUnits(fr) \in Nat /\ k <= FrameUnits(fr)
  BY DEF FrameUnits, Sized
<1>2. c.frame = fr /\ c.written = k /\ c.rot = "none"
  BY DEF Appended
<1>3. /\ g.header = f.header /\ g.exists = f.exists
      /\ n \in Nat /\ Len(g.chunks) = n + 1 /\ g.chunks[n + 1] = c
      /\ \A i \in 1..n : g.chunks[i] = f.chunks[i]
  BY DEF Appended, FilesOver
<1>7. \A j \in 0..n : Read(g, j) = Read(f, j)
  BY AppendReads
<1>8. ReplayFrames(Read(g, n + 1)) = ReplayFrame(ReplayFrames(Read(f, n)), fr)
  BY AppendReads
<1> HIDE DEF n, c
<1>4. Complete(g.chunks[n + 1]) <=> k = FrameUnits(fr)
  BY <1>2, <1>3 DEF Complete
<1>5. Kept(g) = IF k = FrameUnits(fr) THEN n + 1 ELSE n
  BY <1>3, <1>4 DEF Kept
<1>6. \A i \in 1..n : Complete(f.chunks[i])
  BY KeptFacts DEF n
<1>9. \A j \in 0..Kept(g) : ~ ReplayFrames(Read(g, j)).rejected
  <2> SUFFICES ASSUME NEW j \in 0..Kept(g)
               PROVE  ~ ReplayFrames(Read(g, j)).rejected
    OBVIOUS
  <2>1. CASE j \in 0..n
    <3>1. ~ ReplayFrames(Read(f, j)).rejected
      BY <2>1 DEF Sound, n
    <3> QED BY <1>7, <2>1, <3>1
  <2>2. CASE ~ (j \in 0..n)
    <3>1. j = n + 1 /\ k = FrameUnits(fr)
      BY <1>3, <1>5, <2>2
    <3> QED BY <1>8, <3>1 DEF n
  <2> QED BY <2>1, <2>2
<1>10. ASSUME NEW i \in 1..(n + 1)
       PROVE  /\ g.chunks[i].rot = "none"
              /\ g.chunks[i].written <= FrameUnits(g.chunks[i].frame)
              /\ i < n + 1 => Complete(g.chunks[i])
              /\ Legible(g.chunks[i].frame)
              /\ Linked(g.chunks[i].frame, i, HeadAt(g, i))
  <2>1. HeadAt(g, i) = HeadAt(f, i)
    <3>1. i # 1 => i - 1 \in 1..n
      BY <1>3
    <3> QED BY <1>3, <3>1 DEF HeadAt
  <2>2. CASE i = n + 1
    <3>1. Linked(fr, n + 1, HeadAt(g, i))
      BY <2>1, <2>2 DEF n
    <3> QED BY <1>1, <1>2, <1>3, <2>2, <3>1
  <2>3. CASE i \in 1..n
    <3>1. /\ f.chunks[i].rot = "none"
          /\ f.chunks[i].written <= FrameUnits(f.chunks[i].frame)
          /\ Legible(f.chunks[i].frame)
          /\ Linked(f.chunks[i].frame, i, HeadAt(f, i))
      BY <2>3 DEF Sound, n
    <3> QED BY <1>3, <1>6, <2>1, <2>3, <3>1
  <2> QED BY <1>3, <2>2, <2>3
<1>11. Sound(g)
  <2>1. g.exists /\ ~ (g.header < HeaderUnits)
    BY <1>3 DEF HeaderUnits
  <2>2. \A i \in 1..Len(g.chunks) :
          /\ g.chunks[i].rot = "none"
          /\ g.chunks[i].written <= FrameUnits(g.chunks[i].frame)
          /\ i < Len(g.chunks) => Complete(g.chunks[i])
          /\ Legible(g.chunks[i].frame)
          /\ Linked(g.chunks[i].frame, i, HeadAt(g, i))
    BY <1>3, <1>10
  <2> QED BY <1>9, <2>1, <2>2 DEF Sound
<1> QED BY <1>5, <1>11 DEF n

\* The ledgers of a replay of legible frames hold no null once they hold
\* anything.
Fit(L) ==
  \A c \in JCell : L[c].genesis = None /\ (L[c].entries # << >> => L[c].state \in Event)

LEMMA ReplayFrameFits ==
  ASSUME NEW r, WholeReplay(r), Fit(r.ledgers), NEW fr, Legible(fr)
  PROVE  Fit(ReplayFrame(r, fr).ledgers)
<1> DEFINE s == ReplayFrame(r, fr)
           cell == fr.payload.cell
<1>1. CASE r.rejected \/ fr.type # "entry"
  BY <1>1 DEF ReplayFrame
<1>2. CASE /\ ~ r.rejected /\ fr.type = "entry"
           /\ Restorable(r.ledgers[cell], EntryOf(fr))
  <2>1. s.ledgers = [c \in JCell |->
                       IF c = cell THEN RestoreEntry(r.ledgers[c], EntryOf(fr))
                       ELSE r.ledgers[c]]
    BY <1>2, ReplayFrameAccepts
  <2>2. EntryOf(fr).after \in Event
    BY <1>2 DEF Legible
  <2> HIDE DEF s
  <2>3. ASSUME NEW c \in JCell
        PROVE  /\ s.ledgers[c].genesis = None
               /\ s.ledgers[c].entries # << >> => s.ledgers[c].state \in Event
    <3>1. Whole(r.ledgers[c]) /\ r.ledgers[c].genesis = None
      BY DEF WholeReplay, Fit
    <3>2. CASE c = cell
      <4> DEFINE m == RestoreEntry(r.ledgers[c], EntryOf(fr))
                 E == Append(r.ledgers[c].entries, EntryOf(fr))
      <4>1. /\ m.state = EntryOf(fr).after
            /\ m = [cell |-> r.ledgers[c].cell, genesis |-> r.ledgers[c].genesis,
                 genesisTs |-> r.ledgers[c].genesisTs, state |-> EntryOf(fr).after,
                 nextSeq |-> r.ledgers[c].nextSeq + 1,
                 nextTicket |-> r.ledgers[c].nextTicket,
                 entries |-> E, pending |-> r.ledgers[c].pending]
        BY <1>2, <3>1, <3>2, RestoreFields
      <4> HIDE DEF m, E
      <4>2. m.genesis = None
        BY <3>1, <4>1
      <4>3. s.ledgers[c] = m
        BY <2>1, <3>2 DEF m
      <4> QED BY <2>2, <4>1, <4>2, <4>3
    <3>3. CASE c # cell
      BY <2>1, <3>3 DEF Fit
    <3> QED BY <3>2, <3>3
  <2> QED BY <2>3 DEF Fit, s
<1>3. CASE /\ ~ r.rejected /\ fr.type = "entry"
           /\ ~ Restorable(r.ledgers[cell], EntryOf(fr))
  <2>1. s = [r EXCEPT !.rejected = TRUE]
    BY <1>3 DEF ReplayFrame
  <2>2. r = [ledgers |-> r.ledgers, rejected |-> r.rejected]
    BY DEF WholeReplay
  <2> HIDE DEF s
  <2>3. s.ledgers = r.ledgers
    BY <2>1, <2>2
  <2> QED BY <2>3 DEF s
<1> QED BY <1>1, <1>2, <1>3

LEMMA ReplayFits ==
  ASSUME NEW A, NEW fs \in Seq(A), \A i \in 1..Len(fs) : Legible(fs[i])
  PROVE  Fit(ReplayFrames(fs).ledgers)
<1> DEFINE S == {n \in Nat : \A gs \in Seq(A) :
                   Len(gs) = n /\ (\A i \in 1..n : Legible(gs[i]))
                     => Fit(ReplayFrames(gs).ledgers)}
<1>1. 0 \in S
  <2>1. \A gs \in Seq(A) : Len(gs) = 0 => gs = << >>
    OBVIOUS
  <2>2. Fit(NoLedgers)
    <3>1. \A c \in JCell : NoLedgers[c] = NewLedger(c)
      BY DEF NoLedgers
    <3>2. \A c : NewLedger(c).genesis = None /\ NewLedger(c).entries = << >>
      BY DEF NewLedger
    <3> QED BY <3>1, <3>2 DEF Fit
  <2>3. Fit(ReplayFrames(<< >>).ledgers)
    BY <2>2, ReplayOfNone DEF ReplayStart
  <2> QED BY <2>1, <2>3
<1>2. ASSUME NEW n \in S PROVE n + 1 \in S
  <2> SUFFICES ASSUME NEW gs \in Seq(A), Len(gs) = n + 1,
                      \A i \in 1..(n + 1) : Legible(gs[i])
               PROVE  Fit(ReplayFrames(gs).ledgers)
    OBVIOUS
  <2> DEFINE p == SubSeq(gs, 1, n)
  <2>1. n \in Nat /\ n \in 0..Len(gs)
    OBVIOUS
  <2>2. p \in Seq(A) /\ Len(p) = n /\ \A i \in 1..n : p[i] = gs[i]
    BY <2>1, PrefixFacts
  <2>3. \A i \in 1..n : i \in 1..(n + 1)
    BY <2>1
  <2> HIDE DEF p
  <2>4. Fit(ReplayFrames(p).ledgers)
    BY <2>2, <2>3
  <2> HIDE DEF S
  <2>5. ReplayFrames(gs) = ReplayFrame(ReplayFrames(p), gs[n + 1])
    BY <2>1, <2>2, ReplayOfOneMore
  <2>6. WholeReplay(ReplayFrames(p)) /\ Legible(gs[n + 1])
    BY <2>1, <2>2, ReplayIsWhole
  <2> QED BY <2>4, <2>5, <2>6, ReplayFrameFits
<1>3. S = Nat
  <2>1. S \in SUBSET Nat
    OBVIOUS
  <2> HIDE DEF S
  <2> QED BY <1>1, <1>2, <2>1, Induct
<1> QED BY <1>3

\* The frame of a recorded event replays to the ledgers that recorded it.
LEMMA EventReplays ==
  ASSUME Null \notin Event, WholeLedgers(ledgers), Fit(ledgers),
         NEW c \in JCell, NEW v \in Event
  PROVE  /\ EntryOf(EventFrame(c, v)).after = v
         /\ ReplayFrame([ledgers |-> ledgers, rejected |-> FALSE], EventFrame(c, v))
              = [ledgers |-> RecordedIn(c, v), rejected |-> FALSE]
<1> DEFINE l == ledgers[c]
           e == Recorded(l, v)
           fr == EventFrame(c, v)
           p == [cell |-> c, entry |-> e]
<1>1. Last(RecordedIn(c, v)[c].entries) = e
  BY RecordedFacts
<1>2. fr.type = "entry" /\ fr.payload = p
  BY <1>1, FrameFields DEF EventFrame, NewFrame
<1>3. JsonOption(e.expected) = e.expected
  <2>1. e.expected = IF IsSome(l.genesis) \/ l.entries # << >> THEN Some(l.state)
                     ELSE None
    BY RecordIsRestore DEF Scored, IsSome
  <2>2. l.genesis = None /\ (l.entries # << >> => l.state \in Event)
    BY DEF Fit
  <2> HIDE DEF e, l
  <2>3. CASE l.entries # << >>
    <3>1. e.expected = Some(l.state) /\ l.state # Null
      BY <2>1, <2>2, <2>3
    <3>2. Some(l.state) # Some(Null)
      BY <3>1 DEF Some
    <3> QED BY <3>1, <3>2 DEF JsonOption
  <2>4. CASE l.entries = << >>
    <3>1. e.expected = None
      BY <2>1, <2>2, <2>4 DEF IsSome
    <3> QED BY <3>1 DEF JsonOption
  <2> QED BY <2>3, <2>4
<1>4. JsonEntry(e) = e
  <2>1. JsonEntry(e) = [e EXCEPT !.expected = e.expected]
    BY <1>3 DEF JsonEntry
  <2>2. e = [seq |-> e.seq, ts |-> e.ts, input |-> e.input,
             outTs |-> e.outTs, before |-> e.before, after |-> e.after,
             expected |-> e.expected, prev |-> e.prev, hash |-> e.hash]
    BY DEF Recorded, NextEntry
  <2> HIDE DEF e
  <2> QED BY <2>1, <2>2
<1>5. EntryOf(fr) = e
  <2>1. p.entry = e
    OBVIOUS
  <2> HIDE DEF p, e, fr
  <2> QED BY <1>2, <1>4, <2>1 DEF EntryOf
<1>6. fr.payload.cell = c
  BY <1>2
<1>7. e.after = v /\ Restorable(l, e)
  BY RecordIsRestore
<1> DEFINE r == [ledgers |-> ledgers, rejected |-> FALSE]
<1>8. r.ledgers = ledgers /\ ~ r.rejected /\ r.rejected = FALSE
  OBVIOUS
<1>9. WholeReplay(r)
  <2>1. r = [ledgers |-> r.ledgers, rejected |-> r.rejected]
    BY <1>8
  <2> HIDE DEF r
  <2> QED BY <1>8, <2>1 DEF WholeReplay, WholeLedgers
<1> HIDE DEF r, fr, e
<1>10. Restorable(r.ledgers[fr.payload.cell], EntryOf(fr))
  BY <1>5, <1>6, <1>7, <1>8
<1>11. /\ ReplayFrame(r, fr)
              = [ledgers |-> ReplayFrame(r, fr).ledgers, rejected |-> r.rejected]
       /\ ReplayFrame(r, fr).ledgers
              = [d \in JCell |->
                   IF d = fr.payload.cell
                   THEN RestoreEntry(r.ledgers[d], EntryOf(fr))
                   ELSE r.ledgers[d]]
  BY <1>2, <1>8, <1>9, <1>10, ReplayFrameAccepts
<1>12. RecordedIn(c, v)
         = [d \in JCell |-> IF d = c THEN RestoreEntry(ledgers[d], Recorded(ledgers[d], v))
                            ELSE ledgers[d]]
  BY RecordedFacts
<1>13. ReplayFrame(r, fr).ledgers = RecordedIn(c, v)
  <2>1. \A d \in JCell : d = c => EntryOf(fr) = Recorded(ledgers[d], v)
    BY <1>5 DEF e
  <2> QED BY <1>6, <1>8, <1>11, <1>12, <2>1
<1>14. ReplayFrame(r, fr) = [ledgers |-> RecordedIn(c, v), rejected |-> FALSE]
  BY <1>8, <1>11, <1>13
<1> QED BY <1>5, <1>7, <1>14 DEF r, fr

\* A power loss that keeps every unit the disk and the file have in common
\* keeps every frame that is durable.
LEMMA CommonCutKept ==
  ASSUME NEW A, NEW f \in FilesOver(A), NEW d \in FilesOver(A),
         Sound(f), Sound(d), Agree(d, f),
         NEW K \in 1..Kept(d),
         NEW c \in Cuts(f), Cuts(d) \cap Cuts(f) \subseteq Cuts(c)
  PROVE  K \in 1..Kept(c) /\ c.chunks[K] = d.chunks[K]
<1> DEFINE w == f.chunks[K].written
           e == [f.chunks[K] EXCEPT !.written = w]
           x == [f EXCEPT !.chunks = SubSeq(@, 1, K - 1)
                                       \o << [@[K] EXCEPT !.written = w] >>]
           y == [d EXCEPT !.chunks = SubSeq(@, 1, K - 1)
                                       \o << [@[K] EXCEPT !.written = w] >>]
<1>1. /\ Kept(d) \in 0..Len(d.chunks) /\ Len(d.chunks) \in Nat
      /\ Len(f.chunks) \in Nat /\ Complete(d.chunks[K])
  BY KeptFacts
<1>2. /\ K \in Nat /\ K \in 1..Len(d.chunks) /\ K \in 1..Len(f.chunks)
      /\ \A i \in 1..K : i \in 1..Kept(d) /\ f.chunks[i] = d.chunks[i]
  BY <1>1 DEF Agree
<1>3. /\ f.chunks \in Seq(ChunksOver(A)) /\ d.chunks \in Seq(ChunksOver(A))
      /\ f.chunks[K] \in ChunksOver(A)
  BY <1>2 DEF FilesOver
<1>4. w \in 1..f.chunks[K].written /\ w \in 1..d.chunks[K].written /\ w \in Nat
  BY <1>2, <1>3 DEF ChunksOver
<1>5. x \in Cuts(f)
  <2> HIDE DEF w
  <2> QED BY <1>2, <1>4, CutAt
<1>6. y \in Cuts(d)
  <2> HIDE DEF w
  <2> QED BY <1>2, <1>4, CutAt
<1>7. f.header = d.header /\ f.exists = d.exists
  <2>1. ~ (d.header < HeaderUnits) /\ d.header \in 0..HeaderUnits /\ f.header \in 0..HeaderUnits
    BY <1>1, <1>2 DEF Sound, FilesOver
  <2>2. d.header <= f.header
    BY DEF Agree
  <2>3. d.header = 2 /\ f.header = 2
    BY <2>1, <2>2 DEF HeaderUnits
  <2>4. d.exists = TRUE /\ f.exists = TRUE
    BY <2>3 DEF Sound, FilesOver
  <2> QED BY <2>3, <2>4
<1>8. SubSeq(f.chunks, 1, K - 1) = SubSeq(d.chunks, 1, K - 1)
  <2> DEFINE s == SubSeq(f.chunks, 1, K - 1)
             t == SubSeq(d.chunks, 1, K - 1)
  <2>1. K - 1 \in 0..Len(f.chunks) /\ K - 1 \in 0..Len(d.chunks)
    BY <1>1, <1>2
  <2>2. /\ s \in Seq(ChunksOver(A)) /\ Len(s) = K - 1
        /\ \A i \in 1..(K - 1) : s[i] = f.chunks[i]
    BY <1>3, <2>1, PrefixFacts
  <2>3. /\ t \in Seq(ChunksOver(A)) /\ Len(t) = K - 1
        /\ \A i \in 1..(K - 1) : t[i] = d.chunks[i]
    BY <1>3, <2>1, PrefixFacts
  <2>4. s \in Seq(ToSet(s)) /\ t \in Seq(ToSet(t))
    BY <2>2, <2>3, SeqOfOwn
  <2>5. \A i \in 1..(K - 1) : f.chunks[i] = d.chunks[i]
    BY <1>2
  <2> HIDE DEF s, t
  <2>6. s = t
    BY <2>2, <2>3, <2>4, <2>5, SameSeq
  <2> QED BY <2>6 DEF s, t
<1>9. x = y
  <2> DEFINE s == SubSeq(d.chunks, 1, K - 1) \o << [d.chunks[K] EXCEPT !.written = w] >>
  <2>1. x = [f EXCEPT !.chunks = s] /\ y = [d EXCEPT !.chunks = s]
    <3>1. f.chunks[K] = d.chunks[K]
      BY <1>2
    <3> HIDE DEF w
    <3> QED BY <1>8, <3>1
  <2> HIDE DEF s, x, y, w
  <2>2. /\ f = [exists |-> f.exists, header |-> f.header, chunks |-> f.chunks]
        /\ d = [exists |-> d.exists, header |-> d.header, chunks |-> d.chunks]
    BY DEF FilesOver
  <2>3. /\ x = [exists |-> f.exists, header |-> f.header, chunks |-> s]
        /\ y = [exists |-> d.exists, header |-> d.header, chunks |-> s]
    BY <2>1, <2>2, FileFields
  <2> QED BY <1>7, <2>3
<1> HIDE DEF x, y, w
<1>10. x \in Cuts(c)
  BY <1>5, <1>6, <1>9
<1>11. /\ c \in FilesOver(A) /\ Sound(c) /\ Kept(c) <= Kept(f)
       /\ \A i \in 1..Kept(c) : c.chunks[i] = f.chunks[i]
  BY CutSound
<1>12. /\ Len(x.chunks) = K
       /\ x.chunks[K].frame = f.chunks[K].frame
       /\ x.chunks[K].written = w
  <2> DEFINE n == K - 1
             g == [f.chunks[K] EXCEPT !.written = w]
             cs == SubSeq(f.chunks, 1, n) \o << g >>
  <2>1. g \in ChunksOver(A) /\ g.frame = f.chunks[K].frame /\ g.written = w
    BY <1>3, <1>4 DEF ChunksOver, w
  <2>2. n \in 0..Len(f.chunks) /\ n + 1 = K
    BY <1>1, <1>2
  <2>3. x = [f EXCEPT !.chunks = cs]
    BY DEF x
  <2> HIDE DEF g, n
  <2>4. cs \in Seq(ChunksOver(A)) /\ Len(cs) = K /\ cs[K] = g
    BY <1>3, <2>1, <2>2, PrefixAndOne
  <2> HIDE DEF cs
  <2>5. x.chunks = cs
    BY <2>3, <2>4, OtherChunks
  <2> QED BY <2>1, <2>4, <2>5
<1>13. K \in 1..Len(c.chunks) /\ Complete(c.chunks[K])
  <2>1. Len(<< >>) = 0
    OBVIOUS
  <2>2. x # NoFile /\ \A h \in 0..c.header : x # [EmptyFile EXCEPT !.header = h]
    <3>1. Len(NoFile.chunks) = 0
      BY FreshFiles
    <3>2. ASSUME NEW h \in 0..c.header
          PROVE  Len([EmptyFile EXCEPT !.header = h].chunks) = 0
      <4>1. h \in 0..HeaderUnits
        BY <1>11 DEF FilesOver, HeaderUnits
      <4>2. [EmptyFile EXCEPT !.header = h]
              = [exists |-> TRUE, header |-> h, chunks |-> << >>]
        BY <4>1, FreshFiles
      <4> QED BY <4>2
    <3>3. Len(x.chunks) # 0
      BY <1>2, <1>12
    <3>4. x # NoFile
      BY <3>1, <3>3
    <3>5. ASSUME NEW h \in 0..c.header, x = [EmptyFile EXCEPT !.header = h]
          PROVE  FALSE
      <4>1. Len([EmptyFile EXCEPT !.header = h].chunks) = 0
        BY <3>2
      <4> HIDE DEF x
      <4>2. Len(x.chunks) = 0
        BY <4>1, <3>5
      <4> QED BY <4>2, <3>3
    <3> QED BY <3>4, <3>5
  <2>3. PICK i \in 1..Len(c.chunks) : \E k \in 1..c.chunks[i].written :
              /\ Len(x.chunks) = i
              /\ x.chunks[i].frame = c.chunks[i].frame
              /\ x.chunks[i].written = k
    BY <1>10, <1>11, <2>2, CutIs
  <2>4. i = K /\ K \in 1..Len(c.chunks)
    BY <1>12, <2>3
  <2>5. c.chunks[K].frame = f.chunks[K].frame /\ w \in 1..c.chunks[K].written
    BY <1>12, <2>3, <2>4
  <2>6. w = FrameUnits(f.chunks[K].frame)
    BY <1>1, <1>2 DEF Complete, w
  <2>7. c.chunks[K].written <= FrameUnits(c.chunks[K].frame)
    BY <1>11, <2>4 DEF Sound
  <2>8. c.chunks[K].written \in Nat
    <3>1. c.chunks \in Seq(ChunksOver(A))
      BY <1>11 DEF FilesOver
    <3>2. c.chunks[K] \in ChunksOver(A)
      BY <2>4, <3>1
    <3> QED BY <3>2 DEF ChunksOver
  <2>9. c.chunks[K].written = FrameUnits(c.chunks[K].frame)
    BY <1>4, <2>5, <2>6, <2>7, <2>8
  <2> QED BY <2>4, <2>9 DEF Complete
<1>14. K \in 1..Kept(c)
  <2>1. /\ Len(c.chunks) \in Nat /\ Kept(c) \in 0..Len(c.chunks)
        /\ Kept(c) < Len(c.chunks) =>
              Len(c.chunks) = Kept(c) + 1 /\ ~ Complete(c.chunks[Kept(c) + 1])
    BY <1>11, KeptFacts
  <2> QED BY <1>13, <2>1
<1> QED BY <1>2, <1>11, <1>14


-----------------------------------------------------------------------------
(***************************************************************************)
(* JInv is inductive, action by action.                                    *)
(***************************************************************************)

\* What an open writer is.
LEMMA WriterIs ==
  ASSUME NEW w, NEW n, NEW h, NEW sync, n \in Nat \ {0}, sync \in BOOLEAN,
         w = [open |-> TRUE, nextSeq |-> n, head |-> h, sync |-> sync]
  PROVE  /\ w \in [open : BOOLEAN, nextSeq : Nat \ {0}, head : {w.head}, sync : BOOLEAN]
         /\ w.open /\ w.nextSeq = n /\ w.head = h
<1> DEFINE yes == TRUE
<1>1. w = [open |-> yes, nextSeq |-> n, head |-> h, sync |-> sync] /\ yes /\ yes \in BOOLEAN
  OBVIOUS
<1> HIDE DEF yes
<1> QED BY <1>1

LEMMA FreshIs ==
  ASSUME NEW sync \in BOOLEAN, NEW w, w = Fresh(sync)
  PROVE  /\ w \in [open : BOOLEAN, nextSeq : Nat \ {0}, head : {w.head}, sync : BOOLEAN]
         /\ w.open /\ w.nextSeq = 1 /\ w.head = FrameGenesis
<1> DEFINE yes == TRUE
           no == FALSE
<1>1. w = [[open |-> no, nextSeq |-> 1, head |-> FrameGenesis, sync |-> yes]
             EXCEPT !.open = yes, !.sync = sync]
  BY DEF Fresh, Closed
<1>2. yes /\ yes \in BOOLEAN /\ no \in BOOLEAN
  OBVIOUS
<1> HIDE DEF yes, no
<1>3. w = [open |-> yes, nextSeq |-> 1, head |-> FrameGenesis, sync |-> sync]
  BY <1>1
<1> QED BY <1>2, <1>3

\* A process that died keeps no state to go wrong.
LEMMA DeadState ==
  ASSUME ProcessDies, crashes' \in Nat
  PROVE  ProcessState'
<1> DEFINE yes == TRUE
           no == FALSE
<1>1. /\ writer' = [open |-> no, nextSeq |-> 1, head |-> FrameGenesis, sync |-> yes]
      /\ yes \in BOOLEAN /\ no \in BOOLEAN /\ ~ no
  BY DEF ProcessDies, Closed
<1>2. inflight' = None /\ ~ recording'
  BY DEF ProcessDies
<1> HIDE DEF yes, no
<1>3. /\ writer' \in [open : BOOLEAN, nextSeq : Nat \ {0}, head : {writer.head'}, sync : BOOLEAN]
      /\ ~ writer.open'
  BY <1>1
<1> QED BY <1>2, <1>3 DEF ProcessState

\* The frame an append makes is the next in the chain.
LEMMA NewFrameLinked ==
  ASSUME JInv, MayAppend, NEW type, NEW payload,
         (type = "sheet") <=> (writer.nextSeq = 1)
  PROVE  /\ Len(file.chunks) \in Nat
         /\ writer.nextSeq = Len(file.chunks) + 1
         /\ file.exists /\ file.header = HeaderUnits /\ Kept(file) = Len(file.chunks)
         /\ Linked(NewFrame(type, payload), Len(file.chunks) + 1,
                   HeadAt(file, Len(file.chunks) + 1))
<1>1. file.chunks \in Seq(ChunksOver(appended))
  BY DEF JInv, OnlyAppended, FilesOver
<1>2. Standing /\ inflight = None
  BY DEF JInv, ProcessState, MayAppend
<1>3. /\ writer.nextSeq = Len(file.chunks) + 1
      /\ writer.head = HeadAt(file, Len(file.chunks) + 1)
      /\ file.exists /\ file.header = HeaderUnits /\ Kept(file) = Len(file.chunks)
  BY <1>2 DEF Standing
<1> QED BY <1>1, <1>3, FrameFields DEF Linked, NewFrame

\* What is durable is never more than what the file keeps.
LEMMA AgreeKept ==
  ASSUME NEW A, NEW d \in FilesOver(A), NEW f \in FilesOver(A),
         Sound(d), Sound(f), Agree(d, f)
  PROVE  Kept(d) \in Nat /\ Kept(f) \in Nat /\ Kept(d) <= Kept(f)
<1>1. /\ Len(f.chunks) \in Nat
      /\ Kept(f) \in 0..Len(f.chunks)
      /\ Kept(f) < Len(f.chunks) =>
           Len(f.chunks) = Kept(f) + 1 /\ ~ Complete(f.chunks[Kept(f) + 1])
  BY KeptFacts
<1>2. /\ Len(d.chunks) \in Nat
      /\ Kept(d) \in 0..Len(d.chunks)
      /\ \A i \in 1..Kept(d) : Complete(d.chunks[i])
  BY KeptFacts
<1>3. ASSUME Kept(d) > Kept(f)
      PROVE  FALSE
  <2>1. Kept(d) \in 1..Kept(d)
    BY <1>1, <1>2, <1>3
  <2>2. Kept(d) <= Len(f.chunks) /\ f.chunks[Kept(d)] = d.chunks[Kept(d)]
    BY <2>1 DEF Agree
  <2>3. Kept(d) = Kept(f) + 1
    BY <1>1, <1>2, <1>3, <2>2
  <2>4. ~ Complete(f.chunks[Kept(d)])
    BY <1>1, <1>2, <1>3, <2>2, <2>3
  <2> QED BY <1>2, <2>1, <2>2, <2>4
<1> QED BY <1>1, <1>2, <1>3

\* When the durable file has no whole header nothing has been acknowledged.
LEMMA NothingAcked ==
  ASSUME JInv, durable.header < HeaderUnits
  PROVE  Kept(durable) = 0 /\ acked = {}
<1>1. Len(durable.chunks) = 0
  BY DEF JInv, Sound
<1>2. Kept(durable) = 0
  BY <1>1 DEF Kept
<1> QED BY <1>2 DEF JInv, AckedDurable

\* A new file, or none at all, in place of one that holds nothing.
LEMMA NewFileKeeps ==
  ASSUME JInv, durable.header < HeaderUnits,
         file' \in FilesOver(appended), file'.exists, Len(file'.chunks) = 0,
         durable.header <= file'.header,
         UNCHANGED << durable, acked, appended >>
  PROVE  Sound(file') /\ Sound(durable') /\ Agree(durable', file') /\ AckedDurable'
<1>1. Sound(file')
  BY NoChunksSound
<1>2. Kept(durable) = 0 /\ acked = {}
  BY NothingAcked
<1>3. Agree(durable', file')
  BY <1>2 DEF Agree
<1>4. AckedDurable'
  BY <1>2 DEF AckedDurable
<1>5. Sound(durable')
  BY DEF JInv
<1> QED BY <1>1, <1>3, <1>4, <1>5

\* A step that touches neither disk nor acknowledgements.
LEMMA SameDisk ==
  ASSUME JInv, UNCHANGED << file, durable, acked >>
  PROVE  Sound(file') /\ Sound(durable') /\ Agree(durable', file') /\ AckedDurable'
BY DEF JInv, AckedDurable

\* A frame written whole: the recorder's ledgers are what a replay of the file
\* with the frame gives.
LEMMA WriteKeeps ==
  ASSUME JInv, OnlyAppended', MayAppend,
         NEW f, Sized(f), Legible(f),
         writer.nextSeq = Len(file.chunks) + 1,
         file.exists, file.header = HeaderUnits, Kept(file) = Len(file.chunks),
         Linked(f, Len(file.chunks) + 1, HeadAt(file, Len(file.chunks) + 1)),
         WriteFrame(f), recording',
         ReplayFrame(ReplayFrames(Read(file, Len(file.chunks))), f)
           = [ledgers |-> ledgers', rejected |-> FALSE]
  PROVE  JInv'
<1> DEFINE n == Len(file.chunks)
<1>1. /\ file \in FilesOver(appended') /\ durable \in FilesOver(appended')
      /\ file' \in FilesOver(appended') /\ f \in appended'
      /\ \A g \in appended' : Sized(g)
  BY MoreFrames DEF WriteFrame, JInv, OnlyAppended
<1>2. FrameUnits(f) \in Nat \ {0} /\ FrameUnits(f) \in 1..FrameUnits(f)
  BY DEF FrameUnits, Sized
<1>3. Appended(file, f, FrameUnits(f), file')
  BY <1>1, <1>2, AppendingAppends DEF WriteFrame
<1>4. ReplayFrame(ReplayFrames(Read(file, n)), f).rejected = FALSE
  OBVIOUS
<1>5. Sound(file) /\ Sound(durable) /\ Agree(durable, file) /\ AckedDurable
  BY DEF JInv
<1>6. Sound(file') /\ Kept(file') = n + 1
  BY <1>1, <1>2, <1>3, <1>4, <1>5, AppendSound
<1>7. durable' = durable /\ acked' = acked /\ writer' = writer
      /\ inflight' = Some(f) /\ UNCHANGED budgets
  BY DEF WriteFrame
<1>8. n \in Nat /\ Len(file'.chunks) = n + 1 /\ file'.chunks[n + 1].frame = f
  <2>1. file.chunks \in Seq(ChunksOver(appended'))
    BY <1>1 DEF FilesOver
  <2> QED BY <1>3, <2>1 DEF Appended
<1>9. Agree(durable', file')
  BY <1>3, <1>5, <1>7, <1>8 DEF Agree, Appended
<1>10. AckedDurable'
  BY <1>5, <1>7 DEF AckedDurable
<1>11. Standing'
  BY <1>3, <1>6, <1>7, <1>8 DEF Standing, Appended, Some, None
<1>12. Live'
  <2>1. ReplayFrames(Read(file', n + 1)) = ReplayFrame(ReplayFrames(Read(file, n)), f)
    BY <1>1, <1>3, AppendReads
  <2> QED BY <1>8, <2>1 DEF Live
<1>13. ProcessState'
  <2>1. inflight' # None
    BY <1>7 DEF Some, None
  <2>2. writer.open /\ crashes \in Nat
        /\ writer \in [open : BOOLEAN, nextSeq : Nat \ {0}, head : {writer.head}, sync : BOOLEAN]
    BY DEF JInv, ProcessState, MayAppend
  <2> QED BY <1>7, <1>11, <1>12, <2>1, <2>2 DEF ProcessState, budgets
<1> QED BY <1>5, <1>6, <1>7, <1>9, <1>10, <1>13 DEF JInv

\* A frame written in part: the process exits, a torn tail stays.
LEMMA WriteFailsKeeps ==
  ASSUME JInv, OnlyAppended', FailStop, MayAppend,
         NEW f, Sized(f), Legible(f),
         file.exists, file.header = HeaderUnits, Kept(file) = Len(file.chunks),
         Linked(f, Len(file.chunks) + 1, HeadAt(file, Len(file.chunks) + 1)),
         NEW L, WriteFrameFails(f, L)
  PROVE  JInv'
<1> DEFINE n == Len(file.chunks)
<1>1. /\ file \in FilesOver(appended') /\ durable \in FilesOver(appended')
      /\ file' \in FilesOver(appended') /\ f \in appended'
      /\ \A g \in appended' : Sized(g)
  BY MoreFrames DEF WriteFrameFails, JInv, OnlyAppended
<1>2. PICK k \in 0..(FrameUnits(f) - 1) :
        file' = IF k = 0 THEN file
                ELSE [file EXCEPT !.chunks = Append(@, Chunk(f, k))]
  BY DEF WriteFrameFails
<1>3. FrameUnits(f) \in Nat \ {0}
  BY DEF FrameUnits, Sized
<1>4. durable' = durable /\ acked' = acked /\ crashes' = crashes /\ ProcessDies
  BY DEF WriteFrameFails
<1>5. Sound(file) /\ Sound(durable) /\ Agree(durable, file) /\ AckedDurable
  BY DEF JInv
<1>6. ProcessState'
  BY <1>4, DeadState DEF JInv, ProcessState
<1>7. AckedDurable'
  BY <1>4, <1>5 DEF AckedDurable
<1>8. CASE k = 0
  BY <1>2, <1>4, <1>5, <1>6, <1>7, <1>8 DEF JInv
<1>9. CASE k # 0
  <2>1. k \in Nat \ {0} /\ k \in 1..FrameUnits(f) /\ k # FrameUnits(f)
    BY <1>2, <1>3, <1>9
  <2>2. file' = [file EXCEPT !.chunks = Append(file.chunks, Chunk(f, k))]
    BY <1>2, <1>9
  <2>3. Appended(file, f, k, file')
    BY <1>1, <2>1, <2>2, AppendingAppends
  <2>4. Sound(file')
    BY <1>1, <1>5, <2>1, <2>3, AppendSound
  <2>5. n \in Nat
    BY <1>1 DEF FilesOver
  <2>6. Agree(durable', file')
    BY <1>4, <1>5, <2>3, <2>5 DEF Agree, Appended
  <2> QED BY <1>4, <1>5, <1>6, <1>7, <2>4, <2>6 DEF JInv
<1> QED BY <1>8, <1>9

\* The frames that are not entries.
LEMMA PlainFrames ==
  ASSUME NEW type, type # "entry", NEW payload, type = "sheet" => payload = SheetPayload
  PROVE  /\ Sized(NewFrame(type, payload)) /\ Legible(NewFrame(type, payload))
         /\ \A r : ReplayFrame(r, NewFrame(type, payload)) = r
<1>1. /\ NewFrame(type, payload).type = type
      /\ NewFrame(type, payload).payload = payload
      /\ NewFrame(type, payload).body = 1
  BY FrameFields DEF NewFrame
<1>2. 1 \in 1..MaxBody
  BY JournalFileAssumption
<1> QED BY <1>1, <1>2 DEF Sized, Legible, ReplayFrame

\* A recorder is past the first frame, with fit ledgers.
LEMMA RecordingIs ==
  ASSUME JInv, recording
  PROVE  /\ Len(file.chunks) \in Nat \ {0}
         /\ ReplayFrames(Read(file, Len(file.chunks)))
              = [ledgers |-> ledgers, rejected |-> FALSE]
         /\ WholeLedgers(ledgers) /\ Fit(ledgers)
<1> DEFINE n == Len(file.chunks)
           fs == Read(file, n)
<1>1. file \in FilesOver(appended) /\ WholeLedgers(ledgers)
  BY DEF JInv, OnlyAppended
<1>2. n \in Nat
  BY <1>1 DEF FilesOver
<1>3. n # 0 /\ ReplayFrames(fs) = [ledgers |-> ledgers, rejected |-> FALSE]
  BY DEF JInv, ProcessState, Live
<1>4. fs \in Seq(appended) /\ Len(fs) = n /\ \A i \in 1..n : fs[i] = file.chunks[i].frame
  <2>1. n \in 0..Len(file.chunks)
    BY <1>2
  <2> QED BY <1>1, <2>1, ReadFacts
<1>5. \A i \in 1..n : Legible(file.chunks[i].frame)
  BY DEF JInv, Sound
<1>6. Fit(ReplayFrames(fs).ledgers)
  <2> HIDE DEF fs, n
  <2>1. \A i \in 1..Len(fs) : Legible(fs[i])
    BY <1>4, <1>5
  <2> QED BY <1>4, <2>1, ReplayFits
<1>7. ReplayFrames(fs).ledgers = ledgers
  <2> HIDE DEF fs
  <2> QED BY <1>3
<1> QED BY <1>1, <1>2, <1>3, <1>6, <1>7

\* The frame of an event.
LEMMA EventFrameIs ==
  ASSUME Disciplined, JInv, recording, NEW c \in JCell, NEW v \in Event
  PROVE  /\ Sized(EventFrame(c, v)) /\ Legible(EventFrame(c, v))
         /\ ReplayFrame(ReplayFrames(Read(file, Len(file.chunks))), EventFrame(c, v))
              = [ledgers |-> RecordedIn(c, v), rejected |-> FALSE]
<1>1. /\ ReplayFrames(Read(file, Len(file.chunks)))
           = [ledgers |-> ledgers, rejected |-> FALSE]
      /\ WholeLedgers(ledgers) /\ Fit(ledgers)
  BY RecordingIs
<1>2. Null \notin Event /\ BodyOf[v] <= MaxBody
  BY DEF Disciplined
<1>3. /\ EntryOf(EventFrame(c, v)).after = v
      /\ ReplayFrame([ledgers |-> ledgers, rejected |-> FALSE], EventFrame(c, v))
           = [ledgers |-> RecordedIn(c, v), rejected |-> FALSE]
  BY <1>1, <1>2, EventReplays
<1>4. Sized(EventFrame(c, v))
  BY <1>1, NewFramesSized
<1>5. EventFrame(c, v).type = "entry" /\ EventFrame(c, v).body = BodyOf[v]
  <2>1. Last(RecordedIn(c, v)[c].entries).after = v
    BY <1>1, RecordedFacts, RecordIsRestore
  <2> DEFINE p == [cell |-> c, entry |-> Last(RecordedIn(c, v)[c].entries)]
  <2>2. EventFrame(c, v).body = BodyOf[p.entry.after] /\ EventFrame(c, v).type = "entry"
    BY FrameFields DEF EventFrame, NewFrame
  <2>3. p.entry.after = v
    BY <2>1
  <2> HIDE DEF p
  <2> QED BY <2>2, <2>3
<1>6. EventFrame(c, v).body \in 1..MaxBody
  BY <1>2, <1>4, <1>5, JournalFileAssumption DEF Sized
<1> QED BY <1>1, <1>3, <1>4, <1>5, <1>6 DEF Legible

-----------------------------------------------------------------------------

LEMMA StartKeeps ==
  ASSUME Disciplined, JInv, OnlyAppended', Start \/ StartFails
  PROVE  JInv'
<1> DEFINE f == NewFrame("sheet", SheetPayload)
           n == Len(file.chunks)
<1>1. MayAppend /\ writer.nextSeq = 1
  BY DEF Start, StartFails, CanStart, Disciplined
<1>2. Sized(f) /\ Legible(f) /\ \A r : ReplayFrame(r, f) = r
  BY PlainFrames
<1>3. /\ n \in Nat /\ writer.nextSeq = n + 1
      /\ file.exists /\ file.header = HeaderUnits /\ Kept(file) = n
      /\ Linked(f, n + 1, HeadAt(file, n + 1))
  BY <1>1, NewFrameLinked
<1>4. CASE Start
  <2>1. WriteFrame(f) /\ recording' /\ ledgers' = NoLedgers
    BY <1>4 DEF Start
  <2>2. n = 0
    BY <1>1, <1>3
  <2>3. Read(file, n) = << >>
    BY <2>2 DEF Read
  <2>4. ReplayFrames(Read(file, n)) = [ledgers |-> ledgers', rejected |-> FALSE]
    BY <2>1, <2>3, ReplayOfNone DEF ReplayStart
  <2> HIDE DEF f, n
  <2>5. ReplayFrame(ReplayFrames(Read(file, n)), f)
          = [ledgers |-> ledgers', rejected |-> FALSE]
    BY <1>2, <2>4
  <2> QED BY <1>1, <1>2, <1>3, <2>1, <2>5, WriteKeeps DEF n
<1>5. CASE StartFails
  <2>1. WriteFrameFails(f, ledgers) /\ FailStop
    BY <1>5 DEF StartFails, Disciplined
  <2> HIDE DEF f
  <2> QED BY <1>1, <1>2, <1>3, <2>1, WriteFailsKeeps
<1> QED BY <1>4, <1>5

LEMMA CheckpointKeeps ==
  ASSUME Disciplined, JInv, OnlyAppended', Checkpoint
  PROVE  JInv'
<1> DEFINE f == NewFrame("checkpoint", [note |-> "heartbeat"])
           n == Len(file.chunks)
<1>1. MayAppend /\ recording /\ WriteFrame(f) /\ recording' /\ ledgers' = ledgers
  BY DEF Checkpoint
<1>2. Sized(f) /\ Legible(f) /\ \A r : ReplayFrame(r, f) = r
  BY PlainFrames
<1>3. n \in Nat \ {0}
      /\ ReplayFrames(Read(file, n)) = [ledgers |-> ledgers', rejected |-> FALSE]
  BY <1>1, RecordingIs
<1>4. writer.nextSeq # 1
  <2>1. inflight = None /\ Standing
    BY <1>1 DEF MayAppend, JInv, ProcessState
  <2> QED BY <1>3, <2>1 DEF Standing
<1>5. /\ writer.nextSeq = n + 1
      /\ file.exists /\ file.header = HeaderUnits /\ Kept(file) = n
      /\ Linked(f, n + 1, HeadAt(file, n + 1))
  BY <1>1, <1>4, NewFrameLinked
<1> HIDE DEF f, n
<1>6. ReplayFrame(ReplayFrames(Read(file, n)), f)
        = [ledgers |-> ledgers', rejected |-> FALSE]
  BY <1>2, <1>3
<1> QED BY <1>1, <1>2, <1>5, <1>6, WriteKeeps DEF n

LEMMA RecordEventKeeps ==
  ASSUME Disciplined, JInv, OnlyAppended', NEW c \in JCell, NEW v \in Event,
         RecordEvent(c, v) \/ RecordEventFails(c, v)
  PROVE  JInv'
<1> DEFINE f == EventFrame(c, v)
           n == Len(file.chunks)
<1>1. MayAppend /\ recording
  BY DEF RecordEvent, RecordEventFails
<1>2. /\ Sized(f) /\ Legible(f)
      /\ ReplayFrame(ReplayFrames(Read(file, n)), f)
           = [ledgers |-> RecordedIn(c, v), rejected |-> FALSE]
  BY <1>1, EventFrameIs
<1>3. writer.nextSeq # 1
  <2>1. n \in Nat \ {0}
    BY <1>1, RecordingIs
  <2>2. inflight = None /\ Standing
    BY <1>1 DEF MayAppend, JInv, ProcessState
  <2> QED BY <2>1, <2>2 DEF Standing
<1>4. /\ writer.nextSeq = n + 1
      /\ file.exists /\ file.header = HeaderUnits /\ Kept(file) = n
      /\ Linked(f, n + 1, HeadAt(file, n + 1))
  BY <1>1, <1>3, NewFrameLinked DEF EventFrame
<1>5. CASE RecordEvent(c, v)
  <2>1. WriteFrame(f) /\ recording' /\ ledgers' = RecordedIn(c, v)
    BY <1>1, <1>5 DEF RecordEvent
  <2> HIDE DEF f, n
  <2>2. ReplayFrame(ReplayFrames(Read(file, n)), f)
          = [ledgers |-> ledgers', rejected |-> FALSE]
    BY <1>2, <2>1
  <2> QED BY <1>1, <1>2, <1>4, <2>1, <2>2, WriteKeeps DEF n
<1>6. CASE RecordEventFails(c, v)
  <2>1. WriteFrameFails(f, RecordedIn(c, v)) /\ FailStop
    BY <1>6 DEF RecordEventFails, Disciplined
  <2> HIDE DEF f
  <2> QED BY <1>1, <1>2, <1>4, <2>1, WriteFailsKeeps
<1> QED BY <1>5, <1>6

-----------------------------------------------------------------------------

\* The steps that leave the file alone.
LEMMA AckKeeps ==
  ASSUME JInv, OnlyAppended', Ack
  PROVE  JInv'
<1> DEFINE n == Len(file.chunks)
           fr == file.chunks[n].frame
<1>1. /\ inflight # None /\ file' = file /\ inflight' = None
      /\ recording' = recording /\ ledgers' = ledgers /\ crashes' = crashes
      /\ writer' = [writer EXCEPT !.nextSeq = @ + 1, !.head = inflight[1].head]
  BY DEF Ack, budgets
<1>2. /\ file \in FilesOver(appended) /\ durable \in FilesOver(appended)
      /\ Sound(file) /\ Sound(durable) /\ Agree(durable, file) /\ AckedDurable
  BY DEF JInv, OnlyAppended
<1>3. /\ writer \in [open : BOOLEAN, nextSeq : Nat \ {0}, head : {writer.head}, sync : BOOLEAN]
      /\ crashes \in Nat /\ writer.open /\ Standing /\ recording /\ Live
  BY <1>1 DEF JInv, ProcessState
<1>4. /\ n # 0 /\ inflight = Some(fr) /\ writer.nextSeq = n
      /\ file.exists /\ file.header = HeaderUnits /\ Kept(file) = n
  BY <1>1, <1>3 DEF Standing
<1>5. n \in Nat /\ n \in 1..n
  BY <1>2, <1>4 DEF FilesOver
<1>6. inflight[1] = fr
  BY <1>4 DEF Some
<1>7. fr.seq = n
  BY <1>2, <1>5 DEF Sound, Linked
<1>8. /\ writer' \in [open : BOOLEAN, nextSeq : Nat \ {0}, head : {writer.head'}, sync : BOOLEAN]
      /\ writer.open' /\ writer.nextSeq' = n + 1 /\ writer.head' = fr.head
  <2> DEFINE o == writer.open
             y == writer.sync
             g == writer.head
             k == writer.nextSeq
             h == fr.head
  <2>1. writer' = [writer EXCEPT !.nextSeq = k + 1, !.head = h]
    BY <1>1, <1>6
  <2>2. /\ writer = [open |-> o, nextSeq |-> k, head |-> g, sync |-> y]
        /\ o \in BOOLEAN /\ k \in Nat \ {0} /\ y \in BOOLEAN /\ o /\ k = n
    BY <1>3, <1>4
  <2> HIDE DEF n, fr, o, y, g, k, h
  <2>3. writer' = [open |-> o, nextSeq |-> k + 1, head |-> h, sync |-> y]
    BY <2>1, <2>2
  <2>4. /\ writer' \in [open : BOOLEAN, nextSeq : Nat \ {0}, head : {writer.head'}, sync : BOOLEAN]
        /\ writer.open' /\ writer.nextSeq' = k + 1 /\ writer.head' = h
    BY <2>2, <2>3
  <2> QED BY <2>2, <2>4 DEF h
<1>9. fr.head = HeadAt(file', n + 1)
  <2>1. n + 1 # 1 /\ n + 1 - 1 = n
    BY <1>4, <1>5
  <2> QED BY <1>1, <2>1 DEF HeadAt
<1>10. ProcessState'
  <2>1. Standing'
    BY <1>1, <1>4, <1>8, <1>9 DEF Standing
  <2>2. Live'
    BY <1>1, <1>3 DEF Live
  <2> QED BY <1>1, <1>3, <1>8, <2>1, <2>2 DEF ProcessState
<1>11. CASE durable' = durable /\ acked' = acked
  BY <1>1, <1>2, <1>10, <1>11, SameDisk DEF JInv
<1>12. CASE durable' = file /\ acked' = acked \cup {inflight[1]}
  <2>1. Kept(file) \in Nat /\ Kept(durable) \in Nat /\ Kept(durable) <= Kept(file)
    BY <1>2, AgreeKept
  <2>2. Agree(durable', file')
    BY <1>1, <1>2, <1>4, <1>5, <1>12 DEF Agree, FilesOver, HeaderUnits
  <2>3. ASSUME NEW g \in acked'
        PROVE  g.seq \in 1..Kept(file) /\ file.chunks[g.seq].frame = g
    <3>1. CASE g \in acked
      <4>1. g.seq \in 1..Kept(durable) /\ durable.chunks[g.seq].frame = g
        BY <1>2, <3>1 DEF AckedDurable
      <4>2. file.chunks[g.seq] = durable.chunks[g.seq]
        BY <1>2, <4>1 DEF Agree
      <4> QED BY <2>1, <4>1, <4>2
    <3>2. CASE g = fr
      <4> HIDE DEF n
      <4> QED BY <1>4, <1>5, <1>7, <3>2
    <3> QED BY <1>6, <1>12, <2>3, <3>1, <3>2
  <2>4. AckedDurable'
    BY <1>12, <2>3 DEF AckedDurable
  <2> QED BY <1>1, <1>2, <1>10, <1>12, <2>2, <2>4 DEF JInv
<1> QED BY <1>11, <1>12 DEF Ack

LEMMA DeathKeeps ==
  ASSUME Disciplined, JInv, OnlyAppended', SyncFails \/ Exit
  PROVE  JInv'
<1>1. crashes \in Nat
  BY DEF JInv, ProcessState
<1>2. CASE SyncFails
  BY <1>1, <1>2, DeadState, SameDisk DEF SyncFails, Disciplined, disk, history, JInv
<1>3. CASE Exit
  BY <1>1, <1>3, DeadState, SameDisk DEF Exit, disk, history, JInv
<1> QED BY <1>2, <1>3

-----------------------------------------------------------------------------

\* A closed process stays closed.
LEMMA ClosedStays ==
  ASSUME JInv, ~ writer.open, UNCHANGED process, crashes' = crashes
  PROVE  ProcessState'
BY DEF JInv, ProcessState, process

\* A new journal.
LEMMA NewJournal ==
  ASSUME NEW sync \in BOOLEAN, writer' = Fresh(sync), file' = FreshFile,
         ~ recording', inflight' = None, crashes' \in Nat
  PROVE  ProcessState'
<1>1. /\ writer' \in [open : BOOLEAN, nextSeq : Nat \ {0}, head : {writer.head'}, sync : BOOLEAN]
      /\ writer.open' /\ writer.nextSeq' = 1 /\ writer.head' = FrameGenesis
  BY FreshIs
<1>2. FreshFile = [exists |-> TRUE, header |-> 2, chunks |-> << >>]
  BY FreshFiles
<1>3. file'.exists /\ file'.header = HeaderUnits /\ Len(file'.chunks) = 0
  BY <1>2 DEF HeaderUnits
<1>4. Kept(file') = 0
  BY <1>3 DEF Kept
<1>5. Standing'
  BY <1>1, <1>3, <1>4 DEF Standing, HeadAt
<1> QED BY <1>1, <1>5 DEF ProcessState

LEMMA CreateKeeps ==
  ASSUME JInv, OnlyAppended', Create \/ CreateFails \/ ReopenEmpty
  PROVE  JInv'
<1>1. ~ writer.open /\ ~ recording /\ inflight = None /\ crashes \in Nat
  BY DEF JInv, ProcessState, Create, CreateFails, ReopenEmpty
<1>2. /\ UNCHANGED << durable, acked, appended >>
      /\ crashes' = crashes /\ recording' = recording /\ inflight' = inflight
  BY DEF Create, CreateFails, ReopenEmpty, history, budgets, process
<1>3. file' \in FilesOver(appended) /\ durable \in FilesOver(appended)
      /\ Agree(durable, file) /\ Sound(durable)
  BY <1>2 DEF JInv, OnlyAppended
<1>4. durable.header = 0
  <2>1. CASE ~ file.exists
    BY <1>3, <2>1 DEF Agree, Sound
  <2>2. CASE file = EmptyFile
    <3>1. file.header = 0
      BY <2>2, FreshFiles
    <3> QED BY <1>3, <3>1 DEF Agree, FilesOver
  <2> QED BY <2>1, <2>2 DEF Create, CreateFails, ReopenEmpty
<1>5. file'.exists /\ Len(file'.chunks) = 0 /\ durable.header <= file'.header
  <2>1. CASE file' = FreshFile
    BY <1>4, <2>1, FreshFiles
  <2>2. ASSUME NEW h \in 0..(HeaderUnits - 1), file' = [EmptyFile EXCEPT !.header = h]
        PROVE  file'.exists /\ Len(file'.chunks) = 0 /\ durable.header <= file'.header
    <3>1. h \in 0..HeaderUnits
      BY DEF HeaderUnits
    <3>2. file' = [exists |-> TRUE, header |-> h, chunks |-> << >>]
      BY <2>2, <3>1, FreshFiles
    <3> QED BY <1>4, <3>2
  <2> QED BY <2>1, <2>2 DEF Create, CreateFails, ReopenEmpty
<1>6. Sound(file') /\ Sound(durable') /\ Agree(durable', file') /\ AckedDurable'
  BY <1>2, <1>3, <1>4, <1>5, NewFileKeeps DEF HeaderUnits
<1>7. CASE CreateFails
  <2>1. ProcessState'
    BY <1>1, <1>2, <1>7, ClosedStays DEF CreateFails
  <2> QED BY <1>6, <2>1 DEF JInv
<1>8. CASE Create \/ ReopenEmpty
  <2>1. PICK sync \in Policy : writer' = Fresh(sync)
    BY <1>8 DEF Create, ReopenEmpty
  <2>2. sync \in BOOLEAN
    BY JournalAssumption
  <2>3. file' = FreshFile
    BY <1>8 DEF Create, ReopenEmpty
  <2>4. ProcessState'
    BY <1>1, <1>2, <2>1, <2>2, <2>3, NewJournal
  <2> QED BY <1>6, <2>4 DEF JInv
<1> QED BY <1>7, <1>8

-----------------------------------------------------------------------------

\* Cutting a torn tail off takes nothing durable.
LEMMA TruncationKeeps ==
  ASSUME JInv, file' = Truncated(file, JournalVerify(file)),
         UNCHANGED << durable, acked, appended >>
  PROVE  /\ Sound(file') /\ Sound(durable') /\ Agree(durable', file') /\ AckedDurable'
         /\ file'.exists = file.exists /\ file'.header = file.header
         /\ Kept(file') = Kept(file) /\ Len(file'.chunks) = Kept(file)
         /\ Kept(file) \in Nat
         /\ \A i \in 1..Kept(file) : file'.chunks[i] = file.chunks[i]
<1>1. /\ file \in FilesOver(appended) /\ durable \in FilesOver(appended)
      /\ \A f \in appended : Sized(f)
      /\ Sound(file) /\ Sound(durable) /\ Agree(durable, file) /\ AckedDurable
  BY DEF JInv, OnlyAppended
<1>2. /\ Sound(file')
      /\ file'.exists = file.exists /\ file'.header = file.header
      /\ Kept(file') = Kept(file) /\ Kept(file') = Len(file'.chunks)
      /\ \A i \in 1..Kept(file) : file'.chunks[i] = file.chunks[i]
  BY <1>1, TruncatedSound
<1>3. Kept(durable) \in Nat /\ Kept(file) \in Nat /\ Kept(durable) <= Kept(file)
  BY <1>1, AgreeKept
<1>4. Agree(durable', file')
  BY <1>1, <1>2, <1>3 DEF Agree
<1>5. AckedDurable'
  BY <1>1 DEF AckedDurable
<1> QED BY <1>1, <1>2, <1>3, <1>4, <1>5

\* The head a resumed writer goes on from.
LEMMA HeadOfRead ==
  ASSUME NEW A, NEW f \in FilesOver(A), NEW n \in 0..Len(f.chunks)
  PROVE  HeadOf(Read(f, n)) = HeadAt(f, n + 1)
<1>1. f.chunks \in Seq(ChunksOver(A)) /\ Len(f.chunks) \in Nat /\ n \in Nat
  BY DEF FilesOver
<1>2. /\ Read(f, n) \in Seq(A) /\ Len(Read(f, n)) = n
      /\ \A i \in 1..n : Read(f, n)[i] = f.chunks[i].frame
  BY ReadFacts
<1>3. CASE n = 0
  <2>1. Read(f, n) = << >>
    BY <1>3 DEF Read
  <2> QED BY <1>3, <2>1 DEF HeadOf, HeadAt
<1>4. CASE n # 0
  <2>1. Read(f, n) # << >> /\ n \in 1..n /\ n + 1 # 1 /\ n + 1 - 1 = n
    BY <1>1, <1>2, <1>4
  <2>2. Last(Read(f, n)) = f.chunks[n].frame
    BY <1>2, <2>1 DEF Last
  <2> QED BY <2>1, <2>2 DEF HeadOf, HeadAt
<1> QED BY <1>3, <1>4

LEMMA ResumeKeeps ==
  ASSUME JInv, OnlyAppended', Resume
  PROVE  JInv'
<1> DEFINE m == Kept(file)
<1>1. PICK sync \in Policy :
        /\ JournalVerify(file).outcome \in {"clean", "torn"}
        /\ file' = Truncated(file, JournalVerify(file))
        /\ writer' = [open |-> TRUE, nextSeq |-> Len(JournalVerify(file).frames) + 1,
                      head |-> HeadOf(JournalVerify(file).frames), sync |-> sync]
  BY DEF Resume
<1>2. /\ ~ writer.open /\ file.exists
      /\ UNCHANGED << durable, inflight, recording, acked, appended, crashes >>
  BY DEF Resume, history, budgets
<1>3. inflight = None /\ ~ recording /\ crashes \in Nat
  BY <1>2 DEF JInv, ProcessState
<1>4. /\ file \in FilesOver(appended) /\ \A f \in appended : Sized(f)
      /\ file' \in FilesOver(appended) /\ Sound(file)
  BY <1>2 DEF JInv, OnlyAppended
<1>5. /\ Sound(file') /\ Sound(durable') /\ Agree(durable', file') /\ AckedDurable'
      /\ file'.exists = file.exists /\ file'.header = file.header
      /\ Kept(file') = m /\ Len(file'.chunks) = m /\ m \in Nat
      /\ \A i \in 1..m : file'.chunks[i] = file.chunks[i]
  BY <1>1, <1>2, TruncationKeeps
<1>6. /\ JournalVerify(file).frames = Read(file, m)
      /\ Len(Read(file, m)) = m
      /\ JournalVerify(file).outcome
           = IF file.header < HeaderUnits THEN "tornHeader"
             ELSE IF m = Len(file.chunks) THEN "clean" ELSE "torn"
  BY <1>4, SoundReads
<1>7. file.header = HeaderUnits
  BY <1>1, <1>4, <1>6 DEF FilesOver, HeaderUnits
<1>8. m \in 0..Len(file.chunks) /\ m \in 0..Len(file'.chunks)
  BY <1>4, <1>5, KeptFacts
<1>9. HeadOf(Read(file, m)) = HeadAt(file', m + 1)
  <2>1. Read(file, m) = Read(file', m)
    BY <1>5, SameReads
  <2> QED BY <1>4, <1>8, <2>1, HeadOfRead
<1>10. /\ writer' \in [open : BOOLEAN, nextSeq : Nat \ {0}, head : {writer.head'}, sync : BOOLEAN]
       /\ writer.open' /\ writer.nextSeq' = m + 1
       /\ writer.head' = HeadOf(JournalVerify(file).frames)
  <2>1. sync \in BOOLEAN
    BY JournalAssumption
  <2>2. Len(JournalVerify(file).frames) + 1 = m + 1 /\ m + 1 \in Nat \ {0}
    BY <1>5, <1>6
  <2> HIDE DEF m
  <2> QED BY <1>1, <2>1, <2>2, WriterIs
<1>11. Standing'
  <2> HIDE DEF m
  <2> QED BY <1>2, <1>3, <1>5, <1>6, <1>7, <1>9, <1>10 DEF Standing
<1>12. ProcessState'
  BY <1>2, <1>3, <1>10, <1>11 DEF ProcessState
<1> QED BY <1>5, <1>12 DEF JInv

LEMMA RecoverKeeps ==
  ASSUME JInv, OnlyAppended', RecoverFile
  PROVE  JInv'
<1>1. file' = Truncated(file, JournalVerify(file))
  BY DEF RecoverFile, Recovered
<1>2. Sound(file') /\ Sound(durable') /\ Agree(durable', file') /\ AckedDurable'
  BY <1>1, TruncationKeeps DEF RecoverFile, history
<1>3. ProcessState'
  BY ClosedStays DEF RecoverFile, budgets
<1> QED BY <1>2, <1>3 DEF JInv

LEMMA RebuildKeeps ==
  ASSUME JInv, OnlyAppended', RebuildLedgers
  PROVE  JInv'
<1> DEFINE n == Len(file.chunks)
           r == ReplayFrames(Read(file, n))
<1>1. /\ ~ recording /\ writer.open /\ writer.nextSeq > 1
      /\ recording' /\ ledgers' = JournalReplay(file).ledgers
      /\ UNCHANGED << file, durable, writer, inflight, acked, appended, crashes >>
  BY DEF RebuildLedgers, disk, history, budgets
<1>2. /\ inflight = None /\ Standing /\ crashes \in Nat
      /\ writer \in [open : BOOLEAN, nextSeq : Nat \ {0}, head : {writer.head}, sync : BOOLEAN]
  BY <1>1 DEF JInv, ProcessState
<1>3. /\ file \in FilesOver(appended) /\ \A f \in appended : Sized(f) /\ Sound(file)
  BY DEF JInv, OnlyAppended
<1>4. Kept(file) = n /\ writer.nextSeq = n + 1 /\ n \in Nat
  BY <1>2, <1>3 DEF Standing, FilesOver
<1>5. JournalReplay(file) = r /\ ~ r.rejected /\ WholeReplay(r)
  <2>1. Sound(file) /\ \A f \in appended : Sized(f)
    BY DEF JInv, OnlyAppended
  <2>2. JournalReplay(file) = r
    BY <1>3, <1>4, <2>1, SoundReads
  <2>3. ~ r.rejected
    BY <1>4, <2>1 DEF Sound
  <2>4. WholeReplay(r)
    BY <1>3, <2>2, JournalReplayIsWhole
  <2> QED BY <2>2, <2>3, <2>4
<1>6. r = [ledgers |-> ledgers', rejected |-> FALSE]
  <2> HIDE DEF r
  <2>1. r = [ledgers |-> r.ledgers, rejected |-> r.rejected] /\ r.rejected \in BOOLEAN
    BY <1>5 DEF WholeReplay
  <2>2. ledgers' = r.ledgers /\ r.rejected = FALSE
    BY <1>1, <1>5, <2>1
  <2> QED BY <2>1, <2>2
<1>7. Live'
  <2>1. n # 0
    BY <1>1, <1>4
  <2> QED BY <1>1, <1>6, <2>1 DEF Live
<1>8. Standing'
  BY <1>1, <1>2 DEF Standing
<1>9. ProcessState'
  BY <1>1, <1>2, <1>7, <1>8 DEF ProcessState
<1> QED BY <1>1, <1>9, SameDisk DEF JInv

LEMMA PowerLossKeeps ==
  ASSUME JInv, OnlyAppended', PowerLoss
  PROVE  JInv'
<1> DEFINE common == Cuts(durable) \cap Cuts(file)
<1>1. /\ durable' = file' /\ acked' = acked /\ appended' = appended /\ ProcessDies
      /\ crashes' = crashes + 1
      /\ file' = durable \/ (file' \in Cuts(file) /\ common \subseteq Cuts(file'))
  BY DEF PowerLoss, history
<1>2. /\ file \in FilesOver(appended) /\ durable \in FilesOver(appended)
      /\ file' \in FilesOver(appended)
      /\ Sound(file) /\ Sound(durable) /\ Agree(durable, file) /\ AckedDurable
      /\ crashes \in Nat
  BY <1>1 DEF JInv, OnlyAppended, ProcessState
<1>3. ProcessState'
  BY <1>1, <1>2, DeadState
<1>4. Sound(file')
  BY <1>1, <1>2, CutSound
<1>5. Agree(file', file')
  <2>1. Kept(file') \in 0..Len(file'.chunks) /\ Len(file'.chunks) \in Nat
    BY <1>2, <1>4, KeptFacts
  <2>2. file'.header \in Nat
    BY <1>2 DEF FilesOver
  <2> QED BY <2>1, <2>2 DEF Agree
<1>6. AckedDurable'
  <2>1. CASE file' = durable
    BY <1>1, <1>2, <2>1 DEF AckedDurable
  <2>2. CASE file' \in Cuts(file) /\ common \subseteq Cuts(file')
    <3>1. ASSUME NEW f \in acked
          PROVE  f.seq \in 1..Kept(file') /\ file'.chunks[f.seq].frame = f
      <4>1. f.seq \in 1..Kept(durable) /\ durable.chunks[f.seq].frame = f
        BY <1>2 DEF AckedDurable
      <4>2. f.seq \in 1..Kept(file') /\ file'.chunks[f.seq] = durable.chunks[f.seq]
        BY <1>2, <2>2, <4>1, CommonCutKept
      <4> QED BY <4>1, <4>2
    <3> QED BY <1>1, <3>1 DEF AckedDurable
  <2> QED BY <1>1, <2>1, <2>2
<1> QED BY <1>1, <1>3, <1>4, <1>5, <1>6 DEF JInv

LEMMA InitJInv == Init => JInv
<1> SUFFICES ASSUME Init PROVE JInv
  OBVIOUS
<1>1. OnlyAppended
  BY InitOnlyAppended
<1>2. file = NoFile /\ durable = NoFile
  BY DEF Init
<1>3. NoFile = [exists |-> FALSE, header |-> 0, chunks |-> << >>]
  BY FreshFiles
<1>4. Len(NoFile.chunks) = 0 /\ NoFile.header = 0 /\ ~ NoFile.exists
  BY <1>3
<1>5. Sound(file) /\ Sound(durable)
  BY <1>1, <1>2, <1>4, NoChunksSound DEF OnlyAppended
<1>6. Kept(durable) = 0
  BY <1>2, <1>4 DEF Kept
<1>7. Agree(durable, file)
  BY <1>2, <1>4, <1>6 DEF Agree
<1>8. AckedDurable
  BY DEF Init, AckedDurable
<1>9. ProcessState
  <2> DEFINE yes == TRUE
             no == FALSE
  <2>1. /\ writer = [open |-> no, nextSeq |-> 1, head |-> FrameGenesis, sync |-> yes]
        /\ yes \in BOOLEAN /\ no \in BOOLEAN /\ ~ no
        /\ inflight = None /\ ~ recording /\ crashes \in Nat
    BY DEF Init, Closed
  <2> HIDE DEF yes, no
  <2>2. /\ writer \in [open : BOOLEAN, nextSeq : Nat \ {0}, head : {writer.head}, sync : BOOLEAN]
        /\ ~ writer.open
    BY <2>1
  <2> QED BY <2>1, <2>2 DEF ProcessState
<1> QED BY <1>1, <1>5, <1>7, <1>8, <1>9 DEF JInv

\* Every step of a disciplined caller keeps the invariant.
LEMMA NextJInv == Disciplined /\ JInv /\ [Next]_vars => JInv'
<1> SUFFICES ASSUME Disciplined, JInv, [Next]_vars PROVE JInv'
  OBVIOUS
<1>1. OnlyAppended'
  BY NextOnlyAppended DEF JInv
<1>2. CASE UNCHANGED vars
  <2>1. ProcessState'
    BY <1>2 DEF vars, JInv, ProcessState, Standing, Live
  <2> QED BY <1>1, <1>2, <2>1, SameDisk DEF vars, JInv
<1>3. ~ BitRot
  BY DEF BitRot, Disciplined
<1>4. CASE Next
  BY <1>1, <1>3, <1>4, CreateKeeps, ResumeKeeps, RebuildKeeps, RecoverKeeps,
     StartKeeps, CheckpointKeeps, RecordEventKeeps, AckKeeps, DeathKeeps,
     PowerLossKeeps DEF Next
<1> QED BY <1>2, <1>4

LEMMA JInvHolds == Disciplined /\ Spec => []JInv
<1>1. Init => JInv
  BY InitJInv
<1>2. Disciplined /\ JInv /\ [Next]_vars => JInv'
  BY NextJInv
<1>3. Disciplined => Disciplined'
  BY DEF Disciplined
<1> QED BY <1>1, <1>2, <1>3, PTL DEF Spec

-----------------------------------------------------------------------------
(***************************************************************************)
(* What the invariant gives.                                               *)
(***************************************************************************)

\* What the readers make of a file of this kind.
LEMMA FileReads ==
  ASSUME JInv
  PROVE  /\ file \in FilesOver(appended)
         /\ Kept(file) \in 0..Len(file.chunks) /\ Len(file.chunks) \in Nat
         /\ Vouched(file) = Read(file, Kept(file))
         /\ Len(Read(file, Kept(file))) = Kept(file)
         /\ \A i \in 1..Kept(file) : Read(file, Kept(file))[i] = file.chunks[i].frame
         /\ JournalReplay(file) = ReplayFrames(Read(file, Kept(file)))
         /\ Kept(durable) \in Nat /\ Kept(durable) <= Kept(file)
<1>1. /\ file \in FilesOver(appended) /\ durable \in FilesOver(appended)
      /\ \A f \in appended : Sized(f)
      /\ Sound(file) /\ Sound(durable) /\ Agree(durable, file)
  BY DEF JInv, OnlyAppended
<1> QED BY <1>1, KeptFacts, SoundReads, AgreeKept

LEMMA AckedIsRead == JInv => AckedReadable
<1> SUFFICES ASSUME JInv, NEW f \in acked
             PROVE  f.seq <= Len(Vouched(file)) /\ Vouched(file)[f.seq] = f
  BY DEF AckedReadable
<1>1. f.seq \in 1..Kept(durable) /\ durable.chunks[f.seq].frame = f
  BY DEF JInv, AckedDurable
<1>2. file.chunks[f.seq] = durable.chunks[f.seq]
  BY <1>1 DEF JInv, Agree
<1> QED BY <1>1, <1>2, FileReads

\* "The ack is the promise": what was acknowledged after a sync reads back,
\* through power losses, deaths, failed writes and syncs and every recovery.
THEOREM AckedReadableAlways == Disciplined /\ Spec => []AckedReadable
BY JInvHolds, AckedIsRead, PTL

LEMMA LiveReplays == JInv => LiveIsReplay
<1> SUFFICES ASSUME JInv, recording, inflight = None
             PROVE  LET fs == Vouched(file) IN
                    /\ JournalReplay(file) = [ledgers |-> ledgers, rejected |-> FALSE]
                    /\ writer.nextSeq = Len(fs) + 1
                    /\ writer.head = HeadOf(fs)
  BY DEF LiveIsReplay
<1> DEFINE n == Len(file.chunks)
<1>1. Standing
  BY DEF JInv, ProcessState
<1>2. Kept(file) = n /\ writer.nextSeq = n + 1 /\ writer.head = HeadAt(file, n + 1)
  BY <1>1 DEF Standing
<1>3. ReplayFrames(Read(file, n)) = [ledgers |-> ledgers, rejected |-> FALSE]
  BY RecordingIs
<1>4. /\ file \in FilesOver(appended) /\ n \in 0..n
      /\ Vouched(file) = Read(file, n) /\ Len(Read(file, n)) = n
      /\ JournalReplay(file) = ReplayFrames(Read(file, n))
  BY <1>2, FileReads
<1>5. HeadOf(Read(file, n)) = HeadAt(file, n + 1)
  BY <1>4, HeadOfRead
<1> HIDE DEF n
<1> QED BY <1>2, <1>3, <1>4, <1>5

\* While the process runs, the journal on its disk says exactly what its
\* ledgers say.
THEOREM LiveIsReplayAlways == Disciplined /\ Spec => []LiveIsReplay
BY JInvHolds, LiveReplays, PTL

LEMMA TruncationsAreHonest == JInv => TruncationIsHonest
<1> SUFFICES ASSUME JInv, NEW cut \in Cuts(file), cut # NoFile
             PROVE  LET r == JournalVerify(cut) IN
                    /\ r.outcome \in {"clean", "torn", "tornHeader"}
                    /\ IsPrefix(r.frames, JournalVerify(file).frames)
                    /\ Len(r.frames) = Cardinality({i \in 1..Len(cut.chunks) :
                                                      Complete(cut.chunks[i])})
                    /\ ~ Replayed(r).rejected
  BY DEF TruncationIsHonest
<1> DEFINE r == JournalVerify(cut)
           k == Kept(cut)
           m == Kept(file)
<1>1. file \in FilesOver(appended) /\ Sound(file) /\ \A f \in appended : Sized(f)
  BY DEF JInv, OnlyAppended
<1>2. /\ cut \in FilesOver(appended) /\ Sound(cut)
      /\ k <= m /\ Read(cut, k) = Read(file, k)
  BY <1>1, CutSound
<1>3. /\ r.frames = Read(cut, k) /\ Len(Read(cut, k)) = k
      /\ r.outcome \in {"clean", "torn", "tornHeader"}
      /\ Replayed(r) = ReplayFrames(Read(cut, k))
  BY <1>1, <1>2, SoundReads
<1>4. /\ Len(cut.chunks) \in Nat /\ k \in 0..Len(cut.chunks)
      /\ \A i \in 1..k : Complete(cut.chunks[i])
      /\ k < Len(cut.chunks) =>
           Len(cut.chunks) = k + 1 /\ ~ Complete(cut.chunks[k + 1])
  BY <1>2, KeptFacts
<1>5. ~ Replayed(r).rejected
  BY <1>2, <1>3, <1>4 DEF Sound
<1>6. JournalVerify(file).frames = Read(file, m)
  BY <1>1, SoundReads
<1>7. IsPrefix(r.frames, JournalVerify(file).frames)
  <2>1. m \in 0..Len(file.chunks) /\ Len(file.chunks) \in Nat
    BY <1>1, KeptFacts
  <2>2. Read(file, m) \in Seq(appended) /\ Len(Read(file, m)) = m
    BY <1>1, <2>1, ReadFacts
  <2>3. k \in 0..m /\ k \in 0..Len(file.chunks)
    BY <1>2, <1>4, <2>1
  <2>4. Read(cut, k) \in Seq(appended)
    BY <1>2, <1>4, ReadFacts
  <2>5. \A i \in 1..k : Read(file, m)[i] = Read(file, k)[i]
    BY <1>1, <2>1, <2>3, ReadFacts
  <2> DEFINE s == Read(cut, k)
             t == Read(file, m)
             u == SubSeq(t, 1, k)
  <2>6. u \in Seq(appended) /\ Len(u) = k /\ \A i \in 1..k : u[i] = t[i]
    <3> HIDE DEF t
    <3>1. t \in Seq(appended) /\ k \in 0..Len(t)
      BY <2>2, <2>3 DEF t
    <3> QED BY <3>1, PrefixFacts
  <2>7. s \in Seq(appended) /\ Len(s) = k /\ \A i \in 1..k : s[i] = t[i]
    BY <1>2, <1>3, <2>4, <2>5
  <2>8. SubSeq(s, 1, k) = s
    <3> HIDE DEF s
    <3> QED BY <2>3, <2>7, PrefixFacts
  <2> HIDE DEF u, s
  <2>9. u = s
    BY <2>6, <2>7
  <2>10. k <= Len(t)
    BY <2>2, <2>3
  <2>11. Len(s) = k
    BY <2>7
  <2> HIDE DEF t
  <2>12. IsPrefix(s, t)
    BY <2>8, <2>9, <2>10, <2>11 DEF IsPrefix, u
  <2> QED BY <1>3, <1>6, <2>12 DEF s, t
<1>8. Len(r.frames) = Cardinality({i \in 1..Len(cut.chunks) : Complete(cut.chunks[i])})
  <2>1. {i \in 1..Len(cut.chunks) : Complete(cut.chunks[i])} = 1..k
    <3> DEFINE done(i) == Complete(cut.chunks[i])
    <3>1. /\ \A i \in 1..k : done(i)
          /\ k < Len(cut.chunks) => Len(cut.chunks) = k + 1 /\ ~ done(k + 1)
      BY <1>4
    <3> HIDE DEF done, k
    <3>2. {i \in 1..Len(cut.chunks) : done(i)} = 1..k
      BY <1>4, <3>1
    <3> QED BY <3>2 DEF done
  <2>2. Cardinality(1..k) = k
    <3>1. 0 \in Int /\ k \in Int /\ 1 \in Int
      BY <1>4
    <3>2. Cardinality(1..k) = IF 1 > k THEN 0 ELSE k - 1 + 1
      BY <3>1, FS_Interval
    <3> QED BY <1>4, <3>2
  <2> QED BY <1>3, <2>1, <2>2
<1> QED BY <1>3, <1>5, <1>7, <1>8

\* Cut anywhere, the file is a torn header or reads and replays as exactly its
\* complete frames, a prefix of what it was.
THEOREM TruncationIsHonestAlways == Disciplined /\ Spec => []TruncationIsHonest
BY JInvHolds, TruncationsAreHonest, PTL

-----------------------------------------------------------------------------
(***************************************************************************)
(* What one step does to what a reader sees.                               *)
(***************************************************************************)

SameFrames(n) == \A i \in 1..n : file'.chunks[i].frame = file.chunks[i].frame

\* The frames kept stay, but for those a power loss takes from the end.
Keeps ==
  /\ acked' = acked
  /\ Kept(file') <= Kept(file)
  /\ crashes' = crashes => Kept(file') = Kept(file)
  /\ SameFrames(Kept(file'))

\* One more frame is kept.
Grows ==
  /\ acked' = acked
  /\ Kept(file') = Kept(file) + 1
  /\ SameFrames(Kept(file))

\* The last frame is acknowledged.
Acknowledges ==
  /\ file' = file
  /\ Kept(file) # 0
  /\ acked' = acked \cup {file.chunks[Kept(file)].frame}

LEMMA SameFileKeeps ==
  ASSUME JInv, file' = file, acked' = acked
  PROVE  Keeps
<1>1. Kept(file) \in Nat
  BY FileReads
<1> QED BY <1>1 DEF Keeps, SameFrames

\* An append adds a frame, or fails with nothing or a torn one.
LEMMA WriteGrows ==
  ASSUME JInv, MayAppend, NEW f, Sized(f),
         WriteFrame(f) \/ \E L : FailStop /\ WriteFrameFails(f, L)
  PROVE  Keeps \/ Grows
<1> DEFINE n == Len(file.chunks)
           A == appended \cup {f}
<1>1. file \in FilesOver(A) /\ f \in A
  BY MoreFrames DEF JInv, OnlyAppended
<1>2. Kept(file) = n /\ n \in Nat
  BY FileReads DEF JInv, ProcessState, Standing, MayAppend
<1>3. FrameUnits(f) \in Nat \ {0}
  BY DEF FrameUnits, Sized
<1>4. ASSUME NEW k \in 1..FrameUnits(f),
             file' = [file EXCEPT !.chunks = Append(file.chunks, Chunk(f, k))],
             acked' = acked
      PROVE  Keeps \/ Grows
  <2>1. Appended(file, f, k, file')
    <3>1. k \in Nat \ {0}
      BY <1>3
    <3> QED BY <1>1, <1>4, <3>1, AppendingAppends
  <2>2. SameFrames(n) /\ Len(file'.chunks) = n + 1 /\ n + 1 # 0 /\ n + 1 - 1 = n
    BY <1>2, <2>1 DEF Appended, SameFrames
  <2>3. Complete(file'.chunks[n + 1]) <=> k = FrameUnits(f)
    BY <2>1 DEF Appended, Complete
  <2>4. Kept(file') = IF k = FrameUnits(f) THEN n + 1 ELSE n
    BY <2>2, <2>3 DEF Kept
  <2> HIDE DEF n
  <2> QED BY <1>2, <1>4, <2>2, <2>4 DEF Keeps, Grows
<1>5. CASE WriteFrame(f)
  <2>1. FrameUnits(f) \in 1..FrameUnits(f)
    BY <1>3
  <2> QED BY <1>4, <1>5, <2>1 DEF WriteFrame
<1>6. ASSUME NEW L, WriteFrameFails(f, L)
      PROVE  Keeps \/ Grows
  <2>1. PICK k \in 0..(FrameUnits(f) - 1) :
          file' = IF k = 0 THEN file
                  ELSE [file EXCEPT !.chunks = Append(@, Chunk(f, k))]
    BY <1>6 DEF WriteFrameFails
  <2>2. acked' = acked
    BY <1>6 DEF WriteFrameFails
  <2>3. CASE k = 0
    BY <2>1, <2>2, <2>3, SameFileKeeps
  <2>4. CASE k # 0
    <3>1. k \in 1..FrameUnits(f) /\ k # FrameUnits(f)
      BY <1>3, <2>1, <2>4
    <3>2. file' = [file EXCEPT !.chunks = Append(file.chunks, Chunk(f, k))]
      BY <2>1, <2>4
    <3> QED BY <1>4, <2>2, <3>1, <3>2
  <2> QED BY <2>3, <2>4
<1> QED BY <1>5, <1>6

\* A file is made where there was none, or an empty one.
LEMMA CreateKeepsNothing ==
  ASSUME JInv, Create \/ CreateFails \/ ReopenEmpty
  PROVE  Keeps
<1>1. Len(file.chunks) = 0
  <2>1. Sound(file)
    BY DEF JInv
  <2>2. CASE ~ file.exists
    BY <2>1, <2>2 DEF Sound, HeaderUnits
  <2>3. CASE file = EmptyFile
    BY <2>3, FreshFiles
  <2> QED BY <2>2, <2>3 DEF Create, CreateFails, ReopenEmpty
<1>2. Len(file'.chunks) = 0
  <2>1. CASE file' = FreshFile
    BY <2>1, FreshFiles
  <2>2. ASSUME NEW h \in 0..(HeaderUnits - 1), file' = [EmptyFile EXCEPT !.header = h]
        PROVE  Len(file'.chunks) = 0
    <3>1. h \in 0..HeaderUnits
      BY DEF HeaderUnits
    <3>2. file' = [exists |-> TRUE, header |-> h, chunks |-> << >>]
      BY <2>2, <3>1, FreshFiles
    <3> QED BY <3>2
  <2> QED BY <2>1, <2>2 DEF Create, CreateFails, ReopenEmpty
<1>3. Kept(file) = 0 /\ Kept(file') = 0
  BY <1>1, <1>2 DEF Kept
<1>4. acked' = acked
  BY DEF Create, CreateFails, ReopenEmpty, history
<1> QED BY <1>3, <1>4 DEF Keeps, SameFrames

LEMMA PowerLossKeepsPrefix ==
  ASSUME JInv, PowerLoss
  PROVE  Keeps
<1>1. /\ file \in FilesOver(appended) /\ durable \in FilesOver(appended)
      /\ Sound(file) /\ Sound(durable) /\ Agree(durable, file) /\ crashes \in Nat
  BY DEF JInv, OnlyAppended, ProcessState
<1>2. /\ acked' = acked /\ crashes' # crashes
      /\ file' = durable \/ file' \in Cuts(file)
  BY <1>1 DEF PowerLoss, history
<1>3. Kept(durable) \in Nat /\ Kept(durable) <= Kept(file)
  BY <1>1, AgreeKept
<1>4. Kept(file') <= Kept(file) /\ SameFrames(Kept(file'))
  <2>1. CASE file' = durable
    BY <1>1, <1>3, <2>1 DEF Agree, SameFrames
  <2>2. CASE file' \in Cuts(file)
    BY <1>1, <2>2, CutSound DEF SameFrames
  <2> QED BY <1>2, <2>1, <2>2
<1> QED BY <1>2, <1>4 DEF Keeps

LEMMA AckAcknowledges ==
  ASSUME JInv, Ack
  PROVE  Keeps \/ Acknowledges
<1>1. inflight # None /\ file' = file
  BY DEF Ack
<1>2. Standing
  BY <1>1 DEF JInv, ProcessState
<1>3. Kept(file) # 0 /\ inflight = Some(file.chunks[Kept(file)].frame)
  BY <1>1, <1>2 DEF Standing
<1>4. inflight[1] = file.chunks[Kept(file)].frame
  BY <1>3 DEF Some
<1>5. acked' = acked \/ acked' = acked \cup {inflight[1]}
  BY DEF Ack
<1>6. CASE acked' = acked
  BY <1>1, <1>6, SameFileKeeps
<1>7. CASE acked' = acked \cup {inflight[1]}
  BY <1>1, <1>3, <1>4, <1>7 DEF Acknowledges
<1> QED BY <1>5, <1>6, <1>7

LEMMA StepKinds ==
  ASSUME Disciplined, JInv, [Next]_vars
  PROVE  Keeps \/ Grows \/ Acknowledges
<1>1. CASE UNCHANGED vars
  BY <1>1, SameFileKeeps DEF vars
<1>2. CASE Create \/ CreateFails \/ ReopenEmpty
  BY <1>2, CreateKeepsNothing
<1>3. CASE Resume \/ RecoverFile
  <2>1. /\ file' = Truncated(file, JournalVerify(file))
        /\ UNCHANGED << durable, acked, appended, crashes >>
    BY <1>3 DEF Resume, RecoverFile, Recovered, history, budgets
  <2>2. /\ Kept(file') = Kept(file) /\ Kept(file) \in Nat
        /\ \A i \in 1..Kept(file) : file'.chunks[i] = file.chunks[i]
    BY <2>1, TruncationKeeps
  <2> QED BY <2>1, <2>2 DEF Keeps, SameFrames
<1>4. CASE RebuildLedgers \/ SyncFails \/ Exit
  BY <1>4, SameFileKeeps DEF RebuildLedgers, SyncFails, Exit, disk, history
<1>5. WholeLedgers(ledgers)
  BY DEF JInv, OnlyAppended
<1>6. CASE Start \/ StartFails \/ Checkpoint
  <2>1. /\ MayAppend
        /\ Sized(NewFrame("sheet", SheetPayload))
        /\ Sized(NewFrame("checkpoint", [note |-> "heartbeat"]))
        /\ FailStop
    BY <1>5, <1>6, NewFramesSized DEF Start, StartFails, CanStart, Checkpoint, Disciplined
  <2> QED BY <1>6, <2>1, WriteGrows DEF Start, StartFails, Checkpoint
<1>7. ASSUME NEW c \in JCell, NEW v \in Event, RecordEvent(c, v) \/ RecordEventFails(c, v)
      PROVE  Keeps \/ Grows
  <2>1. MayAppend /\ Sized(EventFrame(c, v)) /\ FailStop
    BY <1>5, <1>7, NewFramesSized DEF RecordEvent, RecordEventFails, Disciplined
  <2> QED BY <1>7, <2>1, WriteGrows DEF RecordEvent, RecordEventFails
<1>8. CASE Ack
  BY <1>8, AckAcknowledges
<1>9. CASE PowerLoss
  BY <1>9, PowerLossKeepsPrefix
<1>10. ~ BitRot
  BY DEF BitRot, Disciplined
<1> QED BY <1>1, <1>2, <1>3, <1>4, <1>6, <1>7, <1>8, <1>9, <1>10 DEF Next

-----------------------------------------------------------------------------
(***************************************************************************)
(* What corruption does to a file, of every caller and under every fault.  *)
(***************************************************************************)

\* A frame reached through whole ones is not torn.
LEMMA ReachedIsNotTorn ==
  ASSUME NEW A, NEW cs \in Seq(ChunksOver(A)), NEW i \in 1..Len(cs), Reached(cs, i),
         \A f \in A : Sized(f)
  PROVE  Verdict(cs, i) # "torn"
<1>1. i \in 1..i /\ cs[i] \in ChunksOver(A)
  OBVIOUS
<1>2. Complete(cs[i]) /\ cs[i].rot # "length"
  BY <1>1 DEF Reached
<1>3. UnitsFrom(cs, i) \in Nat /\ UnitsFrom(cs, i) >= FrameUnits(cs[i].frame)
  BY <1>2, UnitsFacts DEF Complete
<1>4. FrameUnits(cs[i].frame) \in Nat
  BY <1>1 DEF ChunksOver, FrameUnits, Sized
<1>5. ~ Torn(cs, i)
  BY <1>2, <1>3, <1>4 DEF Torn
<1> QED BY <1>5 DEF Verdict

\* What is cut away as a torn tail was not reached, and with a reached frame
\* rotten nothing is torn or clean.
LEMMA ReachedIsVouched ==
  ASSUME NEW A, NEW f \in FilesOver(A), \A g \in A : Sized(g),
         NEW i \in 1..Len(f.chunks), Reached(f.chunks, i)
  PROVE  LET r == JournalVerify(f) IN
         /\ r.outcome = "torn" => r.good \in 0..Len(f.chunks) /\ i <= r.good
         /\ r.outcome \in {"clean", "torn"} => f.chunks[i].rot = "none"
<1> DEFINE cs == f.chunks
           n == Scanned(cs)
           r == JournalVerify(f)
           scan == ScanFrames(f)
<1>1. cs \in Seq(ChunksOver(A)) /\ f.header \in Nat /\ Len(cs) \in Nat
  BY DEF FilesOver
<1>2. /\ n \in 0..Len(cs)
      /\ \A j \in 1..n : Verdict(cs, j) = "good"
      /\ n < Len(cs) => Verdict(cs, n + 1) # "good"
  BY <1>1, ScannedFacts
<1>3. r = Report(scan)
  BY VerifyIsReport
<1>4. ASSUME r.outcome \in {"clean", "torn"}
      PROVE  /\ r.outcome = scan.outcome /\ r.good = Len(scan.frames)
             /\ f.header >= HeaderUnits
  <2>1. r.outcome = scan.outcome /\ r.good = Len(scan.frames)
    BY <1>3, <1>4 DEF Report
  <2>2. ~ (f.header < HeaderUnits)
    BY <1>4, <2>1, ScanReads
  <2> QED BY <1>1, <2>1, <2>2 DEF HeaderUnits
<1>5. ASSUME r.outcome \in {"clean", "torn"}
      PROVE  /\ r.good = n
             /\ r.outcome = IF n = Len(cs) THEN "clean" ELSE Verdict(cs, n + 1)
  <2>1. /\ scan.frames = Read(f, n)
        /\ scan.outcome = IF n = Len(cs) THEN "clean" ELSE Verdict(cs, n + 1)
    BY <1>4, <1>5, ScanReads
  <2>2. Len(Read(f, n)) = n
    BY <1>2, ReadFacts
  <2> QED BY <1>4, <1>5, <2>1, <2>2
<1> HIDE DEF cs, n, r, scan
<1>6. i \in 1..Len(cs) /\ Reached(cs, i)
  BY DEF cs
<1>7. ASSUME r.outcome \in {"clean", "torn"}
      PROVE  i <= n
  <2> SUFFICES ASSUME ~ (i <= n) PROVE FALSE
    OBVIOUS
  <2>1. n + 1 \in 1..Len(cs) /\ n + 1 \in 1..i /\ n # Len(cs)
    BY <1>1, <1>2, <1>6
  <2>2. Reached(cs, n + 1)
    BY <1>1, <1>2, <1>6, <2>1 DEF Reached
  <2>3. Verdict(cs, n + 1) # "torn"
    BY <1>1, <2>1, <2>2, ReachedIsNotTorn
  <2>4. Verdict(cs, n + 1) \in {"corrupt", "good"}
    BY <2>3 DEF Verdict
  <2> QED BY <1>2, <1>5, <1>7, <2>1, <2>4
<1>8. ASSUME r.outcome \in {"clean", "torn"}
      PROVE  cs[i].rot = "none"
  <2>1. i \in 1..n
    BY <1>1, <1>2, <1>6, <1>7, <1>8
  <2>2. Verdict(cs, i) = "good"
    BY <1>2, <2>1
  <2> QED BY <2>2, GoodIsRead
<1> QED BY <1>2, <1>5, <1>7, <1>8 DEF cs, r

\* A chunk more at the end leaves the others.
LEMMA WriteLeavesFrames ==
  ASSUME OnlyAppended, NEW i \in 1..Len(file.chunks), NEW d,
         file' = [file EXCEPT !.chunks = Append(@, d)]
  PROVE  i <= Len(file'.chunks) /\ file'.chunks[i] = file.chunks[i]
<1>1. file.chunks \in Seq(ChunksOver(appended))
  BY DEF OnlyAppended, FilesOver
<1>2. file.chunks \in Seq(ChunksOver(appended) \cup {d}) /\ d \in ChunksOver(appended) \cup {d}
  <2>1. ChunksOver(appended) \subseteq ChunksOver(appended) \cup {d}
    OBVIOUS
  <2> HIDE DEF ChunksOver
  <2> QED BY <1>1, <2>1
<1>3. file'.chunks = Append(file.chunks, d)
  BY DEF OnlyAppended, FilesOver
<1> HIDE DEF OnlyAppended
<1> QED BY <1>2, <1>3, AppendFacts

\* Truncating what is torn leaves what was reached.
LEMMA TruncationLeavesReached ==
  ASSUME OnlyAppended, NEW i \in 1..Len(file.chunks), Reached(file.chunks, i),
         file' = Truncated(file, JournalVerify(file))
  PROVE  i <= Len(file'.chunks) /\ file'.chunks[i] = file.chunks[i]
<1> DEFINE r == JournalVerify(file)
<1>1. file \in FilesOver(appended) /\ \A f \in appended : Sized(f)
  BY DEF OnlyAppended
<1>2. r.outcome = "torn" => r.good \in 0..Len(file.chunks) /\ i <= r.good
  BY <1>1, ReachedIsVouched
<1>3. file.chunks \in Seq(ChunksOver(appended)) /\ Len(file.chunks) \in Nat
  BY <1>1 DEF FilesOver
<1> HIDE DEF r
<1>4. CASE r.outcome = "torn"
  <2> DEFINE g == [file EXCEPT !.chunks = SubSeq(@, 1, r.good)]
  <2>1. file' = g
    BY <1>4 DEF Truncated, r
  <2>2. Len(g.chunks) = r.good /\ \A j \in 1..r.good : g.chunks[j] = file.chunks[j]
    BY <1>1, <1>2, <1>4, FewerChunks
  <2>3. i \in 1..r.good
    BY <1>2, <1>3, <1>4
  <2> HIDE DEF g
  <2> QED BY <2>1, <2>2, <2>3
<1>5. CASE r.outcome # "torn"
  <2>1. file' = file
    BY <1>5 DEF Truncated, r
  <2> QED BY <1>3, <2>1
<1> QED BY <1>4, <1>5

LEMMA TruncatedExists ==
  ASSUME NEW A, NEW f \in FilesOver(A)
  PROVE  LET t == Truncated(f, JournalVerify(f)) IN
         t.exists = f.exists /\ (f.chunks = << >> => t = f)
<1> DEFINE r == JournalVerify(f)
           g == [f EXCEPT !.chunks = SubSeq(@, 1, r.good)]
<1>1. PICK n \in 0..Len(f.chunks) : ScanFrames(f).frames = Read(f, n)
  BY ScanTyped
<1>2. Len(f.chunks) \in Nat
  BY DEF FilesOver
<1>3. r.good \in 0..n
  <2>1. ScanFrames(f).frames \in Seq(A) /\ Len(ScanFrames(f).frames) = n
    BY <1>1, ReadFacts
  <2> QED BY <2>1, VerifyIsReport, ReportFacts
<1>4. r.good \in 0..Len(f.chunks) /\ (Len(f.chunks) = 0 => r.good = Len(f.chunks))
  BY <1>2, <1>3
<1>5. g.exists = f.exists /\ (r.good = Len(f.chunks) => g = f)
  <2> HIDE DEF r
  <2> QED BY <1>4, FewerChunks
<1>6. Truncated(f, r) = g \/ Truncated(f, r) = f
  BY DEF Truncated
<1>7. f.chunks = << >> => Len(f.chunks) = 0
  OBVIOUS
<1> HIDE DEF g, r
<1> QED BY <1>4, <1>5, <1>6, <1>7 DEF r

\* A file that is not there has no chunks, and a closed writer nothing in flight.
Existing(f) == f.exists \/ f.chunks = << >>

Present ==
  /\ crashes \in Nat
  /\ writer.open \/ inflight = None
  /\ writer.open => file.exists
  /\ Existing(file) /\ Existing(durable)

LEMMA InitPresent == Init => Present
  BY DEF Init, Present, Existing, NoFile, Closed

LEMMA NextPresent == OnlyAppended /\ Present /\ [Next]_vars => Present'
<1> SUFFICES ASSUME OnlyAppended, Present, [Next]_vars PROVE Present'
  OBVIOUS
<1>1. file \in FilesOver(appended)
  BY DEF OnlyAppended
<1>2. \A cs : [file EXCEPT !.chunks = cs].exists = file.exists
  BY <1>1 DEF FilesOver
<1>3. ~ Closed.open
  BY DEF Closed
<1>4. ASSUME NEW f, WriteFrame(f), MayAppend PROVE Present'
  BY <1>2, <1>4 DEF WriteFrame, MayAppend, Present, Existing, budgets
<1>5. ASSUME NEW f, NEW L, WriteFrameFails(f, L), MayAppend PROVE Present'
  <2>1. file'.exists = file.exists
    BY <1>2, <1>5 DEF WriteFrameFails
  <2>2. file.exists /\ inflight = None
    BY <1>5 DEF MayAppend, Present
  <2> QED BY <1>3, <1>5, <2>1, <2>2 DEF WriteFrameFails, ProcessDies, Present, Existing
<1>6. CASE Create \/ ReopenEmpty
  <2>1. file'.exists /\ UNCHANGED << crashes, durable >> /\ (inflight = None)' /\ writer'.open
    BY <1>6 DEF Create, ReopenEmpty, FreshFile, EmptyFile, NoFile, Fresh, Closed,
                budgets, Present
  <2> QED BY <2>1 DEF Present, Existing
<1>7. CASE CreateFails
  <2>1. file'.exists
    BY <1>7 DEF CreateFails, EmptyFile, NoFile
  <2> QED BY <1>7, <2>1 DEF CreateFails, process, Present, Existing
<1>8. CASE Resume \/ RecoverFile
  <2>1. file' = Truncated(file, JournalVerify(file))
    BY <1>8 DEF Resume, RecoverFile, Recovered
  <2>2. file'.exists = file.exists /\ (file.chunks = << >> => file' = file)
    BY <1>1, <2>1, TruncatedExists
  <2> QED BY <1>8, <2>2 DEF Resume, RecoverFile, process, budgets, Present, Existing
<1>9. CASE RebuildLedgers
  BY <1>9 DEF RebuildLedgers, disk, budgets, Present
<1>10. CASE Ack
  <2>1. writer.open /\ file.exists
    BY <1>10 DEF Ack, Present
  <2> QED BY <1>10, <2>1 DEF Ack, budgets, Present, Existing
<1>11. CASE SyncFails
  BY <1>3, <1>11 DEF SyncFails, ProcessDies, disk, Present
<1>12. CASE Exit
  BY <1>3, <1>12 DEF Exit, ProcessDies, disk, Present
<1>13. CASE PowerLoss
  <2>1. ASSUME NEW c \in Cuts(file) PROVE Existing(c)
    <3>1. CASE c = NoFile
      BY <3>1 DEF Existing, NoFile
    <3>2. ASSUME NEW h, c = [EmptyFile EXCEPT !.header = h] PROVE Existing(c)
      BY <3>2 DEF Existing, EmptyFile, NoFile
    <3>3. ASSUME NEW i \in 1..Len(file.chunks), c.exists = file.exists
          PROVE  Existing(c)
      BY <3>3 DEF Present, Existing
    <3>4. \/ c = NoFile
          \/ \E h \in 0..file.header : c = [EmptyFile EXCEPT !.header = h]
          \/ c.exists = file.exists /\ \E i \in 1..Len(file.chunks) : TRUE
      BY <1>1, CutIs
    <3> QED BY <3>1, <3>2, <3>3, <3>4
  <2>2. file' = durable \/ file' \in Cuts(file)
    BY <1>13 DEF PowerLoss
  <2>3. Existing(file') /\ durable' = file'
    BY <1>13, <2>1, <2>2 DEF PowerLoss, Present
  <2> QED BY <1>3, <1>13, <2>3 DEF PowerLoss, ProcessDies, Present, Existing
<1>14. CASE BitRot
  <2>1. PICK i \in 1..Len(file.chunks), kind \in RotKinds :
          file' = [file EXCEPT !.chunks[i].rot = kind]
    BY <1>14 DEF BitRot
  <2>2. file.exists
    BY <2>1 DEF Present, Existing
  <2> QED BY <1>2, <1>14, <2>1, <2>2 DEF BitRot, process, Present, Existing
<1>15. CASE UNCHANGED vars
  BY <1>15 DEF vars, Present, Existing
<1> QED BY <1>4, <1>5, <1>6, <1>7, <1>8, <1>9, <1>10, <1>11, <1>12, <1>13, <1>14, <1>15
        DEF Next, Start, StartFails, CanStart, Checkpoint, RecordEvent, RecordEventFails

\* What a step does to a reached frame.
LEMMA StepKeepsReached ==
  ASSUME OnlyAppended, Present, [Next]_vars, crashes' = crashes,
         NEW i \in 1..Len(file.chunks), Reached(file.chunks, i)
  PROVE  i <= Len(file'.chunks) /\ file'.chunks[i].frame = file.chunks[i].frame
<1>1. file.chunks \in Seq(ChunksOver(appended)) /\ Len(file.chunks) \in Nat
  BY DEF OnlyAppended, FilesOver
<1>2. ASSUME file' = file
      PROVE  i <= Len(file'.chunks) /\ file'.chunks[i].frame = file.chunks[i].frame
  BY <1>1, <1>2
<1>3. ASSUME NEW d, file' = [file EXCEPT !.chunks = Append(@, d)]
      PROVE  i <= Len(file'.chunks) /\ file'.chunks[i].frame = file.chunks[i].frame
  BY <1>3, WriteLeavesFrames
<1>4. ASSUME NEW f, WriteFrame(f)
      PROVE  i <= Len(file'.chunks) /\ file'.chunks[i].frame = file.chunks[i].frame
  BY <1>3, <1>4 DEF WriteFrame
<1>5. ASSUME NEW f, NEW L, WriteFrameFails(f, L)
      PROVE  i <= Len(file'.chunks) /\ file'.chunks[i].frame = file.chunks[i].frame
  <2>1. file' = file \/ \E d : file' = [file EXCEPT !.chunks = Append(@, d)]
    BY <1>5 DEF WriteFrameFails
  <2> QED BY <1>2, <1>3, <2>1
<1>6. CASE Create \/ CreateFails \/ ReopenEmpty
  <2>1. ~ file.exists \/ file = EmptyFile
    BY <1>6 DEF Create, CreateFails, ReopenEmpty
  <2>2. file.chunks = << >>
    BY <2>1 DEF Present, Existing, EmptyFile, NoFile
  <2> QED BY <2>2
<1>7. CASE Resume \/ RecoverFile
  <2>1. file' = Truncated(file, JournalVerify(file))
    BY <1>7 DEF Resume, RecoverFile, Recovered
  <2> QED BY <2>1, TruncationLeavesReached
<1>8. CASE BitRot
  <2>1. PICK j \in 1..Len(file.chunks), kind \in RotKinds :
          file' = [file EXCEPT !.chunks[j].rot = kind]
    BY <1>8 DEF BitRot
  <2> DEFINE d == [file.chunks[j] EXCEPT !.rot = kind]
             cs == [file.chunks EXCEPT ![j] = d]
  <2>2. file'.chunks = cs
    BY <2>1 DEF OnlyAppended, FilesOver
  <2>3. d.frame = file.chunks[j].frame
    <3>1. file.chunks[j] \in ChunksOver(appended)
      BY <1>1
    <3> QED BY <3>1 DEF ChunksOver
  <2> HIDE DEF d
  <2>4. cs[i].frame = file.chunks[i].frame /\ Len(cs) = Len(file.chunks)
    BY <1>1, <2>3
  <2> QED BY <1>1, <2>2, <2>4
<1>9. ~ PowerLoss /\ ~ Exit
  <2>1. crashes # crashes + 1
    BY DEF Present
  <2> QED BY <2>1 DEF PowerLoss, Exit
<1> QED BY <1>2, <1>4, <1>5, <1>6, <1>7, <1>8, <1>9
        DEF Next, RebuildLedgers, Start, StartFails, Checkpoint, RecordEvent,
            RecordEventFails, Ack, SyncFails, vars, disk

\* With a reached frame rotten, a closed writer stays closed.
LEMMA RottenStaysClosed ==
  ASSUME OnlyAppended, Present, [Next]_vars,
         NEW i \in 1..Len(file.chunks), Reached(file.chunks, i),
         file.chunks[i].rot # "none", ~ writer.open
  PROVE  ~ writer'.open
<1>1. inflight = None /\ file.exists /\ file # EmptyFile
  BY DEF Present, Existing, EmptyFile, NoFile
<1>2. JournalVerify(file).outcome \notin {"clean", "torn"}
  BY ReachedIsVouched DEF OnlyAppended
<1>3. ~ Create /\ ~ CreateFails /\ ~ ReopenEmpty /\ ~ Ack /\ ~ SyncFails /\ ~ Exit
  BY <1>1 DEF Create, CreateFails, ReopenEmpty, Ack, SyncFails, Exit
<1>4. ~ Resume
  BY <1>2 DEF Resume
<1>5. ~ MayAppend
  BY DEF MayAppend
<1>6. CASE RebuildLedgers \/ RecoverFile \/ BitRot \/ UNCHANGED vars
  BY <1>6 DEF RebuildLedgers, RecoverFile, BitRot, process, vars
<1>7. CASE PowerLoss
  BY <1>7 DEF PowerLoss, ProcessDies, Closed
<1> QED BY <1>3, <1>4, <1>5, <1>6, <1>7
        DEF Next, Start, StartFails, CanStart, Checkpoint, RecordEvent, RecordEventFails

\* "Never truncated away, and always reported": of every caller, a careless
\* one included, and whatever rots, dies or fails, a frame that length prefixes
\* as they were written lead to leaves the file only with the power, and while
\* it is rotten the journal is not opened.
THEOREM CorruptionKeptAlways == Spec => CorruptionKept
<1>1. OnlyAppended /\ Present /\ [Next]_vars => OnlyAppended' /\ Present'
  BY NextOnlyAppended, NextPresent
<1>2. ASSUME OnlyAppended, Present, [Next]_vars
      PROVE  crashes' = crashes =>
               \A i \in 1..Len(file.chunks) :
                 Reached(file.chunks, i) =>
                   /\ i <= Len(file'.chunks) /\ file'.chunks[i].frame = file.chunks[i].frame
                   /\ file.chunks[i].rot # "none" /\ ~ writer.open => ~ writer'.open
  BY <1>2, StepKeepsReached, RottenStaysClosed
<1> QED BY <1>1, <1>2, InitOnlyAppended, InitPresent, PTL DEF Spec, CorruptionKept

-----------------------------------------------------------------------------
(***************************************************************************)
(* The journal implements a durable log.                                   *)
(***************************************************************************)

\* What a reader is shown of the first n frames.
Shown(f, n) == [i \in 1..n |-> Content(f.chunks[i].frame)]

Committed == Max({0} \cup {f.seq : f \in acked})

LEMMA SeenIs ==
  ASSUME JInv, NEW s, s \in ReaderSees(file)
  PROVE  s = Shown(file, Kept(file))
<1> DEFINE fs == Vouched(file)
           k == Kept(file)
<1>1. s = [i \in 1..Len(fs) |-> Content(fs[i])]
  BY DEF ReaderSees
<1>2. Len(fs) = k /\ \A i \in 1..k : fs[i] = file.chunks[i].frame
  BY FileReads
<1> HIDE DEF fs, k
<1>3. s = [i \in 1..k |-> Content(file.chunks[i].frame)]
  BY <1>1, <1>2
<1> QED BY <1>3 DEF Shown, k

\* Shown is a sequence.
LEMMA ShownFacts ==
  ASSUME NEW f, NEW n \in Nat
  PROVE  /\ Shown(f, n) \in Seq(ToSet(Shown(f, n)))
         /\ Len(Shown(f, n)) = n
         /\ \A i \in 1..n : Shown(f, n)[i] = Content(f.chunks[i].frame)
         /\ Shown(f, n) = << >> <=> n = 0
<1> DEFINE s == Shown(f, n)
<1>1. s = [i \in 1..n |-> s[i]] /\ \A i \in 1..n : s[i] = Content(f.chunks[i].frame)
  BY DEF Shown
<1> HIDE DEF s
<1>2. s \in Seq(ToSet(s)) /\ Len(s) = n
  BY <1>1, SeqOfFcn
<1>3. s = << >> <=> n = 0
  BY <1>2
<1> QED BY <1>1, <1>2, <1>3 DEF s

Alike(f, g, n) == \A i \in 1..n : g.chunks[i].frame = f.chunks[i].frame

LEMMA ShownPrefix ==
  ASSUME NEW f, NEW g, NEW n \in Nat, NEW m \in 0..n, Alike(f, g, m)
  PROVE  SubSeq(Shown(f, n), 1, m) = Shown(g, m)
<1> DEFINE s == Shown(f, n)
           t == Shown(g, m)
           u == SubSeq(s, 1, m)
           S == ToSet(s)
<1>1. m \in Nat
  OBVIOUS
<1>2. s \in Seq(S) /\ Len(s) = n /\ \A i \in 1..n : s[i] = Content(f.chunks[i].frame)
  BY ShownFacts
<1>3. t \in Seq(ToSet(t)) /\ Len(t) = m /\ \A i \in 1..m : t[i] = Content(g.chunks[i].frame)
  BY <1>1, ShownFacts
<1> HIDE DEF s, t, S
<1>4. u \in Seq(S) /\ Len(u) = m /\ \A i \in 1..m : u[i] = s[i]
  BY <1>2, PrefixFacts
<1> HIDE DEF u
<1>5. \A i \in 1..m : u[i] = t[i]
  BY <1>2, <1>3, <1>4 DEF Alike
<1>6. u \in Seq(ToSet(u))
  BY <1>4, SeqOfOwn
<1>7. u = t
  BY <1>3, <1>4, <1>5, <1>6, SameSeq
<1> QED BY <1>7 DEF u, s, t

LEMMA MaxIs ==
  ASSUME NEW S, NEW m \in S, \A k \in S : k <= m, S \in SUBSET Nat
  PROVE  Max(S) = m
<1> DEFINE x == Max(S)
<1>1. x \in S /\ \A k \in S : x >= k
  BY DEF Max
<1> HIDE DEF x
<1>2. x \in Nat /\ m \in Nat /\ x >= m /\ x <= m
  BY <1>1
<1> QED BY <1>2 DEF x

\* What is acknowledged is within what is kept.
LEMMA CommittedIs ==
  ASSUME JInv
  PROVE  /\ Committed \in 0..Kept(file)
         /\ \A f \in acked : f.seq \in Nat /\ f.seq <= Kept(file)
<1> DEFINE S == {0} \cup {f.seq : f \in acked}
<1>1. Kept(durable) \in Nat /\ Kept(file) \in Nat /\ Kept(durable) <= Kept(file)
  BY FileReads
<1>2. \A f \in acked : f.seq \in 1..Kept(durable)
  BY DEF JInv, AckedDurable
<1>3. S \in SUBSET Nat /\ S # {} /\ \A k \in S : k <= Kept(file)
  BY <1>1, <1>2
<1> HIDE DEF S
<1>4. PICK m \in S : \A k \in S : k <= m
  BY <1>1, <1>3, GreatestOf
<1>5. Max(S) = m
  BY <1>3, <1>4, MaxIs
<1>6. Max(S) \in 0..Kept(file)
  BY <1>1, <1>3, <1>4, <1>5
<1> QED BY <1>1, <1>2, <1>6 DEF Committed, S

\* An acknowledgement covers the whole log.
LEMMA AcknowledgingCommits ==
  ASSUME JInv, JInv', Acknowledges
  PROVE  Committed' = Kept(file)
<1> DEFINE k == Kept(file)
           fr == file.chunks[k].frame
           S == {0} \cup {f.seq : f \in acked'}
<1>1. k \in Nat /\ k # 0 /\ k \in 1..Len(file.chunks) /\ file' = file
  BY FileReads DEF Acknowledges
<1>2. fr.seq = k
  BY <1>1 DEF JInv, Sound, Linked
<1>3. \A f \in acked' : f.seq \in Nat /\ f.seq <= Kept(file')
  <2>1. (\A f \in acked : f.seq \in Nat /\ f.seq <= Kept(file))'
    BY CommittedIs, PTL
  <2> QED BY <2>1
<1>4. fr \in acked'
  BY DEF Acknowledges
<1>5. k \in S
  <2> HIDE DEF k, fr
  <2> QED BY <1>2, <1>4
<1>6. S \in SUBSET Nat /\ \A j \in S : j <= k
  BY <1>1, <1>3
<1> HIDE DEF S, k
<1>7. Max(S) = k
  BY <1>5, <1>6, MaxIs
<1> QED BY <1>7 DEF S, k, Committed

-----------------------------------------------------------------------------

ShownInv == seen = Shown(file, Kept(file))

LEMMA StepImplements ==
  ASSUME Disciplined, JInv, JInv', [Next]_vars, ShownInv, ShownInv'
  PROVE  [Log!LogNext]_<< seen, Committed >>
<1> DEFINE k == Kept(file)
           m == Kept(file')
<1>1. /\ k \in Nat /\ m \in Nat
      /\ Committed \in 0..k /\ Committed' \in 0..m
  <2>1. k \in Nat /\ Committed \in 0..k
    BY FileReads, CommittedIs
  <2>2. (Committed \in 0..Kept(file))'
    BY CommittedIs, PTL
  <2>3. (Kept(file) \in 0..Len(file.chunks) /\ Len(file.chunks) \in Nat)'
    BY FileReads, PTL
  <2> QED BY <2>1, <2>2, <2>3
<1>2. seen = Shown(file, k) /\ seen' = Shown(file', m)
  BY DEF ShownInv
<1>3. /\ Len(seen) = k /\ Len(seen') = m
      /\ seen = << >> <=> k = 0
      /\ \A i \in 1..m : seen'[i] = Content(file'.chunks[i].frame)
  BY <1>1, <1>2, ShownFacts
<1>4. CASE Keeps
  <2>1. Committed' = Committed
    BY <1>4 DEF Keeps, Committed
  <2>2. m \in 0..k /\ m \in Committed..Len(seen) /\ m \in 0..Len(seen)
    BY <1>1, <1>3, <1>4, <2>1 DEF Keeps
  <2>3. seen' = SubSeq(seen, 1, m)
    <3>1. Alike(file, file', m)
      BY <1>4 DEF Keeps, SameFrames, Alike
    <3>2. k \in Nat /\ m \in 0..k
      BY <1>1, <2>2
    <3> HIDE DEF k, m
    <3>3. SubSeq(Shown(file, k), 1, m) = Shown(file', m)
      BY <3>1, <3>2, ShownPrefix
    <3> QED BY <1>2, <3>3
  <2>4. Log!Lose(m)
    BY <2>1, <2>2, <2>3 DEF Log!Lose, Committed
  <2> QED BY <2>2, <2>4 DEF Log!LogNext
<1>5. CASE Grows
  <2>1. Committed' = Committed /\ m = k + 1
    BY <1>5 DEF Grows, Committed
  <2>2. SubSeq(seen', 1, k) = seen
    <3>1. Alike(file', file, k)
      BY <1>5 DEF Grows, SameFrames, Alike
    <3>2. m \in Nat /\ k \in 0..m
      BY <1>1, <2>1
    <3> HIDE DEF k, m
    <3>3. SubSeq(Shown(file', m), 1, k) = Shown(file, k)
      BY <3>1, <3>2, ShownPrefix
    <3> QED BY <1>2, <3>3
  <2>3. seen'[m] = [type |-> "sheet", payload |-> SheetPayload] <=> k = 0
    <3> DEFINE fr == file'.chunks[m].frame
    <3>1. m \in 1..m /\ m \in 1..Len(file'.chunks)
      <4>1. (Kept(file) \in 0..Len(file.chunks) /\ Len(file.chunks) \in Nat)'
        BY FileReads, PTL
      <4> QED BY <1>1, <2>1, <4>1
    <3>2. Legible(fr) /\ ((fr.type = "sheet") <=> (m = 1))
      BY <3>1 DEF JInv, Sound, Linked
    <3>3. seen'[m] = [type |-> fr.type, payload |-> fr.payload]
      BY <1>3, <3>1 DEF Content
    <3> HIDE DEF fr, m, k
    <3>4. (fr.type = "sheet") <=> (k = 0)
      BY <1>1, <2>1, <3>2
    <3>5. fr.type = "sheet" => fr.payload = SheetPayload
      BY <3>2 DEF Legible
    <3> QED BY <3>3, <3>4, <3>5
  <2>4. Log!Extend
    BY <1>1, <1>3, <2>1, <2>2, <2>3 DEF Log!Extend, Committed
  <2> QED BY <2>4 DEF Log!LogNext
<1>6. CASE Acknowledges
  <2>1. Committed' = k
    BY <1>6, AcknowledgingCommits
  <2>2. seen' = seen
    BY <1>2, <1>6 DEF Acknowledges
  <2>3. Log!Commit
    BY <1>3, <2>1, <2>2 DEF Log!Commit, Committed
  <2> QED BY <2>3 DEF Log!LogNext
<1> QED BY <1>4, <1>5, <1>6, StepKinds

LEMMA SeenInvHolds == Disciplined /\ SeenSpec => [](JInv /\ ShownInv)
<1>1. SeenInit => JInv /\ ShownInv
  BY InitJInv, SeenIs DEF SeenInit, ShownInv
<1>2. [SeenNext]_<< vars, seen >> => [Next]_vars
  BY DEF SeenNext
<1>3. Disciplined /\ JInv /\ [SeenNext]_<< vars, seen >> => JInv'
  BY <1>2, NextJInv
<1>4. JInv => \A s \in ReaderSees(file) : s = Shown(file, Kept(file))
  BY SeenIs
<1>5. ASSUME JInv', ShownInv, [SeenNext]_<< vars, seen >> PROVE ShownInv'
  <2>1. CASE SeenNext
    <3>1. (\A s \in ReaderSees(file) : s = Shown(file, Kept(file)))'
      BY <1>4, <1>5, PTL
    <3> QED BY <2>1, <3>1 DEF SeenNext, ShownInv
  <2>2. CASE UNCHANGED << vars, seen >>
    BY <1>5, <2>2 DEF ShownInv, vars
  <2> QED BY <1>5, <2>1, <2>2
<1>6. Disciplined => Disciplined'
  BY DEF Disciplined
<1> QED BY <1>1, <1>3, <1>5, <1>6, PTL DEF SeenSpec

\* The journal of a disciplined caller is a durable log: what a reader is shown
\* starts with the sheet, grows at its end, and loses nothing acknowledged.
THEOREM ImplementsDurableLogAlways == Disciplined /\ SeenSpec => ImplementsDurableLog
<1>1. SeenInit => Log!LogInit
  <2> SUFFICES ASSUME SeenInit PROVE Log!LogInit
    OBVIOUS
  <2>1. seen = Shown(file, Kept(file)) /\ acked = {}
    BY InitJInv, SeenIs DEF SeenInit, Init
  <2>2. Kept(file) = 0
    BY FreshFiles DEF SeenInit, Init, Kept
  <2>3. seen = << >>
    BY <2>1, <2>2, ShownFacts
  <2>4. Max({0} \cup {f.seq : f \in acked}) = 0
    <3> DEFINE S == {0} \cup {f.seq : f \in acked}
    <3>1. S = {0}
      BY <2>1
    <3>2. 0 \in S /\ (\A k \in S : k <= 0) /\ S \in SUBSET Nat
      BY <3>1
    <3> HIDE DEF S
    <3>3. Max(S) = 0
      BY <3>2, MaxIs
    <3> QED BY <3>3 DEF S
  <2> QED BY <2>3, <2>4 DEF Log!LogInit
<1>2. ASSUME Disciplined, JInv, JInv', ShownInv, ShownInv', [SeenNext]_<< vars, seen >>
      PROVE  [Log!LogNext]_(Log!logVars)
  <2>1. [Next]_vars
    BY <1>2 DEF SeenNext
  <2>2. [Log!LogNext]_<< seen, Committed >>
    BY <1>2, <2>1, StepImplements
  <2> QED BY <2>2 DEF Log!logVars, Committed
<1>3. Disciplined => Disciplined'
  BY DEF Disciplined
<1> QED BY <1>1, <1>2, <1>3, SeenInvHolds, PTL
        DEF SeenSpec, ImplementsDurableLog, Log!LogSpec
=============================================================================
