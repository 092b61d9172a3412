------------------------------ MODULE WireLink ------------------------------
(***************************************************************************)
(* Cells send numbered frames over a radio that loses, repeats and         *)
(* reorders them; the arrival peer of crates/quilt-wire/src/peer.rs        *)
(* classifies each arrival, keeps one walk per cell and writes one line    *)
(* per frame.  A cell may reboot: its numbers start again from 0.          *)
(***************************************************************************)
EXTENDS QuiltWire

CONSTANTS
  Cell,
  StartSeq,      \* the numbers a cell may be at when the peer starts
  MaxFrames,     \* bounds: frames sent by all cells,
  MaxAir,        \* frames in flight,
  MaxLosses, MaxRepeats, MaxSwaps, MaxBoots

ASSUME WireLinkAssumption ==
  /\ StartSeq \subseteq 0 .. SeqSpace - 1
  /\ {MaxFrames, MaxAir, MaxLosses, MaxRepeats, MaxSwaps, MaxBoots} \subseteq Nat

VARIABLES
  seq,     \* seq[c]: the number of the next frame of cell c
  boot,    \* boot[c]: history: how often c has rebooted
  sent,    \* sent[c]: history: how many frames c has numbered
  air,     \* the frames in flight, in the order they will arrive
  walks,   \* the peer's cells: a CellWalk for each cell heard
  stats,   \* the peer's counters
  lines,   \* the walks/2 lines written
  faults   \* how often the radio has lost, repeated and swapped

linkVars == << seq, boot, sent, air, walks, stats, lines, faults >>
radio == << air, faults >>
sender == << seq, boot, sent >>
peer == << walks, stats, lines >>

\* What a frame carries; boot and nth stand for the tick and the value that
\* make it differ from other frames of its number.
FrameOf(c) == [cell |-> c, seq |-> seq[c], boot |-> boot[c], nth |-> sent[c] + 1]

Numbered(c) ==
  /\ SumFunction(sent) < MaxFrames
  /\ seq' = [seq EXCEPT ![c] = (@ + 1) % SeqSpace]
  /\ sent' = [sent EXCEPT ![c] = @ + 1]
  /\ UNCHANGED << boot, peer >>

\* send_frame and the seq++ after it.
Send(c) ==
  /\ Numbered(c) /\ Len(air) < MaxAir
  /\ air' = Append(air, FrameOf(c))
  /\ UNCHANGED faults

\* All attempts fail: the number is used all the same.
SendFails(c) ==
  /\ Numbered(c) /\ faults.lost < MaxLosses
  /\ faults' = [faults EXCEPT !.lost = @ + 1]
  /\ UNCHANGED air

Reboot(c) ==
  /\ boot[c] < MaxBoots
  /\ boot' = [boot EXCEPT ![c] = @ + 1]
  /\ seq' = [seq EXCEPT ![c] = 0]
  /\ UNCHANGED << sent, radio, peer >>

Lose(i) ==
  /\ faults.lost < MaxLosses
  /\ air' = RemoveAt(air, i)
  /\ faults' = [faults EXCEPT !.lost = @ + 1]
  /\ UNCHANGED << sender, peer >>

\* The same frame over a second link.
Repeat(i) ==
  /\ faults.repeated < MaxRepeats /\ Len(air) < MaxAir
  /\ air' = InsertAt(air, i, air[i])
  /\ faults' = [faults EXCEPT !.repeated = @ + 1]
  /\ UNCHANGED << sender, peer >>

Swap(i) ==
  /\ faults.swapped < MaxSwaps /\ i < Len(air)
  /\ air' = [air EXCEPT ![i] = air[i + 1], ![i + 1] = air[i]]
  /\ faults' = [faults EXCEPT !.swapped = @ + 1]
  /\ UNCHANGED << sender, peer >>

-----------------------------------------------------------------------------
Heard(c) == IF c \in DOMAIN walks THEN walks[c] ELSE NewWalk

Tally(v, missing) ==
  [frames |-> stats.frames + 1,
   gaps |-> stats.gaps + missing,
   duplicates |-> stats.duplicates + (IF v = "duplicate" THEN 1 ELSE 0),
   restarts |-> stats.restarts + (IF v = "restart" THEN 1 ELSE 0)]

\* on_frame.
OnFrame ==
  /\ air # << >>
  /\ LET f == Head(air)
         c == f.cell
         w == Heard(c)
     IN  /\ stats' = Tally(Verdict(w.last, f.seq), Missing(w.last, f.seq))
         /\ lines' = Append(lines, ArrivalLine(c, w, f))
         /\ walks' = [d \in DOMAIN walks \cup {c} |->
                        IF d = c THEN Walked(c, w, f) ELSE walks[d]]
  /\ air' = Tail(air)
  /\ UNCHANGED << sender, faults >>

-----------------------------------------------------------------------------
LinkInit ==
  /\ seq \in [Cell -> StartSeq]
  /\ boot = [c \in Cell |-> 0] /\ sent = [c \in Cell |-> 0]
  /\ air = << >>
  /\ walks = << >> /\ lines = << >>
  /\ stats = [frames |-> 0, gaps |-> 0, duplicates |-> 0, restarts |-> 0]
  /\ faults = [lost |-> 0, repeated |-> 0, swapped |-> 0]

LinkNext ==
  \/ \E c \in Cell : Send(c) \/ SendFails(c) \/ Reboot(c)
  \/ \E i \in 1 .. Len(air) : Lose(i) \/ Repeat(i) \/ Swap(i)
  \/ OnFrame

LinkSpec == LinkInit /\ [][LinkNext]_linkVars

-----------------------------------------------------------------------------
(***************************************************************************)
(* Properties                                                              *)
(***************************************************************************)

\* Whatever the radio does, walks::verify accepts what the peer has written,
\* and finds one walk per cell and one more per restart (the lossy loopback
\* test: "chain still verifies across the tears", 1 + 2 walks).
WalksVerify ==
  /\ Verified(lines)
  /\ Cardinality(WalksOf(lines)) = Cardinality(DOMAIN walks) + stats.restarts

\* Two frames of one life of their cell, in the order they were sent, and less
\* than half of all numbers apart.
InStep(f, g) ==
  /\ f.cell = g.cell /\ f.boot = g.boot
  /\ g.nth - f.nth \in 0 .. SeqSpace \div 2 - 1

\* A walk is torn only by a reordering, a reboot or the silence of half of all
\* numbers: no lesser loss and no repetition looks like a restart, on whatever
\* the walk has seen before.
TearsAreExplained ==
  \A j \in 1 .. Len(lines) : \A i \in 1 .. j - 1 :
    /\ InStep(lines[i].payload, lines[j].payload)
    /\ \A k \in i + 1 .. j - 1 : lines[k].payload.cell # lines[j].payload.cell
    => lines[i].walk = lines[j].walk

\* The lines of cell c, as positions.
LinesOf(c) == {i \in 1 .. Len(lines) : lines[i].payload.cell = c}
Arrived(c) == {lines[i].payload.nth : i \in LinesOf(c)}

\* The frames of c that the peer should know are missing: numbered between two
\* that arrived, and not arrived themselves.
LostBetween(c) ==
  {n \in 1 .. sent[c] : /\ n \notin Arrived(c)
                        /\ \E a, b \in Arrived(c) : a < n /\ n < b}

\* The road has kept the order and no cell has rebooted.
Orderly == faults.swapped = 0 /\ \A c \in Cell : boot[c] = 0

\* "Every loss observed as a counted gap" (README), "never fabricated" (the
\* lossy loopback test): on an orderly road the gaps counted for a cell are at
\* every moment its frames lost between two that arrived.
EveryLossCounted ==
  Orderly => \A c \in DOMAIN walks : walks[c].gaps = Cardinality(LostBetween(c))

=============================================================================
