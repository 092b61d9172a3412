---------------------------- MODULE JournalFile -----------------------------
(***************************************************************************)
(* The journal's file format and its readers, packages/core/src/journal.rs:*)
(* frames and their hash chain, scan_frames, journal_verify and            *)
(* journal_replay, as operators on a file's content.                       *)
(*                                                                         *)
(* Bytes are counted in units: the header is two, a frame is one for its   *)
(* length prefix and frame.body for its body and CRC.  A file is a header  *)
(* and a sequence of chunks, a chunk being the units of one frame's write  *)
(* that reached the file.  A CRC fails exactly when the units read are not *)
(* those of one frame.                                                     *)
(***************************************************************************)
EXTENDS Ledger

CONSTANTS JCell,    \* the cells that are journalled
          BodyOf,   \* units of the frame body that carries a value
          MaxBody   \* MAX_BODY, in units

ASSUME JournalFileAssumption ==
  BodyOf \in [Value -> Nat \ {0}] /\ MaxBody \in Nat \ {0}

HeaderUnits == 2

NoFile    == [exists |-> FALSE, header |-> 0, chunks |-> << >>]
EmptyFile == [NoFile EXCEPT !.exists = TRUE]
FreshFile == [EmptyFile EXCEPT !.header = HeaderUnits]

-----------------------------------------------------------------------------
\* Frames.

FrameGenesis == Sha256(<< "quilt-journal/frames/1" >>)

NextHead(prev, type, seq, payload) == Sha256(<< prev, type, seq, payload >>)

\* append_frame's layout; body is the size the length prefix announces.
Frame(type, seq, prev, payload) ==
  [type |-> type, seq |-> seq, head |-> NextHead(prev, type, seq, payload),
   payload |-> payload,
   body |-> IF type = "entry" THEN BodyOf[payload.entry.after] ELSE 1]

FrameUnits(f) == 1 + f.body

\* The units of f's write that reached the file; rot is "none", or where bits
\* have flipped since: in the "body", or in the "length" prefix.
Chunk(f, written) == [frame |-> f, written |-> written, rot |-> "none"]

Complete(c) == c.written = FrameUnits(c.frame)

-----------------------------------------------------------------------------
\* What a file is cut down to when its last units are lost.

Cuts(f) ==
       {NoFile}
  \cup (IF f.exists THEN {[EmptyFile EXCEPT !.header = h] : h \in 0..f.header}
                    ELSE {})
  \cup UNION {{[f EXCEPT !.chunks = SubSeq(@, 1, i - 1)
                             \o << [@[i] EXCEPT !.written = k] >>] :
                 k \in 1..f.chunks[i].written} : i \in 1..Len(f.chunks)}

-----------------------------------------------------------------------------
\* scan_frames.

\* What the file holds from chunk i on: its last Len(cs) - i + 1 chunks.
UnitsFrom(cs, i) ==
  LET ofLast[n \in 0..Len(cs)] ==
        IF n = 0 THEN 0 ELSE ofLast[n - 1] + cs[Len(cs) - n + 1].written
  IN  ofLast[Len(cs) - i + 1]

\* Mutant: a frame that ends with the file is torn.
TornAtEnd(cs, i) == \/ cs[i].rot = "length"
                    \/ UnitsFrom(cs, i) <= FrameUnits(cs[i].frame)

\* A flipped length prefix announces more than the file holds.
Torn(cs, i) == \/ cs[i].rot = "length"
               \/ UnitsFrom(cs, i) < FrameUnits(cs[i].frame)

OutOfRange(c) == c.rot # "length" /\ c.frame.body > MaxBody

\* The frame scan_frames reads at chunk i, which it reaches when all before
\* are good.
Verdict(cs, i) ==
  IF OutOfRange(cs[i]) THEN "corrupt"
  ELSE IF Torn(cs, i) THEN "torn"
  ELSE IF ~ Complete(cs[i]) \/ cs[i].rot # "none" THEN "corrupt"
  ELSE "good"

\* How many frames the scan pushes before it stops.
Scanned(cs) ==
  CHOOSE n \in 0..Len(cs) :
    /\ \A i \in 1..n : Verdict(cs, i) = "good"
    /\ n < Len(cs) => Verdict(cs, n + 1) # "good"

\* A frame read despite its rot would carry other bytes: another value.
ReadFrame(c) ==
  IF c.rot = "none" \/ c.frame.type # "entry" THEN c.frame
  ELSE [c.frame EXCEPT !.payload.entry.after = CHOOSE v \in Value : v # @]

ScanFrames(f) ==
  IF f.header < HeaderUnits THEN [frames |-> << >>, outcome |-> "tornHeader"]
  ELSE LET n == Scanned(f.chunks) IN
       [frames  |-> [i \in 1..n |-> ReadFrame(f.chunks[i])],
        outcome |-> IF n = Len(f.chunks) THEN "clean"
                    ELSE Verdict(f.chunks, n + 1)]

-----------------------------------------------------------------------------
\* journal_verify.

ExpectedHead(fs, i) == IF i = 1 THEN FrameGenesis ELSE fs[i - 1].head

\* semantic_outcome, at one frame: contiguous sequence, chained head, sheet
\* metadata first and only first.
Diverges(fs, i) ==
  \/ fs[i].seq # i
  \/ fs[i].head # NextHead(ExpectedHead(fs, i), fs[i].type, fs[i].seq,
                           fs[i].payload)
  \/ (fs[i].type = "sheet") # (i = 1)

Divergences(fs) == {i \in 1..Len(fs) : Diverges(fs, i)}

\* good is the good_frames an outcome vouches for.  A corrupt frame returns
\* before the semantic pass; a torn one does not.
Report(scan) ==
  LET bad == Divergences(scan.frames) IN
  IF scan.outcome \in {"clean", "torn"} /\ bad # {}
  THEN [outcome |-> "divergence", frames |-> scan.frames, good |-> Min(bad) - 1]
  ELSE [outcome |-> scan.outcome, frames |-> scan.frames,
        good |-> Len(scan.frames)]

\* (The scan is bound by a set for TLC to read the file once.)
JournalVerify(f) ==
  CHOOSE r \in {Report(scan) : scan \in {ScanFrames(f)}} : TRUE

\* The frames the outcome vouches for.
Vouched(f) == LET r == JournalVerify(f) IN SubSeq(r.frames, 1, r.good)

HeadOf(fs) == IF fs = << >> THEN FrameGenesis ELSE Last(fs).head

-----------------------------------------------------------------------------
\* journal_replay: the frames in file order, into a new ledger for each cell.

EntryOf(fr) == JsonEntry(fr.payload.entry)

NoLedgers == [c \in JCell |-> NewLedger(c)]

\* One frame: an entry goes through restore_entry, and the first one rejected
\* ends the replay.
ReplayFrame(r, fr) ==
  IF r.rejected \/ fr.type # "entry" THEN r
  ELSE LET cell == fr.payload.cell IN
       IF Restorable(r.ledgers[cell], EntryOf(fr))
       THEN [r EXCEPT !.ledgers[cell] = RestoreEntry(@, EntryOf(fr))]
       ELSE [r EXCEPT !.rejected = TRUE]

ReplayFrames(fs) ==
  LET after[n \in 0..Len(fs)] ==
        IF n = 0 THEN [ledgers |-> NoLedgers, rejected |-> FALSE]
        ELSE ReplayFrame(after[n - 1], fs[n])
  IN  after[Len(fs)]

\* Structural divergence replays nothing; else every frame of the report, those
\* before a corrupt one included, up to the first rejection.
Replayed(r) ==
  ReplayFrames(IF r.outcome = "divergence" THEN << >> ELSE r.frames)

JournalReplay(f) ==
  CHOOSE p \in {Replayed(r) : r \in {JournalVerify(f)}} : TRUE

-----------------------------------------------------------------------------
\* recover_file and open_or_create: a torn tail is cut back to the last
\* complete frame; nothing else is touched.

\* Mutant: a corrupt tail is cut back like a torn one.
TruncatedCorrupt(f, r) ==
  IF r.outcome \in {"torn", "corrupt"}
  THEN [f EXCEPT !.chunks = SubSeq(@, 1, r.good)] ELSE f

Truncated(f, r) ==
  IF r.outcome = "torn" THEN [f EXCEPT !.chunks = SubSeq(@, 1, r.good)] ELSE f

Recovered(f) == Truncated(f, JournalVerify(f))
=============================================================================
