----------------------------- MODULE QuiltWire ------------------------------
(***************************************************************************)
(* The pure parts of crates/quilt-wire and of its firmware: the continuity *)
(* of sequence numbers, the walk of a cell and its verifier, the resyncing *)
(* decoder of a byte stream, and what one tick of the firmware sends.      *)
(*                                                                         *)
(* SHA-256 is a free constructor.  A frame on a byte stream is FrameLen    *)
(* units that know their frame and their place: CRC16 is taken to reject   *)
(* every window of bytes that is not one frame, as the tests of frame.rs   *)
(* assume.  Link quality is a float average and is left out.               *)
(***************************************************************************)
EXTENDS Integers, SequencesExt

CONSTANTS
  SeqSpace,    \* sequence numbers are modulo this: 2^16 in the code
  FrameLen,  \* bytes of a frame: 16 in the code
  Heartbeat, \* HEARTBEAT_TICKS
  Eps,       \* EPS, in the units of a reading
  AlarmHi    \* ALARM_HI

ASSUME QuiltWireAssumption ==
  /\ SeqSpace \in Nat /\ SeqSpace >= 4 /\ SeqSpace % 2 = 0
  /\ FrameLen \in Nat \ {0} /\ Heartbeat \in Nat \ {0}
  /\ Eps \in Nat /\ AlarmHi \in Int

-----------------------------------------------------------------------------
\* SeqTracker.

NoSeq == SeqSpace
Forward(last, seq) == (seq + SeqSpace - last) % SeqSpace

\* Mutant: the same number again is a restart.
VerdictRepeatTears(last, seq) ==
  IF last = NoSeq THEN "start"
  ELSE CASE Forward(last, seq) = 1            -> "contiguous"
         [] Forward(last, seq) \in 2 .. SeqSpace \div 2 - 1 -> "gap"
         [] OTHER                             -> "restart"

Verdict(last, seq) ==
  IF last = NoSeq THEN "start"
  ELSE CASE Forward(last, seq) = 0            -> "duplicate"
         [] Forward(last, seq) = 1            -> "contiguous"
         [] Forward(last, seq) \in 2 .. SeqSpace \div 2 - 1 -> "gap"
         [] OTHER                             -> "restart"

\* Mutant: the frame that arrived is counted as missing.
MissingOneMore(last, seq) ==
  IF Verdict(last, seq) = "gap" THEN Forward(last, seq) ELSE 0

Missing(last, seq) ==
  IF Verdict(last, seq) = "gap" THEN Forward(last, seq) - 1 ELSE 0

Observed(last, seq) == IF Verdict(last, seq) = "restart" THEN NoSeq ELSE seq

-----------------------------------------------------------------------------
\* Walks: each cell's is a chain of lines that tears where a restart is seen.

Genesis == << "GENESIS" >>
Digest(walk, prev, payload) == << walk, prev, payload >>

NewWalk == [life |-> 1, last |-> NoSeq, prev |-> Genesis, gaps |-> 0]

\* step_line.
StepLine(c, life, prev, payload) ==
  [walk |-> << c, life >>, prev |-> prev, payload |-> payload,
   digest |-> Digest(<< c, life >>, prev, payload)]

\* Mutant: the chain goes on across a tear.
TornSpliced(w, seq) ==
  [w EXCEPT !.last = Observed(w.last, seq),
            !.gaps = @ + Missing(w.last, seq),
            !.life = IF Verdict(w.last, seq) = "restart" THEN @ + 1 ELSE @]

\* on_frame: the walk before its line is written,
Torn(w, seq) ==
  [w EXCEPT !.last = Observed(w.last, seq),
            !.gaps = @ + Missing(w.last, seq),
            !.life = IF Verdict(w.last, seq) = "restart" THEN @ + 1 ELSE @,
            !.prev = IF Verdict(w.last, seq) = "restart" THEN Genesis ELSE @]

\* the line, and the walk after it.
ArrivalLine(c, w, f) == StepLine(c, Torn(w, f.seq).life, Torn(w, f.seq).prev, f)
Walked(c, w, f) == [Torn(w, f.seq) EXCEPT !.prev = ArrivalLine(c, w, f).digest]

\* verify: every digest recomputes, every line links to the one before it in
\* its walk and every walk opens on GENESIS.
Before(lines, i) == {j \in 1 .. i - 1 : lines[j].walk = lines[i].walk}
Expected(lines, i) ==
  LET js == Before(lines, i) IN
  IF js = {} THEN Genesis
  ELSE lines[CHOOSE j \in js : \A k \in js : k <= j].digest

Verified(lines) ==
  \A i \in 1 .. Len(lines) :
    /\ lines[i].digest = Digest(lines[i].walk, lines[i].prev, lines[i].payload)
    /\ lines[i].prev = Expected(lines, i)

WalksOf(lines) == {lines[i].walk : i \in 1 .. Len(lines)}

-----------------------------------------------------------------------------
\* FrameDecoder.

FrameUnits(f) == [i \in 1 .. FrameLen |-> [frame |-> f, at |-> i]]
Noise == [frame |-> [kind |-> "noise"], at |-> 0]

IsFrame(window) == window = FrameUnits(window[1].frame)

\* Mutant: a window that is no frame is dropped whole.
PushedDropsAll(d, unit) ==
  LET buf == Append(d.buf, unit) IN
  IF Len(buf) < FrameLen THEN [d EXCEPT !.buf = buf]
  ELSE [buf |-> << >>,
        out |-> IF IsFrame(buf) THEN Append(d.out, buf[1].frame) ELSE d.out]

\* One byte: a full window is a frame, or its first byte is dropped.
Pushed(d, unit) ==
  LET buf == Append(d.buf, unit) IN
  IF Len(buf) < FrameLen THEN [d EXCEPT !.buf = buf]
  ELSE IF IsFrame(SubSeq(buf, 1, FrameLen))
       THEN [buf |-> SubSeq(buf, FrameLen + 1, Len(buf)),
             out |-> Append(d.out, buf[1].frame)]
       ELSE [d EXCEPT !.buf = Tail(buf)]

Decoded(d, units) ==
  LET after[n \in 0 .. Len(units)] ==
        IF n = 0 THEN d ELSE Pushed(after[n - 1], units[n])
  IN  after[Len(units)]
NewDecoder == [buf |-> << >>, out |-> << >>]

-----------------------------------------------------------------------------
\* The loop of esp32_cell.ino on one reading.  m has the firmware's tick,
\* last_sent and since_sent.  NAN is not a reading.

NotSent == << >>
Sent(v) == << v >>
Apart(a, b) == a - b > Eps \/ b - a > Eps

Ticked(m) == [m EXCEPT !.tick = @ + 1, !.since = @ + 1]

Changed(m, v) == m.last = NotSent \/ Apart(v, m.last[1])

\* Mutant: the heartbeat is one tick late.
CalledLate(m, v) ==
  IF v >= AlarmHi THEN << "alarm" >>
  ELSE IF Changed(m, v) THEN << "delta" >>
  ELSE IF m.since > Heartbeat THEN << "tick" >>
  ELSE << >>

\* The kind of frame a reading calls for, if any.
Called(m, v) ==
  IF v >= AlarmHi THEN << "alarm" >>
  ELSE IF Changed(m, v) THEN << "delta" >>
  ELSE IF m.since >= Heartbeat THEN << "tick" >>
  ELSE << >>

\* last_sent and since_sent move whether or not the frame was sent.
Reported(m, v) ==
  IF Called(m, v) = << >> THEN m ELSE [m EXCEPT !.last = Sent(v), !.since = 0]
=============================================================================
