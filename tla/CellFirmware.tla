---------------------------- MODULE CellFirmware ----------------------------
(***************************************************************************)
(* firmware/esp32-cell/esp32_cell.ino on a wired road: each tick reads the *)
(* sensor, may send one frame with up to three write attempts, each of     *)
(* which the port may cut short, and the desktop's decoder reads the bytes *)
(* that went out, with line noise among them.                              *)
(***************************************************************************)
EXTENDS QuiltWire

CONSTANTS
  Reading,   \* what the sensor may read
  ShortWrite,\* how many bytes a cut write may get out
  MaxTicks, MaxNoise

SendAttempts == 3

ASSUME CellFirmwareAssumption ==
  /\ Reading \subseteq Int
  /\ ShortWrite \subseteq 0 .. FrameLen - 1
  /\ MaxTicks \in Nat /\ MaxNoise \in Nat

VARIABLES
  fw,       \* the statics: tick, last (last_sent), since, seq, sent, dropped
  reading,  \* the last reading
  tried,    \* history: [frame, sent] of every send_frame
  decoder,  \* the desktop's FrameDecoder and the frames it has handed out
  noises

firmwareVars == << fw, reading, tried, decoder, noises >>

\* The runs of transport_write in send_frame: cut writes, then a full one if
\* the attempts have not run out.
Attempts ==
  {<< cuts, TRUE >> : cuts \in SeqOf(ShortWrite, SendAttempts - 1)}
    \cup {<< cuts, FALSE >> : cuts \in TupleOf(ShortWrite, SendAttempts)}

\* The bytes that go out.
WireUnits(f, attempt) ==
  LET cuts == attempt[1]
      out[n \in 0 .. Len(cuts)] ==
        IF n = 0 THEN << >> ELSE out[n - 1] \o SubSeq(FrameUnits(f), 1, cuts[n])
  IN  out[Len(cuts)] \o (IF attempt[2] THEN FrameUnits(f) ELSE << >>)

\* Mutant: a dropped frame uses no number.
SendFrameReuses(m, f, attempt) ==
  /\ fw' = [m EXCEPT !.seq = IF attempt[2] THEN (@ + 1) % SeqSpace ELSE @,
                     !.sent = IF attempt[2] THEN @ + 1 ELSE @,
                     !.dropped = IF attempt[2] THEN @ ELSE @ + 1]
  /\ tried' = Append(tried, [frame |-> f, sent |-> attempt[2]])
  /\ decoder' = Decoded(decoder, WireUnits(f, attempt))

\* send_frame and the seq++ after it: m counts the frame as sent or dropped.
SendFrame(m, f, attempt) ==
  /\ fw' = [m EXCEPT !.seq = (@ + 1) % SeqSpace,
                     !.sent = IF attempt[2] THEN @ + 1 ELSE @,
                     !.dropped = IF attempt[2] THEN @ ELSE @ + 1]
  /\ tried' = Append(tried, [frame |-> f, sent |-> attempt[2]])
  /\ decoder' = Decoded(decoder, WireUnits(f, attempt))

CellFrame(m, kind, v) == [kind |-> kind, seq |-> m.seq, tick |-> m.tick, value |-> v]

\* setup opens the session with a LINKMETA frame of the version.
Setup ==
  /\ tried = << >>
  /\ \E attempt \in Attempts : SendFrame(fw, CellFrame(fw, "linkmeta", 0), attempt)
  /\ UNCHANGED << reading, noises >>

\* loop.  How long a tick lasts is left out.
Loop(v) ==
  /\ tried # << >> /\ fw.tick < MaxTicks
  /\ reading' = Sent(v)
  /\ LET m == Ticked(fw)
         kind == Called(m, v)
     IN  IF kind = << >> THEN fw' = m /\ UNCHANGED << tried, decoder >>
         ELSE \E attempt \in Attempts :
                SendFrame(Reported(m, v), CellFrame(m, kind[1], v), attempt)
  /\ UNCHANGED noises

LineNoise ==
  /\ noises < MaxNoise /\ noises' = noises + 1
  /\ decoder' = Decoded(decoder, << Noise >>)
  /\ UNCHANGED << fw, reading, tried >>

FirmwareInit ==
  /\ fw = [tick |-> 0, last |-> NotSent, since |-> 0, seq |-> 0, sent |-> 0, dropped |-> 0]
  /\ reading = NotSent
  /\ tried = << >> /\ decoder = NewDecoder /\ noises = 0

FirmwareNext ==
  Setup \/ (\E v \in Reading : Loop(v)) \/ LineNoise

-----------------------------------------------------------------------------
(***************************************************************************)
(* Properties                                                              *)
(***************************************************************************)

\* The frames of tries ts that were written in full.
SentOf(ts) ==
  LET sends[n \in 0 .. Len(ts)] ==
        IF n = 0 THEN << >>
        ELSE IF ts[n].sent THEN Append(sends[n - 1], ts[n].frame) ELSE sends[n - 1]
  IN  sends[Len(ts)]

\* The resync of FrameDecoder: "a stream never permanently desynchronises".
\* Whatever cut writes and noise surround it, every frame written in full has
\* been handed out once its last byte is in, in order, and nothing else has.
EverySentFrameDecoded == decoder.out = SentOf(tried)

\* The missing frames the receiver's SeqTracker counts over what was decoded.
CountedMissing(out) ==
  LET counted[n \in 0 .. Len(out)] ==
        IF n <= 1 THEN 0
        ELSE counted[n - 1] + Missing(out[n - 1].seq, out[n].seq)
  IN  counted[Len(out)]

FirstSent == CHOOSE i \in 1 .. Len(tried) :
               tried[i].sent /\ \A j \in 1 .. i - 1 : ~ tried[j].sent
LastSentAt == CHOOSE i \in 1 .. Len(tried) :
                tried[i].sent /\ \A j \in i + 1 .. Len(tried) : ~ tried[j].sent

\* No two frames sent one after the other are half of all numbers apart.
WithinHalf ==
  \A j \in 1 .. Len(tried) : \A i \in 1 .. j - 1 :
    /\ tried[i].sent /\ tried[j].sent
    /\ \A k \in i + 1 .. j - 1 : ~ tried[k].sent
    => j - i < SeqSpace \div 2

\* "dropped frames are counted, never faked -- the resulting seq gap IS the
\* reliability signal": the receiver counts the frames dropped between two that
\* were sent, and the sender has counted them too, with those at either end.
DroppedFramesAreGaps ==
  WithinHalf /\ fw.sent > 0 =>
    fw.dropped = CountedMissing(decoder.out) + (FirstSent - 1) + (Len(tried) - LastSentAt)

\* The heartbeat: at the end of a tick, fewer than Heartbeat ticks have passed
\* since the last frame was tried, and the last reported value is within Eps of
\* the reading.
NeverSilentForLong ==
  fw.tick > 0 => fw.since < Heartbeat /\ ~ Changed(fw, reading[1])
=============================================================================
