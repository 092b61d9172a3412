------------------------------- MODULE Journal ------------------------------
(***************************************************************************)
(* The black-box recorder of packages/core/src/journal.rs over a file: the *)
(* writer appends, syncs and acknowledges frames, the recorder seals each  *)
(* event into its cell's ledger first, the process may die or lose power   *)
(* at any step, a write or a sync may fail, bits may rot, and a restarted  *)
(* process resumes the file it finds.                                      *)
(***************************************************************************)
EXTENDS JournalFile

CONSTANTS Event,           \* the values events carry
          Policy,          \* SyncPolicies in use: TRUE is EveryFrame, FALSE Off
          FailStop,        \* the caller exits on the first error, as the CLI
          RestartByStart,  \* start may be called on a resumed writer, too
          RotKinds,        \* which bit rot may strike: of {"body", "length"}
          MaxFrames,       \* bound on frame sequence numbers
          MaxCrashes,      \* bound on power losses and process deaths
          MaxFailures,     \* bound on failed writes and syncs
          MaxRot           \* bound on rotted frames

ASSUME JournalAssumption ==
  /\ Event \subseteq Value
  /\ Policy \cup {FailStop, RestartByStart} \subseteq BOOLEAN
  /\ RotKinds \subseteq {"body", "length"}
  /\ {MaxFrames, MaxCrashes, MaxFailures, MaxRot} \subseteq Nat

VARIABLES file,       \* the file as the operating system shows it
          durable,    \* the part of it known to be on the platter
          writer,     \* the JournalWriter: open, next_seq, head, sync
          inflight,   \* Some(frame) from its write to its ack
          recording,  \* the caller has a started or resumed recorder
          ledgers,    \* JournalRecorder.ledgers
          acked,      \* history: the frames acknowledged after a sync
          appended,   \* history: the frames ever handed to write_all
          crashes, failures, rots

vars == << file, durable, writer, inflight, recording, ledgers,
           acked, appended, crashes, failures, rots >>

disk    == << file, durable >>
process == << writer, inflight, recording, ledgers >>
history == << acked, appended >>
budgets == << crashes, failures, rots >>

Closed == [open |-> FALSE, nextSeq |-> 1, head |-> FrameGenesis, sync |-> TRUE]

Fresh(sync) == [Closed EXCEPT !.open = TRUE, !.sync = sync]

Init ==
  /\ file = NoFile /\ durable = NoFile
  /\ writer = Closed /\ inflight = None
  /\ recording = FALSE /\ ledgers = NoLedgers
  /\ acked = {} /\ appended = {}
  /\ crashes = 0 /\ failures = 0 /\ rots = 0

ProcessDies == /\ writer' = Closed /\ inflight' = None
               /\ recording' = FALSE /\ ledgers' = NoLedgers

-----------------------------------------------------------------------------
\* append_frame: one write_all, then the sync the policy asks for, then the
\* writer moves on and the ack is returned.

NewFrame(type, payload) == Frame(type, writer.nextSeq, writer.head, payload)

MayAppend == /\ writer.open /\ inflight = None
             /\ writer.nextSeq <= MaxFrames

WriteFrame(f) ==
  /\ file' = [file EXCEPT !.chunks = Append(@, Chunk(f, FrameUnits(f)))]
  /\ inflight' = Some(f)
  /\ appended' = appended \cup {f}
  /\ UNCHANGED << durable, writer, acked, budgets >>

\* write_all fails with some of the frame's units written; the error reaches
\* the caller, who exits or goes on with the writer as it was.
WriteFrameFails(f, ledgersAfter) ==
  /\ failures < MaxFailures
  /\ failures' = failures + 1
  /\ \E k \in 0..(FrameUnits(f) - 1) :
       file' = IF k = 0 THEN file
               ELSE [file EXCEPT !.chunks = Append(@, Chunk(f, k))]
  /\ appended' = appended \cup {f}
  /\ IF FailStop THEN ProcessDies
     ELSE /\ ledgers' = ledgersAfter
          /\ UNCHANGED << writer, inflight, recording >>
  /\ UNCHANGED << durable, acked, crashes, rots >>

\* Mutant: acknowledged before the sync.
AckBeforeSync ==
  /\ inflight # None
  /\ writer' = [writer EXCEPT !.nextSeq = @ + 1, !.head = inflight[1].head]
  /\ acked' = IF writer.sync THEN acked \cup {inflight[1]} ELSE acked
  /\ inflight' = None
  /\ UNCHANGED << disk, recording, ledgers, appended, budgets >>

Ack ==
  /\ inflight # None
  /\ IF writer.sync THEN durable' = file /\ acked' = acked \cup {inflight[1]}
                    ELSE UNCHANGED << durable, acked >>
  /\ writer' = [writer EXCEPT !.nextSeq = @ + 1, !.head = inflight[1].head]
  /\ inflight' = None
  /\ UNCHANGED << file, recording, ledgers, appended, budgets >>

SyncFails ==
  /\ writer.sync /\ inflight # None
  /\ failures < MaxFailures
  /\ failures' = failures + 1
  /\ IF FailStop THEN ProcessDies
     ELSE /\ inflight' = None
          /\ UNCHANGED << writer, recording, ledgers >>
  /\ UNCHANGED << disk, history, crashes, rots >>

-----------------------------------------------------------------------------
\* The recorder.

SheetPayload == [sheet |-> "source"]

\* JournalRecorder::start appends the sheet metadata to whatever writer it is
\* given.
CanStart == ~ recording /\ MayAppend /\ (writer.nextSeq = 1 \/ RestartByStart)

Start == /\ CanStart
         /\ WriteFrame(NewFrame("sheet", SheetPayload))
         /\ recording' = TRUE /\ ledgers' = NoLedgers

StartFails == CanStart /\ WriteFrameFails(NewFrame("sheet", SheetPayload), ledgers)

\* record_event: the cell's ledger records first, then the entry is framed.
RecordedIn(c, v) == [ledgers EXCEPT ![c] = RecordWith(@, v, v, 0, None)]

EventFrame(c, v) ==
  NewFrame("entry", [cell |-> c, entry |-> Last(RecordedIn(c, v)[c].entries)])

RecordEvent(c, v) ==
  /\ recording /\ MayAppend
  /\ WriteFrame(EventFrame(c, v))
  /\ ledgers' = RecordedIn(c, v)
  /\ UNCHANGED recording

RecordEventFails(c, v) ==
  /\ recording /\ MayAppend
  /\ WriteFrameFails(EventFrame(c, v), RecordedIn(c, v))

\* append_checkpoint through writer_mut.
Checkpoint ==
  /\ recording /\ MayAppend
  /\ WriteFrame(NewFrame("checkpoint", [note |-> "heartbeat"]))
  /\ UNCHANGED << recording, ledgers >>

-----------------------------------------------------------------------------
\* Opening.

\* JournalWriter::create, and open_or_create when there is no file.
Create ==
  /\ ~ writer.open /\ ~ file.exists
  /\ file' = FreshFile
  /\ \E sync \in Policy : writer' = Fresh(sync)
  /\ UNCHANGED << durable, inflight, recording, ledgers, history, budgets >>

\* The header's write_all fails part way.
CreateFails ==
  /\ ~ writer.open /\ ~ file.exists
  /\ failures < MaxFailures
  /\ failures' = failures + 1
  /\ \E h \in 0..(HeaderUnits - 1) : file' = [EmptyFile EXCEPT !.header = h]
  /\ UNCHANGED << durable, process, history, crashes, rots >>

\* open_or_create on an empty file: treated as fresh.
ReopenEmpty ==
  /\ ~ writer.open /\ file = EmptyFile
  /\ file' = FreshFile
  /\ \E sync \in Policy : writer' = Fresh(sync)
  /\ UNCHANGED << durable, inflight, recording, ledgers, history, budgets >>

\* Mutant: only a clean journal is resumed.
ResumeCleanOnly ==
  /\ ~ writer.open /\ file.exists /\ file # EmptyFile
  /\ \E report \in {JournalVerify(file)}, sync \in Policy :
       /\ report.outcome = "clean"
       /\ writer' = [open |-> TRUE, nextSeq |-> Len(report.frames) + 1,
                     head |-> HeadOf(report.frames), sync |-> sync]
  /\ UNCHANGED << disk, inflight, recording, ledgers, history, budgets >>

\* open_or_create on a journal that verifies, its torn tail cut off.  Anything
\* else is refused.
Resume ==
  /\ ~ writer.open /\ file.exists /\ file # EmptyFile
  /\ \E report \in {JournalVerify(file)}, sync \in Policy :
       /\ report.outcome \in {"clean", "torn"}
       /\ file' = Truncated(file, report)
       /\ writer' = [open |-> TRUE, nextSeq |-> Len(report.frames) + 1,
                     head |-> HeadOf(report.frames), sync |-> sync]
  /\ UNCHANGED << durable, inflight, recording, ledgers, history, budgets >>

\* Mutant: the restarted recorder starts from empty ledgers.
RebuildLedgersEmpty ==
  /\ ~ recording
  /\ writer.open /\ writer.nextSeq > 1
  /\ recording' = TRUE
  /\ ledgers' = NoLedgers
  /\ UNCHANGED << disk, writer, inflight, history, budgets >>

\* The restarted process rebuilds its ledgers from the journal, not from memory.
RebuildLedgers ==
  /\ ~ recording
  /\ writer.open /\ writer.nextSeq > 1
  /\ recording' = TRUE
  /\ ledgers' = JournalReplay(file).ledgers
  /\ UNCHANGED << disk, writer, inflight, history, budgets >>

\* recover_file, by hand before a restart.
RecoverFile ==
  /\ ~ writer.open /\ file.exists
  /\ file' = Recovered(file)
  /\ UNCHANGED << durable, process, history, budgets >>

-----------------------------------------------------------------------------
\* The environment.

\* The process is killed: what it wrote stays with the operating system.
Exit ==
  /\ writer.open
  /\ crashes < MaxCrashes
  /\ crashes' = crashes + 1
  /\ ProcessDies
  /\ UNCHANGED << disk, history, failures, rots >>

\* Power is lost: the disk holds what was durable, or a cut of what had been
\* written since that keeps every unit the two have in common.
PowerLoss ==
  /\ crashes < MaxCrashes
  /\ crashes' = crashes + 1
  /\ LET common == Cuts(durable) \cap Cuts(file) IN
       file' \in {durable} \cup {c \in Cuts(file) : common \subseteq Cuts(c)}
  /\ durable' = file'
  /\ ProcessDies
  /\ UNCHANGED << history, failures, rots >>

\* Bits of a frame at rest flip.
BitRot ==
  /\ ~ writer.open /\ rots < MaxRot
  /\ rots' = rots + 1
  /\ \E i \in 1..Len(file.chunks), kind \in RotKinds :
       file' = [file EXCEPT !.chunks[i].rot = kind]
  /\ durable' = file'
  /\ UNCHANGED << process, history, crashes, failures >>

Next ==
  \/ Create \/ CreateFails \/ ReopenEmpty \/ Resume \/ RebuildLedgers
  \/ RecoverFile \/ Start \/ StartFails \/ Checkpoint
  \/ \E c \in JCell, v \in Event : RecordEvent(c, v) \/ RecordEventFails(c, v)
  \/ Ack \/ SyncFails
  \/ Exit \/ PowerLoss \/ BitRot

\* A running process finishes its append; a dead one is started again.
Fairness == WF_vars(Ack) /\ WF_vars(Resume) /\ WF_vars(Create)

Spec == Init /\ [][Next]_vars /\ Fairness

-----------------------------------------------------------------------------
(***************************************************************************)
(* Properties                                                              *)
(***************************************************************************)

\* "the ack is the promise: this frame is on the platter": whatever has been
\* lost since, every acknowledged frame reads back at its place in the part of
\* the file journal_verify vouches for (append_frame, fsync before ack).
AckedReadable ==
  LET fs == Vouched(file) IN
  \A f \in acked : f.seq <= Len(fs) /\ fs[f.seq] = f

\* While the process runs and nothing is in flight, a replay of its file gives
\* exactly the ledgers it holds, and the writer stands at the file's end
\* (record_event, journal_replay, the resume in open_or_create).
LiveIsReplay ==
  recording /\ inflight = None =>
    LET fs == Vouched(file) IN
    /\ JournalReplay(file) = [ledgers |-> ledgers, rejected |-> FALSE]
    /\ writer.nextSeq = Len(fs) + 1
    /\ writer.head = HeadOf(fs)

\* "never a silent wrong state" (docs/JOURNAL.md, Recovery contract): however
\* the file was cut, damaged or written past an error, the readers vouch for
\* frames the writer appended and for no others, and the ledgers they rebuild
\* have whole chains and continuous histories.
NeverSilentlyWrong ==
  LET fs == Vouched(file)
      r  == JournalReplay(file) IN
  /\ \A i \in 1..Len(fs) : fs[i] \in appended
  /\ \A c \in JCell : ChainIntact(r.ledgers[c]) /\ ContinuityIntact(r.ledgers[c])

\* Every truncation of a journal, at any point, is a torn header or replays
\* cleanly up to its last complete frame (docs/JOURNAL.md, Recovery contract).
TruncationIsHonest ==
  LET whole == JournalVerify(file) IN
  \A cut \in Cuts(file) \ {NoFile} :
    LET r == JournalVerify(cut) IN
    /\ r.outcome \in {"clean", "torn", "tornHeader"}
    /\ IsPrefix(r.frames, whole.frames)
    /\ Len(r.frames) = Cardinality({i \in 1..Len(cut.chunks) :
                                      Complete(cut.chunks[i])})
    /\ ~ Replayed(r).rejected

\* The first i frames are complete, and each announces the length it has.
Reached(cs, i) == \A j \in 1..i : Complete(cs[j]) /\ cs[j].rot # "length"

\* Corruption inside a complete frame "is never truncated away, and is always
\* reported" (journal.rs, recovery contract), as far as the code keeps it: a
\* frame that length prefixes as they were written lead to, rotten or not,
\* leaves the file only with the power, never by a recovery, a resume or a
\* failed write; and while such a frame is rotten the journal is not opened.
CorruptionKept ==
  [][ crashes' = crashes =>
        \A i \in 1..Len(file.chunks) :
          Reached(file.chunks, i) =>
            /\ i <= Len(file'.chunks) /\ file'.chunks[i].frame = file.chunks[i].frame
            /\ file.chunks[i].rot # "none" /\ ~ writer.open => ~ writer'.open
    ]_vars

\* The same of every complete frame, as the recovery contract has it.
CompleteFramesKept ==
  [][ crashes' = crashes =>
        \A i \in 1..Len(file.chunks) :
          Complete(file.chunks[i]) =>
            i <= Len(file'.chunks) /\ file'.chunks[i].frame = file.chunks[i].frame
    ]_vars

\* Once anything has been acknowledged, a dead recorder can always be brought
\* back: no sequence of deaths leaves a file open_or_create refuses for ever.
WritableAgain == acked # {} /\ ~ writer.open ~> writer.open
=============================================================================
