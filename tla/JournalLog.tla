----------------------------- MODULE JournalLog -----------------------------
(***************************************************************************)
(* The journal implements a durable log.  seen is what a reader of the     *)
(* file is shown, a function of the file, kept as a variable of its own.   *)
(***************************************************************************)
EXTENDS Journal

VARIABLE seen

Content(f) == [type |-> f.type, payload |-> f.payload]

ReaderSees(f) == {[i \in 1..Len(fs) |-> Content(fs[i])] : fs \in {Vouched(f)}}

SeenInit == Init /\ seen \in ReaderSees(file)

SeenNext == Next /\ seen' \in ReaderSees(file')

SeenSpec == SeenInit /\ [][SeenNext]_<< vars, seen >> /\ Fairness

Log == INSTANCE DurableLog
         WITH Opening   <- [type |-> "sheet", payload |-> SheetPayload],
              log       <- seen,
              committed <- Max({0} \cup {f.seq : f \in acked})

\* The file, its cache and its failures implement the durable log: appending
\* extends it, an ack commits it, and power loss takes only what no ack covers
\* (append_frame, fsync before ack).
ImplementsDurableLog == Log!LogSpec
=============================================================================
