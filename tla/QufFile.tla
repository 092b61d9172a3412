------------------------------ MODULE QufFile ------------------------------
(***************************************************************************)
(* The QUF state file of crates/quilt-polyformalism: its layout computed   *)
(* twice (serialized_size and serialize), its reader with the checks R1 to *)
(* R9, and a medium that may lose the end of what was written.             *)
(*                                                                         *)
(* Lengths and offsets are the code's own.  The bytes of rows are values:  *)
(* a dial is its fields and its pad, an edge its fields and eight ladder   *)
(* buckets.  Magic, version and endianness are constants of the writer,    *)
(* which truncation alone does not change.                                 *)
(***************************************************************************)
EXTENDS Integers, SequencesExt

CONSTANTS CellCounts, EdgeCounts, \* the shapes a file is made with
          EdgeKs,                 \* ladder buckets per edge; 0 stands for 8
          Field,                  \* contents of fields, 0 among them
          ProofLens               \* lengths of proofs

ASSUME QufAssumption ==
  /\ \A n \in CellCounts \cup EdgeCounts : n \in Nat /\ n < 65536
  /\ \A k \in EdgeKs : k \in Nat /\ k < 256
  /\ ProofLens \subseteq Nat

VARIABLES file,    \* the QufFile in memory
          image,   \* the bytes on the medium: none, or the one image
          written, \* history: the file the image was written from, and its length
          read     \* the last answer of deserialize

qufVars == << file, image, written, read >>

AlignUp(v) == ((v + 31) \div 32) * 32

DialWire == 32
EdgeWire(k) == 12 + 2 * k
TickWire == 4

\* Length, name, value type and value of one KV; length, name, kind, offset
\* and size of one entry of the section table.
KvSize(nameLen) == 12 + nameLen
EntrySize(nameLen) == 24 + nameLen

\* "cell_count", "edge_count", "route_count", "edge.k" and "tick_period".
HeaderSize == 16 + KvSize(10) + KvSize(10) + KvSize(11) + KvSize(6) + KvSize(11)

\* Of "dials", "edges", "ticks" and "proof".
SectionNameLen == 5

NewFile(cellCount, edgeCount, edgeK) ==
  [cells |-> cellCount, edges |-> edgeCount,
   k |-> IF edgeK = 0 THEN 8 ELSE edgeK,
   dial |-> [i \in 1..cellCount |-> [field |-> 0, pad |-> 0]],
   edge |-> [i \in 1..edgeCount |-> [field |-> 0, ladder |-> [j \in 1..8 |-> 0]]],
   tick |-> [i \in 1..cellCount |-> 0],
   proof |-> << >>]

HasProof(f) == f.proof # << >>
ProofLen(f) == IF HasProof(f) THEN f.proof[1] ELSE 0

SectionNames(f) ==
  IF HasProof(f) THEN << "dials", "edges", "ticks", "proof" >>
  ELSE << "dials", "edges", "ticks" >>

\* The sizes a reader expects of the sections it knows (R7).
SectionSize(f, name) ==
  CASE name = "dials" -> f.cells * DialWire
    [] name = "edges" -> f.edges * EdgeWire(f.k)
    [] name = "ticks" -> f.cells * TickWire
    [] name = "proof" -> ProofLen(f)

\* The sections every file has, each padded.
PaddedRows(f) ==
  AlignUp(SectionSize(f, "dials")) + AlignUp(SectionSize(f, "edges"))
    + AlignUp(SectionSize(f, "ticks"))

\* Mutant: the proof's bytes are forgotten in the size.
SerializedSizeNoProof(f) ==
  AlignUp(AlignUp(128 + 56 * Len(SectionNames(f))) + PaddedRows(f))

\* serialized_size: the front matter takes 56 bytes for every section entry,
\* more than it needs.
SerializedSize(f) ==
  LET start  == AlignUp(16 + 108 + 4 + 56 * Len(SectionNames(f)))
      padded == PaddedRows(f) + AlignUp(ProofLen(f))
  IN  AlignUp(start + IF padded = 0 THEN 32 ELSE padded)

\* Where serialize puts a section.
SectionOffset(f, name) ==
  LET dials == AlignUp(HeaderSize + 4 + 56 * Len(SectionNames(f)))
      edges == AlignUp(dials + SectionSize(f, "dials"))
      ticks == AlignUp(edges + SectionSize(f, "edges"))
  IN  CASE name = "dials" -> dials
        [] name = "edges" -> edges
        [] name = "ticks" -> ticks
        [] name = "proof" -> AlignUp(ticks + SectionSize(f, "ticks"))

\* The bytes of a section as they are written: of an edge only the first k
\* buckets.
SectionRows(f, name) ==
  CASE name = "dials" -> f.dial
    [] name = "edges" -> [i \in 1..f.edges |->
                            [field |-> f.edge[i].field,
                             ladder |-> SubSeq(f.edge[i].ladder, 1, f.k)]]
    [] name = "ticks" -> f.tick
    [] name = "proof" -> f.proof

\* serialize's checks before each section (its -1).
HasRoom(f) ==
  \A name \in ToSet(SectionNames(f)) :
    SectionOffset(f, name) + SectionSize(f, name) <= SerializedSize(f)

\* An edge has eight buckets: with k above 8 the loop over them panics.
Panics(f) == f.edges > 0 /\ f.k > 8

Image(f) ==
  LET names == SectionNames(f)
  IN  [len |-> SerializedSize(f),
       kv |-> [cells |-> f.cells, edges |-> f.edges, k |-> f.k,
               tickPeriod |-> IF f.cells = 0 THEN 0 ELSE f.tick[1]],
       sections |-> [i \in 1..Len(names) |->
                       [name |-> names[i], off |-> SectionOffset(f, names[i]),
                        size |-> SectionSize(f, names[i]),
                        rows |-> SectionRows(f, names[i])]]]

-----------------------------------------------------------------------------
\* Where the front matter ends, and the reader's position behind it.
TableEnd(img) ==
  HeaderSize + 4 + Len(img.sections) * EntrySize(SectionNameLen)

\* R6 and R3.
SectionFits(img, s) == s.off >= TableEnd(img) /\ s.off + s.size <= img.len

\* The checks of deserialize, in their order.
Accepted(img) ==
  /\ img.len >= 16
  /\ img.len % 32 = 0
  /\ TableEnd(img) <= img.len
  /\ \A i \in 1..Len(img.sections) :
       LET s == img.sections[i] IN
         /\ s.off % 32 = 0
         /\ SectionFits(img, s)
         /\ s.name # "proof" => s.size = SectionSize(NewFile(img.kv.cells, img.kv.edges, img.kv.k), s.name)

\* What one section adds to the file being read.
Populate(f, s) ==
  CASE s.name = "dials" ->
         [f EXCEPT !.dial = [i \in 1..f.cells |-> [field |-> s.rows[i].field, pad |-> 0]]]
    [] s.name = "edges" ->
         [f EXCEPT !.edge = [i \in 1..f.edges |->
            [field |-> s.rows[i].field,
             ladder |-> [j \in 1..8 |-> IF j <= f.k THEN s.rows[i].ladder[j] ELSE 0]]]]
    [] s.name = "ticks" -> [f EXCEPT !.tick = s.rows]
    [] s.name = "proof" -> [f EXCEPT !.proof = s.rows]

\* The file that is read into: numbers are read as 32 bits and kept as 16 or 8.
U16(v) == v % 65536
U8(v) == v % 256

FirstRead(img) ==
  LET blank == NewFile(U16(img.kv.cells), U16(img.kv.edges), U8(img.kv.k))
  IN  IF img.kv.cells = 0 THEN blank
      ELSE [blank EXCEPT !.tick[1] = img.kv.tickPeriod]

Deserialized(img) ==
  LET after[i \in 0..Len(img.sections)] ==
        IF i = 0 THEN FirstRead(img) ELSE Populate(after[i - 1], img.sections[i])
  IN  after[Len(img.sections)]

-----------------------------------------------------------------------------
Unread == [status |-> "unread", file |-> NewFile(0, 0, 0)]

QufInit ==
  /\ file = NewFile(0, 0, 0)
  /\ image = << >>
  /\ written = << >>
  /\ read = Unread

New(cellCount, edgeCount, edgeK) ==
  /\ image = << >>
  /\ file' = NewFile(cellCount, edgeCount, edgeK)
  /\ UNCHANGED << image, written, read >>

\* The fields are public: a caller fills the rows and attaches a proof.
SetDial(i, v, pad) ==
  /\ image = << >> /\ i <= file.cells
  /\ file' = [file EXCEPT !.dial[i] = [field |-> v, pad |-> pad]]
  /\ UNCHANGED << image, written, read >>

SetEdge(i, v) ==
  /\ image = << >> /\ i <= file.edges
  /\ file' = [file EXCEPT !.edge[i] = [field |-> v, ladder |-> [j \in 1..8 |-> v]]]
  /\ UNCHANGED << image, written, read >>

SetTick(i, v) ==
  /\ image = << >> /\ i <= file.cells
  /\ file' = [file EXCEPT !.tick[i] = v]
  /\ UNCHANGED << image, written, read >>

SetProof(len) ==
  /\ image = << >>
  /\ file' = [file EXCEPT !.proof = << len >>]
  /\ UNCHANGED << image, written, read >>

\* Without room serialize returns -1, and the caller has no file to store.
Serialize ==
  /\ image = << >>
  /\ ~ Panics(file)
  /\ image' = IF HasRoom(file) THEN << Image(file) >> ELSE << >>
  /\ written' = << file, SerializedSize(file) >>
  /\ UNCHANGED << file, read >>

\* The medium keeps only the first len bytes of all that was written, once.
Truncate(len) ==
  /\ image # << >> /\ image[1].len = written[2] /\ len < written[2]
  /\ image' = << [image[1] EXCEPT !.len = len] >>
  /\ UNCHANGED << file, written, read >>

Deserialize ==
  /\ image # << >>
  /\ read' = IF Accepted(image[1])
             THEN [status |-> "ok", file |-> Deserialized(image[1])]
             ELSE [Unread EXCEPT !.status = "refused"]
  /\ UNCHANGED << file, image, written >>

QufNext ==
  \/ \E c \in CellCounts, e \in EdgeCounts, k \in EdgeKs : New(c, e, k)
  \/ \E i \in CellCounts \ {0}, v \in Field, pad \in Field : SetDial(i, v, pad)
  \/ \E i \in EdgeCounts \ {0}, v \in Field : SetEdge(i, v)
  \/ \E i \in CellCounts \ {0}, v \in Field : SetTick(i, v)
  \/ \E len \in ProofLens : SetProof(len)
  \/ Serialize
  \/ image # << >> /\ \E len \in 0..(written[2] - 1) : Truncate(len)
  \/ Deserialize

-----------------------------------------------------------------------------
(***************************************************************************)
(* Properties                                                              *)
(***************************************************************************)

\* What the format keeps of a file: not the pads, and of every edge the first
\* k buckets.
Kept(f) ==
  [f EXCEPT !.dial = [i \in 1..f.cells |-> [f.dial[i] EXCEPT !.pad = 0]],
            !.edge = [i \in 1..f.edges |->
              [f.edge[i] EXCEPT !.ladder =
                 [j \in 1..8 |-> IF j <= f.k THEN @[j] ELSE 0]]]]

\* The size computed beforehand is room enough for every section, a whole file
\* reads back as what was written, and a file cut anywhere is refused or still
\* reads as all that was written, never as part of it (serialized_size,
\* serialize, deserialize, R1 to R9).
QufReadsBack ==
  /\ written # << >> => image # << >>
  /\ read.status = "ok" => read.file = Kept(written[1])
  /\ read.status = "refused" => image[1].len < written[2]
=============================================================================
