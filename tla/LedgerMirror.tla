---------------------------- MODULE LedgerMirror ----------------------------
(***************************************************************************)
(* A fresh ledger rebuilt by restore_entry from entries of a live one that *)
(* an unreliable courier hands over: late, twice, out of order, altered,   *)
(* or taken from another cell's ledger.  This is the recovery path a       *)
(* journal replay takes, without the journal's own protection.             *)
(***************************************************************************)
EXTENDS CellLedger

CONSTANT OtherCell  \* a cell whose ledger saw the same transactions

ASSUME MirrorAssumption == OtherCell # Cell

VARIABLE mirror     \* the CellLedger being rebuilt

mirrorVars == << vars, mirror >>

\* An entry as the ledger of OtherCell would have sealed it: same body, other
\* genesis commit.
ForeignFirst == NextEntry(NewLedger(OtherCell), ledger.entries[1].input,
                          ledger.entries[1].ts, ledger.entries[1].after,
                          ledger.entries[1].outTs, None)

\* What may reach the mirror: any entry of the chain, intact or with one
\* field altered, or the first entry of the other cell.
Deliverable ==
  LET es == ledger.entries IN
       ToSet(es)
  \cup {[e EXCEPT !.after = v] : e \in ToSet(es), v \in Value}
  \cup {[e EXCEPT !.expected = o] : e \in ToSet(es), o \in Forecast}
  \cup (IF es = << >> THEN {} ELSE {ForeignFirst})

MirrorInit == Init /\ mirror = NewLedger(Cell)

Restore(e) ==
  /\ mirror' = RestoreEntry(mirror, e)
  /\ UNCHANGED vars

MirrorNext == \/ Next /\ UNCHANGED mirror
              \/ \E e \in Deliverable : Restore(e)

\* The replay loop keeps feeding the next intact entry it holds.
FeedNext == /\ Len(mirror.entries) < Len(ledger.entries)
            /\ Restore(ledger.entries[Len(mirror.entries) + 1])

MirrorSpec == MirrorInit /\ [][MirrorNext]_mirrorVars
                         /\ WF_mirrorVars(FeedNext)

-----------------------------------------------------------------------------
\* What restore_entry accepts is always a prefix of the live chain and leaves
\* the state that prefix left: nothing altered, reordered, repeated or
\* foreign is ever absorbed, and nothing at all of a ledger built with a
\* genesis, which must be restored first (restore_entry's contract).
MirrorIsPrefix ==
  /\ IsPrefix(mirror.entries, ledger.entries)
  /\ mirror.state = IF mirror.entries = << >> THEN Null
                    ELSE Last(mirror.entries).after
  /\ ChainIntact(mirror) /\ ContinuityIntact(mirror)
  /\ ledger.genesis # None => mirror.entries = << >>

\* A mirror of a ledger built with new catches up with it, whatever the
\* courier slips in between.
MirrorCatchesUp ==
  \A n \in 1..MaxEntries :
    (ledger.genesis = None /\ Len(ledger.entries) = n)
      ~> (Len(mirror.entries) >= n)
=============================================================================
