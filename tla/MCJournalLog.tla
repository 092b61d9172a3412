----------------------------- MODULE MCJournalLog ------------------------------
(* Constants of the run of JournalLog. *)
EXTENDS JournalLog

CONSTANTS v1, v2

MCValue == {Null, v1, v2}

\* v2 makes a frame as large as the reader accepts, v1 and Null small ones.
MCBodyOf == [v \in MCValue |-> IF v = v2 THEN 2 ELSE 1]
=============================================================================
