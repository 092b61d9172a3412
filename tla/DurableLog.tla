----------------------------- MODULE DurableLog -----------------------------
(***************************************************************************)
(* What the journal promises its caller, without files: a log that grows   *)
(* at its end, a committed part of it that an acknowledgement covers, and  *)
(* failures that take back an uncommitted suffix and nothing else.         *)
(***************************************************************************)
EXTENDS Naturals, Sequences

CONSTANT Opening  \* the record every log starts with, and only starts with

VARIABLES log,       \* the records a reader of the log sees
          committed  \* how many of them have been acknowledged

logVars == << log, committed >>

LogInit == log = << >> /\ committed = 0

Extend == /\ Len(log') = Len(log) + 1
          /\ SubSeq(log', 1, Len(log)) = log
          /\ (log'[Len(log')] = Opening) <=> (log = << >>)
          /\ UNCHANGED committed

Commit == /\ committed' = Len(log)
          /\ UNCHANGED log

Lose(n) == /\ n \in committed..Len(log)
           /\ log' = SubSeq(log, 1, n)
           /\ UNCHANGED committed

LogNext == \/ Extend
           \/ Commit
           \/ \E n \in 0..Len(log) : Lose(n)

LogSpec == LogInit /\ [][LogNext]_logVars
=============================================================================
