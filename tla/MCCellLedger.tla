---------------------------- MODULE MCCellLedger ----------------------------
(* Constants of the run of a live ledger and its mirror. *)
EXTENDS LedgerMirror

CONSTANTS v1, v2

MCValue == {Null, v1, v2}
MCForecast == {None, Some(v1)}
MCGenesis == {None, Some(v2)}
=============================================================================
