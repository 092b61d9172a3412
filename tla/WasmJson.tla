------------------------------ MODULE WasmJson ------------------------------
(***************************************************************************)
(* The JSON values of crates/quilt-core-wasm: what formulas compute with   *)
(* and cells hold.  Numbers are integers; anything else a reading may be   *)
(* is null.                                                                *)
(***************************************************************************)
Num(n) == [type |-> "num", of |-> n]
Bool(b) == [type |-> "bool", of |-> b]
NullJson == [type |-> "null", of |-> 0]
Error == [type |-> "error", of |-> 0]
=============================================================================
