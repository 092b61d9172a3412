SPECIFICATION Spec
CONSTANTS
  Replica = {0, 1, 2}
  Slots = 2
  MaxOps = 2
  MaxMail = 1
  Id = {"a", "b"}
  Datum = {1, 2}
  RingCap = 2
  MaxTick = 1
  MaxAppends = 3
  MaxBinds = 4
  Text = {"t"}
  Hint = {"h"}
  Reads <- MCReads
  Sim <- MCSim
  Observed = {0, 2}
  Tolerance = {0, 1}
  MaxChanges = 3
  CellCounts = {0, 1}
  EdgeCounts = {0, 2}
  EdgeKs = {0, 2, 9}
  Field = {0, 1}
  ProofLens = {0, 40}
  Digit = {"1"}
  Letter = {"x", "y", "z", "t", "f", "m", "c", "e"}
  True <- MCTrue
  False <- MCFalse
  Helper <- MCHelper
  Compiler <- Compile
  Mentioned <- Idents
  Evaluation <- EvalExpr
  CellId <- MCCellId
  FormulaText <- MCFormulaText
  Reading <- MCReading
  Deps <- MCDeps
  Sheets <- MCSheets
  MaxAdds = 4
  MaxPushes = 1
  Key = {"x", "1", ".", "e", "+", "-", "=", "<", "|", "(", ")", "!", " "}
  Piece <- MCPiece
  Binary <- MCBinary
  MaxTyped = 5
  Value = {"one", "null", "east", "north", "far", "near", "zero", "long"}
  Null = "null"
  Thread = {t1, t2}
  BookId = {"b"}
  Json = {"one"}
  BadText = {"bad"}
  Stamp = {1}
  SheetOf <- MCSheetOf
  MaxCalls = 4
  HistoryCell = "h"
  State = {"one", "east", "north", "far", "near", "zero", "long"}
  VectorOf <- MCVectorOf
  Warm <- MCWarm
  Op <- MCOp
  Unit = 2
  MaxEvents = 2
INVARIANTS
  SeenDeterminesState
  ValueCountsUpdates
  RingTellsHistory
  VerifiedIsOfThisCode
  QufReadsBack
  TextCompilesAsRead
  TextEdgesAgree
  GetIsWorth
  ReceiptsStay
  LensesAgree
CHECK_DEADLOCK FALSE
