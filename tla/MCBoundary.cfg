SPECIFICATION BoundarySpec
CONSTANTS
  SeqSpace = 16
  FrameLen = 3
  Heartbeat = 2
  Eps = 1
  AlarmHi = 9
  Cell = {c7, c8}
  StartSeq = {7, 14}
  MaxFrames = 5
  MaxAir = 3
  MaxLosses = 1
  MaxRepeats = 2
  MaxSwaps = 1
  MaxBoots = 1
  Reading = {0, 1, 3, 9}
  ShortWrite = {0, 2}
  MaxTicks = 4
  MaxNoise = 1
  Trim <- MCTrim
  Sheets <- MCSheets
  Extras <- MCExtras
  Row = {"ada", "bob"}
  Datum = {"one", "two"}
  Name = {"a", "c", "p", "r", "v"}
  MaxOps = 4
INVARIANTS
  WalksVerify
  TearsAreExplained
  EveryLossCounted
  EverySentFrameDecoded
  DroppedFramesAreGaps
  NeverSilentForLong
  AcceptedSheetsAnswer
  OwnRowAnswers
  GetReadsThrough
  FailuresAreRetried
CHECK_DEADLOCK FALSE
