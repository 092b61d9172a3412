SPECIFICATION Spec
CONSTANTS
  x = x
  s = s
  f = f
  g = g
  Cell = {x, s, f, g}
  Kind <- MCKind
  Declared <- MCDeclared
  Mentioned <- MCMentioned
  FailsOnNull = {f}
  Null = Null
  Datum = {d1, d2}
  Ctx = {"p"}
  Thread = {t1, t2}
  Reader = {t1}
  Writer = {t1, t2}
  Loader = {}
  Callable = {}
  Settable = {x}
  Sheets <- MCSheets
  Subscriber <- MCWildcard
  InSubId = {}
  MaxOps = 3
INVARIANTS
  WritesSettle
  OneEventPerMutation
PROPERTIES
  OperationsFinish
CHECK_DEADLOCK FALSE
