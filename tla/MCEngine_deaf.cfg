SPECIFICATION Spec
CONSTANTS
  x = x
  s = s
  f = f
  g = g
  Cell = {x, s, f, g}
  Kind <- MCKind
  Declared <- MCDeclared
  Mentioned <- MCMentioned
  FailsOnNull = {f}
  Null = Null
  Datum = {d1, d2}
  Ctx = {"p"}
  Thread = {t1}
  Reader = {t1}
  Writer = {t1}
  Loader = {}
  Callable = {}
  Settable = {x}
  Sheets <- MCSheets
  Subscriber <- MCOneCell
  InSubId = {}
  MaxOps = 4
INVARIANTS
  SubscriberHears
CHECK_DEADLOCK FALSE
