SPECIFICATION Spec
CONSTANTS
  x = x
  s = s
  f = f
  g = g
  Cell = {x, s, f, g}
  Kind <- MCKind
  Declared <- MCDeclared
  Mentioned <- MCMentioned
  FailsOnNull = {f}
  Null = Null
  Datum = {d1, d2}
  Ctx = {"p", "q"}
  Thread = {t1}
  Reader = {t1}
  Writer = {t1}
  Loader = {t1}
  Callable = {x, f, g}
  Settable = {x, f}
  Sheets <- MCTwoSheets
  Subscriber <- MCWildcard
  InSubId = {}
  MaxOps = 5
INVARIANTS
  FreshWhenQuiet
PROPERTIES
  FreshAnswers
CHECK_DEADLOCK FALSE
