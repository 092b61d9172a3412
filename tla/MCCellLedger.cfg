SPECIFICATION MirrorSpec
CONSTANTS
  Null = Null
  v1 = v1
  v2 = v2
  Cell = "c"
  OtherCell = "d"
  Value <- MCValue
  Input = {v1, v2}
  Output = {Null, v1}
  Forecast <- MCForecast
  Genesis <- MCGenesis
  MaxEntries = 3
  MaxTickets = 2
  MaxTime = 1
INVARIANTS
  BooksHonest
  TicketsMatch
  TamperEvident
  ReplayAgreesUnlessLate
  RoundTrips
  MirrorIsPrefix
PROPERTIES
  MirrorCatchesUp
  AppendOnly
CHECK_DEADLOCK FALSE
