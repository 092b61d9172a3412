SPECIFICATION SeenSpec
CONSTANTS
  Null = Null
  v1 = v1
  v2 = v2
  Value <- MCValue
  BodyOf <- MCBodyOf
  MaxBody = 2
  JCell = {"a", "b"}
  Event = {v2}
  Policy = {TRUE, FALSE}
  FailStop = TRUE
  RestartByStart = FALSE
  RotKinds = {}
  MaxFrames = 3
  MaxCrashes = 2
  MaxFailures = 1
  MaxRot = 0
INVARIANTS
  AckedReadable
  LiveIsReplay
  TruncationIsHonest
PROPERTIES
  WritableAgain
  ImplementsDurableLog
CHECK_DEADLOCK FALSE
