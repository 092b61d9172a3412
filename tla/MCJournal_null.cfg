SPECIFICATION Spec
CONSTANTS
  Null = Null
  v1 = v1
  v2 = v2
  Value <- MCValue
  BodyOf <- MCBodyOf
  MaxBody = 2
  JCell = {"a"}
  Event = {Null, v1}
  Policy = {TRUE}
  FailStop = TRUE
  RestartByStart = FALSE
  RotKinds = {}
  MaxFrames = 3
  MaxCrashes = 0
  MaxFailures = 0
  MaxRot = 0
INVARIANT
  TruncationIsHonest
CHECK_DEADLOCK FALSE
