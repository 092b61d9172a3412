SPECIFICATION Spec
CONSTANTS
  Null = Null
  v1 = v1
  v2 = v2
  Value <- MCValue
  BodyOf <- MCBodyOf
  MaxBody = 1
  JCell = {"a"}
  Event = {v1, v2}
  Policy = {TRUE}
  FailStop = TRUE
  RestartByStart = FALSE
  RotKinds = {}
  MaxFrames = 3
  MaxCrashes = 0
  MaxFailures = 0
  MaxRot = 0
INVARIANT
  AckedReadable
CHECK_DEADLOCK FALSE
