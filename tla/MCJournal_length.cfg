SPECIFICATION Spec
CONSTANTS
  Null = Null
  v1 = v1
  v2 = v2
  Value <- MCValue
  BodyOf <- MCBodyOf
  MaxBody = 2
  JCell = {"a"}
  Event = {v1}
  Policy = {TRUE}
  FailStop = TRUE
  RestartByStart = FALSE
  RotKinds = {"length"}
  MaxFrames = 3
  MaxCrashes = 1
  MaxFailures = 0
  MaxRot = 1
PROPERTY
  CompleteFramesKept
CHECK_DEADLOCK FALSE
