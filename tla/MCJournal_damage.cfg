SPECIFICATION Spec
CONSTANTS
  Null = Null
  v1 = v1
  v2 = v2
  Value <- MCValue
  BodyOf <- MCBodyOf
  MaxBody = 2
  JCell = {"a"}
  Event = {v1}
  Policy = {TRUE, FALSE}
  FailStop = FALSE
  RestartByStart = TRUE
  RotKinds = {"body", "length"}
  MaxFrames = 3
  MaxCrashes = 2
  MaxFailures = 1
  MaxRot = 1
INVARIANTS
  NeverSilentlyWrong
PROPERTIES
  CorruptionKept
CHECK_DEADLOCK FALSE
