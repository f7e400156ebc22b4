CONSTANTS
  Facts = {f1, f2}
  QuietFacts = {}
  Commands = {gated}
  NeedsAuthorization = {gated}
  NoDecision = {}
  Results = {done}
  FrameData <- Frames
  Tokens = {1, 2, 3}
  Owners = {worker}
  MaxEvents = 6
  MaxCancels = 1
  MaxFaults = 1
  AutoAuthorize = TRUE
SPECIFICATION SchedulerSpec
INVARIANTS
  IdleMeansDone
CONSTRAINT OneTrouble
SYMMETRY FactSymmetry
CHECK_DEADLOCK FALSE
