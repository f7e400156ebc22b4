CONSTANTS
  Facts = {f1, f2}
  QuietFacts = {}
  Commands = {gated}
  NeedsAuthorization = {gated}
  NoDecision = {}
  Results = {done}
  FrameData <- Frames
  Tokens = {1, 2, 3, 4}
  Owners = {worker}
  MaxEvents = 8
  MaxCancels = 0
  MaxFaults = 0
  UserMessages = {f1, f2}
  Succeeding = {done}
  LongResults = {}
  Pictured = {}
  MaxToolImages = 1
SPECIFICATION RuntimeSpec
INVARIANTS
  Replayable
SYMMETRY FactSymmetry
CHECK_DEADLOCK FALSE
