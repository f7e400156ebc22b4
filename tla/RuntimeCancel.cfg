CONSTANTS
  Facts = {f1, f2, f3}
  QuietFacts = {}
  Commands = {a}
  NeedsAuthorization = {}
  NoDecision = {}
  Results = {done}
  FrameData <- Frames
  Tokens = {1, 2, 3, 4}
  Owners = {worker}
  MaxEvents = 8
  MaxCancels = 1
  MaxFaults = 1
  UserMessages = {f1, f2, f3}
  Succeeding = {done}
  LongResults = {a}
  Pictured = {a}
  MaxToolImages = 1
SPECIFICATION RuntimeSpec
INVARIANTS
  OnlyKnownUnread
  StoppedIsNotResumed
CONSTRAINT OneDisturbance
SYMMETRY FactSymmetry
CHECK_DEADLOCK FALSE
