CONSTANTS
  Facts = {f1, f2, quiet}
  QuietFacts = {quiet}
  Commands = {gated, free}
  NeedsAuthorization = {gated}
  NoDecision = {}
  Results = {done}
  FrameData <- Frames
  Tokens = {1, 2, 3, 4}
  Owners = {worker}
  MaxEvents = 8
  MaxCancels = 0
  MaxFaults = 0
  UserMessages = {f1, f2}
  Succeeding = {done}
  LongResults = {free}
  Pictured = {gated, free}
  MaxToolImages = 1
SPECIFICATION RuntimeSpec
INVARIANTS
  FollowUpShowsResults
  OldResultNeverRunsAlone
  OneDecisionPerGroup
  NothingForgotten
  OnlyKnownReplayGaps
  OnlyKnownStrandings
  ProjectionAgreesWithTables
SYMMETRY FactSymmetry
CHECK_DEADLOCK FALSE
