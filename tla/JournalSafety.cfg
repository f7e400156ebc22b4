CONSTANTS
  Facts = {f1}
  QuietFacts = {}
  Commands = {gated, free}
  NeedsAuthorization = {gated}
  NoDecision = {}
  Results = {done}
  FrameData = {frame}
  Tokens = {k1, k2}
  Owners = {w1}
  MaxEvents = 6
SPECIFICATION JournalSpec
INVARIANTS
  TablesMatchLog
  AttemptedAndEndedOnce
  DispatchIsGated
PROPERTIES
  ImplementsEventLog
  FencedCommits
SYMMETRY JournalSymmetry
CHECK_DEADLOCK FALSE
