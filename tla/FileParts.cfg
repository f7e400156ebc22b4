SPECIFICATION MCFilesSpec
CONSTANTS
  None = None
  MaxFaults = 2
  r = r
  x = x
  a1 = a1
  a2 = a2
  b1 = b1
  b2 = b2
  Root = r
  Branches = {b1, b2}
  Deliveries = {a1, a2}
  MaxRows = 6
  MaxDeaths = 1
  Positions = {1, 2}
  Bytes = {x, a1, a2}
  MaxEdits = 1
  MaxOperations = 1
  Deciders = {a1, a2}
  Candidates = {x}
  MaxRequests = 2
  Delegations = {a1, a2}
  Paths = {p1}
  MaxFileEdits = 2
  Managers = {a1, a2}
  MaxConfigs = 2
  MaxRevision = 2
CONSTRAINTS
  FewBranches
  FewDeaths
SYMMETRY FileSymmetry
CHECK_DEADLOCK FALSE
INVARIANTS
  BranchesAreSound
  OneCourse
  ArchivedIsClean
  OnlyKnownMixups
PROPERTIES
  PublicationIsSafe
  MergesOntoWhatItSaw
