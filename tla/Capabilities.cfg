SPECIFICATION MCCapabilitiesSpec
CONSTANTS
  None = None
  MaxFaults = 1
  MaxConfigs = 2
  MaxRevision = 2
  t1 = t1
  t2 = t2
  Tasks = {t1, t2}
  MaxConnections = 2
  k1 = k1
  k2 = k2
  h1 = h1
  h2 = h2
  Keepers = {k1, k2}
  Contents = {h1, h2}
  Ruin = Ruin
  MaxSkillRevision = 2
  s1 = s1
  s2 = s2
  s3 = s3
  Sessions = {s1, s2, s3}
  MaxWrites = 3
  MaxOutputs = 2
  MaxChunks = 1
  MaxRequests = 1
  MaxQueued = 2
  MaxSteps = 3
SYMMETRY CapabilitySymmetry
CHECK_DEADLOCK FALSE
INVARIANTS
  ServersAreCurrent
  SkillsAreWhole
  ApprovalsFindTheirRecord
  DisplayIsTrue
  OrderlyRestoresAreExact
