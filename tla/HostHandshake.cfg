SPECIFICATION HostFairSpec
CONSTANTS
  c1 = c1
  c2 = c2
  NoRevision = NoRevision
  Calls = {c1, c2}
  MaxKills = 1
  MaxSwitches = 1
CHECK_DEADLOCK FALSE
INVARIANTS
  OneWriter
  OnlyKnownSlips
PROPERTIES
  HostWritesAlone
  EveryRequestEnds
  KeepsPromise
