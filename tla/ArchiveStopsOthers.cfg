SPECIFICATION ChildFilesSpec
CONSTANTS
  None = None
  Delegations = {g1}
  Paths = {p1}
  MaxFileEdits = 1
  MaxFaults = 0
INVARIANT ArchiveSparesOthers
CHECK_DEADLOCK FALSE
