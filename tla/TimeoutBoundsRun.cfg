SPECIFICATION CommandRunsFairSpec
CONSTANTS
  None = None
  Runs = {x1}
  MaxFaults = 0
PROPERTY RunsEnd
CHECK_DEADLOCK FALSE
