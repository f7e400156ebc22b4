SPECIFICATION OneShotFairSpec
CONSTANTS
  a = a
  b = b
  s1 = s1
  s2 = s2
  c1 = c1
  None = None
  Sessions = {a, b}
  Schedules = {s1, s2}
  Cancels = {c1}
  SessionOf <- MCSessionOf
  Target <- MCTarget
  Delay <- MCDelay
  MayBreak = {b}
  LastStart = 0
  LastTime = 2
  MaxFaults = 1
CHECK_DEADLOCK FALSE
INVARIANTS
  OneVerdict
  DeliveredIsAccepted
PROPERTIES
  EveryCheckArrives
