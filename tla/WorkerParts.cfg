SPECIFICATION MCWorkerSpec
CONSTANTS
  None = None
  MaxFaults = 1
  c1 = c1
  Children = {c1}
  MaxTools = 2
  r1 = r1
  r2 = r2
  Readers = {r1, r2}
  LastPosition = 4
  t1 = t1
  t2 = t2
  Callers = {t1, t2}
  Bounded = TRUE
  x1 = x1
  x2 = x2
  Runs = {x1, x2}
CHECK_DEADLOCK FALSE
INVARIANTS
  ReportIsTheReturn
  WindowsJoin
  OutcomesAreTrue
PROPERTIES
  EveryDelegationReports
  EveryJobEnds
  EveryCallReturns
