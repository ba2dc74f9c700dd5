CONSTANTS
  c1 = c1
  c2 = c2
  t1 = t1
  t2 = t2
  Clients = {c1, c2}
  Targets = {t1, t2}
  TargetOf <- OneTarget
  MaxId = 2
  NullsFirst = FALSE
  MaxFailures = 0
SPECIFICATION RunSpec
CHECK_DEADLOCK FALSE
INVARIANT ExitReflectsOwnRun
