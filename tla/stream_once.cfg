CONSTANTS
  x1 = x1
  q1 = q1
  a1 = a1
  Executions = {x1}
  Reviews = {}
  Attestations = {}
  Period = 3
  Window = 10
  Limit = 2
  MaxLag = 1
  RetryDelay = 3
  MaxFails = 0
  MaxBreaks = 0
  MaxBusy = 2
  Horizon = 24
SPECIFICATION Spec
CHECK_DEADLOCK FALSE
INVARIANT VerdictIsShown
