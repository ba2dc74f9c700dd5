CONSTANTS
  x1 = x1
  q1 = q1
  a1 = a1
  Executions = {x1}
  Reviews = {q1}
  Attestations = {a1}
  Period = 1
  Window = 4
  Limit = 2
  MaxLag = 1
  RetryDelay = 1
  MaxFails = 1
  MaxBreaks = 1
  MaxBusy = 2
  Horizon = 6
SPECIFICATION Spec
CHECK_DEADLOCK FALSE
INVARIANTS TypeOK StartIsShown SettledIsShown
PROPERTY SendsOneMoment
