CONSTANTS
  i1 = i1
  i2 = i2
  e1 = e1
  e2 = e2
  a1 = a1
  a2 = a2
  a3 = a3
  j1 = j1
  Items = {i1, i2}
  Executions = {e1, e2}
  ExecutionOf <- MCExecutionOf
  Approvals = {a1}
  Rejections = {j1}
  ItemOf <- MCItemOf
  ContextLoads = TRUE
  Unfit = {}
  TooLong = {i2}
  OneInstallation = TRUE
  BranchPushed = {e1, e2}
  MaxMishaps = 0
  MaxStops = 0
SPECIFICATION Spec
CHECK_DEADLOCK FALSE
PROPERTY DecidedOnce
