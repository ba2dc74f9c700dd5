CONSTANTS
  i1 = i1
  i2 = i2
  e1 = e1
  e2 = e2
  a1 = a1
  a2 = a2
  a3 = a3
  j1 = j1
  l1 = l1
  l2 = l2
  Items = {i1, i2}
  Executions = {e1, e2}
  ExecutionOf <- MCExecutionOf
  Approvals = {a1, a2, a3}
  Rejections = {j1}
  ItemOf <- MCItemOf
  ContextLoads = TRUE
  Unfit = {}
  TooLong = {i2}
  OneInstallation = TRUE
  BranchPushed = {e1, e2}
  MaxMishaps = 2
  MaxStops = 1
  Own = {a1, j1}
  Lists = {l1, l2}
  MaxLost = 1
  Logins = {l1, l2}
  MaxStrays = 1
SPECIFICATION ReviewsSpec
CHECK_DEADLOCK FALSE
INVARIANTS TypeOK PullRequestIsAttested LeftoversAreFailures OkMeansDone
INVARIANTS NothingHidden SessionIsOwn
PROPERTIES ApprovalIsCarriedOut PageDecidesOnce CalledBackEnds
