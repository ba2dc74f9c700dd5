CONSTANTS
  r1 = r1
  r2 = r2
  s1 = s1
  s2 = s2
  e1 = e1
  none = none
  b1 = b1
  b2 = b2
  b3 = b3
  c1 = c1
  c2 = c2
  t1 = t1
  t2 = t2
  q1 = q1
  q2 = q2
  q3 = q3
  a1 = a1
  a2 = a2
  a3 = a3
  x1 = x1
  x2 = x2
  x3 = x3
  p1 = p1
  p2 = p2
  h1 = h1
  Runtimes = {r1, r2}
  Sessions = {s1, s2}
  SessionsFor <- MCSessionsFor
  MaxHold = 3
  MaxEvents = 3
  Bots = {b1, b2, b3}
  Malformed = {1}
  WithoutRepo = {}
  EventType <- MCEventType
  Installed <- MCInstalled
  Sound = {b1, b2}
  Triggers <- MCTriggers
  BatchLimit = 2
  MaxMishaps = 2
  MaxStops = 1
  Clients = {c1, c2}
  Targets = {t1, t2}
  TargetOf <- MCTargetOf
  MaxId = 2
  NullsFirst = FALSE
  MaxFailures = 1
  Requests = {q1, q2, q3}
  MaxOutages = 2
  Attempts = {a1, a2, a3}
  Executions = {x1, x2, x3}
  Repos = {p1, p2}
  AnyRepo = any
  ExecutionOf <- MCAttestedBy
  HashOf <- MCHashOf
  RepoOf <- MCRepoOf
  PageSize = 1
  IdLimit = 2
  IndexLimit = 2
SPECIFICATION ServicesSpec
CHECK_DEADLOCK FALSE
INVARIANTS TypeOK LossesAreMishaps DuplicatesAreInterruptions
INVARIANTS ExitReflectsItsTarget FetchedAtMostOnce RefusedOnOwnFailure
INVARIANTS PagesMissNothing VerifiedIsComplete
PROPERTIES ImplementsEventLifecycle EveryEventIsProcessed QueuedIsTakenUp
PROPERTIES ClaimedGetsVerdict ReturnsOnceSettled RequestsGoOn
