CONSTANTS
  r1 = r1
  r2 = r2
  s1 = s1
  s2 = s2
  e1 = e1
  e2 = e2
  Runtimes = {r1, r2}
  Sessions = {s1, s2}
  Executions = {e1, e2}
  NoExecution = none
  SessionsFor <- MCPrivate
  Runnable = {e1}
  Overflowing = {e1}
  Lingering = {}
  BatchLimit = 2
  MayStop = {r1, r2}
  DropInUse = FALSE
  MaxMishaps = 1
  MaxRestarts = 1
  MaxHold = 2
SPECIFICATION Spec
CHECK_DEADLOCK FALSE
INVARIANTS TypeOK BatchIsExclusive StartedAtMostOnce
INVARIANTS CompletedWasStarted RunsOnlyClaimedRows
PROPERTIES ImplementsLifecycle ExitNeverAbandonsABot
