CONSTANTS
  r1 = r1
  r2 = r2
  s1 = s1
  s2 = s2
  e1 = e1
  e2 = e2
  Runtimes = {r1, r2}
  Sessions = {s1, s2}
  Executions = {e1, e2}
  NoExecution = none
  SessionsFor <- MCPrivate
  Runnable = {e1, e2}
  Overflowing = {}
  Lingering = {e1}
  BatchLimit = 1
  MayStop = {}
  DropInUse = FALSE
  MaxMishaps = 0
  MaxRestarts = 0
  MaxHold = 1
SPECIFICATION FairSpec
CHECK_DEADLOCK FALSE
PROPERTY BotRunIsBounded
