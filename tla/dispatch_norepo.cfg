CONSTANTS
  r1 = r1
  r2 = r2
  s1 = s1
  s2 = s2
  b1 = b1
  b2 = b2
  b3 = b3
  Runtimes = {r1, r2}
  Sessions = {s1, s2}
  SessionsFor <- MCSessionsFor
  MaxHold = 3
  MaxEvents = 3
  Bots = {b1, b2, b3}
  Malformed = {}
  WithoutRepo = {2}
  EventType <- MCEventType
  Installed <- MCInstalled
  Sound = {b1, b2}
  Triggers <- MCTriggers
  BatchLimit = 2
  MaxMishaps = 0
  MaxStops = 0
SPECIFICATION Spec
CHECK_DEADLOCK FALSE
INVARIANT MatchingRowsAreCreated
