CONSTANTS
  l1 = l1
  l2 = l2
  w1 = w1
  w2 = w2
  u1 = u1
  i1 = i1
  acme = acme
  beta = beta
  Logins = {l1, l2}
  Sends = {w1, w2}
  Users = {u1}
  UserOf <- MCUserOf
  LoginName <- MCLoginName
  Unsigned = {}
  Ignored = {}
  Installations = {i1}
  InstallationOf <- MCInstallationOf
  Slugs = {acme, beta}
  Seeded <- MCSeeded
  MaxMishaps = 1
  MaxStops = 1
  MaxTransfers = 1
SPECIFICATION FairSpec
CHECK_DEADLOCK FALSE
INVARIANTS TypeOK OneOrgPerAccount TokenMeansMember
INVARIANTS EventsFollowOwnership TokenFollowsOwnership
PROPERTY MappedIsRecorded
