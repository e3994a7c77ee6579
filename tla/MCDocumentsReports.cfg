SPECIFICATION FairSpec
CONSTANTS
  r1 = r1
  r2 = r2
  c1 = c1
  c2 = c2
  c3 = c3
  Replicas = {r1, r2}
  Callers = {c2, c3}
  Host <- MCHost
  Kinds <- MCKinds
  Watched = {c3}
  MaxRetries = 1
  MaxFaults = 0

PROPERTY ReportsEveryChange
