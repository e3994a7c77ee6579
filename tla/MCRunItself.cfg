SPECIFICATION Spec
CONSTANTS
  r1 = r1
  r2 = r2
  s1 = s1
  s2 = s2
  s3 = s3
  w1 = w1
  w2 = w2
  Replicas = {r1, r2}
  Slots = {s1, s2}
  Host <- MCOneHost
  MaxAttempts = 2
  MaxConsecutiveFailures = 1
  Stale = 2
  MaxAge = 4
  TTL = 5
  Period = 1
  Sweep = 1
  Election = 1
  Works = {w1, w2}
  MaxFaults = 0
  MaxCrashes = 0
  MaxLost = 0
  StartCap = 0
INVARIANT NeverWithItself
