SPECIFICATION Spec
CONSTANTS
  Replicas = {r1, r2}
  Tasks = {1, 2}
  Topic <- MCTopics
  MaxAttempts <- MCMaxAttempts
  Visibility = 3
  Timeout = 1
  OpTimeout = 1
  Backoff = 1
  PollMax = 1
  Batch = 2
  Workers = 1
  MaxFaults = 2
  MaxStops = 1
  WaitCap = 0
INVARIANTS TypeOK StartsWithinBudget NeverTwiceAtOnce NoLostTask
