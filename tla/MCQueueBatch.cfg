SPECIFICATION FairSpec
CONSTANTS
  Replicas = {r1, r2}
  Tasks = {1, 2}
  Topic <- MCOneTopic
  MaxAttempts <- MCMaxAttempts
  Visibility = 3
  Timeout = 1
  OpTimeout = 1
  Backoff = 1
  PollMax = 1
  Batch = 1
  Workers = 1
  MaxFaults = 1
  MaxStops = 1
  WaitCap = 0
PROPERTY EveryTaskSettles
