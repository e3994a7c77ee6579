SPECIFICATION Spec
CONSTANTS
  Replicas = {r1}
  Tasks = {1, 2}
  Topic <- MCTopics
  MaxAttempts <- MCMaxAttempts
  Visibility = 8
  Timeout = 6
  OpTimeout = 1
  Backoff = 1
  PollMax = 1
  Batch = 2
  Workers = 2
  MaxFaults = 0
  MaxStops = 0
  WaitCap = 6
INVARIANT WaitsAtMostOnePoll
