SPECIFICATION FairSpec
CONSTANTS
  Users = {r1, r2}
  Replicas = {r1, r2}
  Host <- MCElection
  TTL = 3
  Period = 1
  OpTimeout = 2
  MaxFaults = 4
  MaxCrashes = 1
INVARIANTS TypeOK UnexpiredIsExclusive OverlapBounded
PROPERTIES UnexpiredNeverStolen HeldAgain
