SPECIFICATION Spec
CONSTANTS
  c1 = c1
  Ticks = {1, 2}
  Guards = {1, 2}
  Comments = {c1}
  NoOne = NoOne
  MaxHeads = 2
  MaxRounds = 1
  RoundTimeout = 1
  MaxMoves = 2
  MaxFaults = 1
INVARIANTS TypeOK MergedIsApproved DelayWasQuiet NoRoundUnderAutoMerge OneNotePerChanges AnsweredOnce DeclineIsKept
