SPECIFICATION FairSpec
CONSTANTS
  Messages <- MCMessages
  Tables <- MCTables
  EarlierRows <- MCEarlierRows
  SeedAttempts = 2
  MaxMessages = 1
  MaxRuns = 2
INVARIANTS ReplayIsLive FollowerIsReplay
PROPERTY FollowerCatchesUp
CHECK_DEADLOCK FALSE
