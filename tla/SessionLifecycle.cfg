SPECIFICATION FairSpec
CONSTANTS
  MaxObservations = 2
  MaxEvents = 1
  MaxActions = 1
INVARIANTS NothingOutlivesTheReport ReportIsFinal
PROPERTY TeardownEnds
CHECK_DEADLOCK FALSE
