SPECIFICATION FairSpec
CONSTANTS
  Plain <- MCPlain
  Limits <- MCLimits
  Keys <- MCKeys
  OwnActs <- MCOwnActs
  Here <- MCHere
  MaxTaps = 2
  Retained = 1
  MaxIntents = 2
  MaxOwn = 1
  MaxBodies = 2
  MaxPosted = 2
  Confirmed <- MCConfirmed
  Attacks = {1}
INVARIANTS EveryIntentIsObserved ReportIsEvidence
PROPERTIES NoTapAfterEvidence IntentsEnd
CHECK_DEADLOCK FALSE
