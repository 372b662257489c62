SPECIFICATION Spec
CONSTANTS
  MaxObservations = 1
  MaxEvents = 1
  MaxActions = 1
INVARIANT HealthySessionEndsClean
CHECK_DEADLOCK FALSE
