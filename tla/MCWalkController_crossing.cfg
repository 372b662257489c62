CONSTANTS
  MaxX = 1
  MaxY = 1
  Halo = 1
  Radius = 1
  Nowhere = Nowhere
  Target <- MCTarget
  Known <- MCKnown
  Start <- MCStart
  Refusals <- MCRefusals
  Passers <- MCPassers
  Portals <- MCPortals
  MaximumAttempts = 4
  EdgeObservations = 2
  RevalidationEpochs = 1
  MaxPackets = 2
SPECIFICATION Spec
INVARIANTS CrossingIsThePortal
CHECK_DEADLOCK FALSE
