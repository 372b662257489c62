SPECIFICATION Spec
CONSTANTS
  m1 = m1  m2 = m2  a1 = a1  a2 = a2  i1 = i1 
  Maps <- MCMaps
  MaxCoordinate = 1
  Directions <- MCDirections
  Grounds = {"open"}
  Environments = {"light"}
  Undescribed = "undescribed"
  Nothing = Nothing
  Entities = {"ox"}
  Slots = {1}
  Items <- MCItems
  Amounts <- MCAmounts
  StatusBlocks <- MCStatusBlocks
  HistoryCapacity = 2
  CombatCapacity = 2
  MayAttachTo <- MCMayAttachTo
  MaxRevision = 4
  MaxSessions = 1
SYMMETRY MCSymmetry
CHECK_DEADLOCK FALSE
INVARIANTS
  MapScopedFactsAreHere
  ResourcesAreTheClients
  EquipmentIsTheClients
  OnlyThisSession
  CombatHistoryKept
PROPERTIES
  EpochNamesMap
  RecordedClosesAMenuAtMost
  ReadinessIsKept
