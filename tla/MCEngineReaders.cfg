SPECIFICATION ReadersFairSpec
CONSTANTS
  Clients = {c1, c2}
  Observations = {1, 2, 3}
  CommandCapacity = 2
  NoObservation = none
  Readers = {r1}
  EventSlots = 1
  Queries <- MCQueries
  MaxLoad = 3
INVARIANTS ReceiptReflected AcceptanceOrder NoSpuriousStop
  NoGapNoDuplicate EventInSnapshot ClosedIsComplete
PROPERTIES CallsReturn ImplementsLog ReadersCatchUp StableWaitReturns
CHECK_DEADLOCK FALSE
