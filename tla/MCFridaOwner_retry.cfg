CONSTANTS
  dialog = dialog
  large = large
  attack = attack
  key = key
  menu1 = menu1
  menu2 = menu2
  Calls = {attack}
  Kind <- MCKind
  Size <- MCSize
  MaxPending = 2
  MaxEra = 2
  MaxActions = 2
  NoCall = NoCall
  Shutdown = Shutdown
SPECIFICATION DrainingSpec
PROPERTY RetryIsTaken
CHECK_DEADLOCK FALSE
