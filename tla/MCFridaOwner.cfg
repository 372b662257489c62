CONSTANTS
  dialog = dialog
  large = large
  attack = attack
  key = key
  menu1 = menu1
  menu2 = menu2
  Calls = {dialog, attack, key, menu1, menu2}
  Kind <- MCKind
  Size <- MCSize
  MaxPending = 2
  MaxEra = 2
  MaxActions = 2
  NoCall = NoCall
  Shutdown = Shutdown
SPECIFICATION FairSpec
INVARIANTS InOrderOnce ReceiptMeansSent NothingLeftBehind
  NothingCrossesALogin DialogsArePaced
PROPERTY OwnerIsNotStuck
CHECK_DEADLOCK FALSE
