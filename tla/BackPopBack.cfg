SPECIFICATION Spec
CONSTANTS
  MaxNodes = 3
  Groups <- NoGroups
  InitialWords <- ZeroedWords
  Disconnected <- MCDisconnected
  Writers = {w1}
  Emitters = {e1}
  Free = free
  Clients <- BackPopBackClient
  MaxBlock = 0
INVARIANTS
  NoSlotLost
CHECK_DEADLOCK FALSE
