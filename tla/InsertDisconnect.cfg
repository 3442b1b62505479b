SPECIFICATION Spec
CONSTANTS
  MaxNodes = 3
  Groups <- TwoGroups
  InitialWords <- ZeroedWords
  Disconnected <- MCDisconnected
  Writers = {w1}
  Emitters = {e1}
  Free = free
  Clients <- InsertDisconnectClient
  MaxBlock = 0
INVARIANTS
  NoFault
CHECK_DEADLOCK FALSE
