SPECIFICATION Spec
CONSTANTS
  MaxNodes = 3
  Groups <- NoGroups
  InitialWords <- ZeroedWords
  Disconnected <- MCDisconnected
  Writers = {w1}
  Emitters = {e1}
  Free = free
  Clients <- ExtendedClient
  MaxBlock = 0
INVARIANTS
  NoFault
CHECK_DEADLOCK FALSE
