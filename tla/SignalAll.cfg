SPECIFICATION Spec
CONSTANTS
  MaxNodes = 3
  Groups <- TwoGroups
  InitialWords <- ZeroedWords
  Disconnected <- MCDisconnected
  Writers = {w1}
  Emitters = {e1}
  Free = free
  Clients <- AllClients
  MaxBlock = 1
INVARIANTS
  TypeOK
  SafetyInvariant
  LocalsHold
  NoCallAfterDisconnect
  CalledOnce
  CalledInOrder
  OrderInvariant
CHECK_DEADLOCK FALSE
