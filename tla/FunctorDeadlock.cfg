SPECIFICATION Spec
CONSTANTS
  MaxNodes = 3
  Groups <- TwoGroups
  InitialWords <- ZeroedWords
  Disconnected <- MCDisconnected
  MaxDepth = 2
  MaxBlock = 1
  Scoped = {c1, c2}
  Clients <- FunctorClient
INVARIANTS
  NoFault
CHECK_DEADLOCK FALSE
